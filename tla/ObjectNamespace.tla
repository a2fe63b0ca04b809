--------------------------- MODULE ObjectNamespace ---------------------------
(***************************************************************************)
(* The object namespace of the storage service and the calls of StorageApi *)
(* that change it: one transaction that copies the records it changes,     *)
(* direct changes beside it (Mkdir, a write through a handle, a staged     *)
(* write), and the snapshot that every change persists.  Flow and Fetch    *)
(* share the interface, so any call may come between any two others.  The  *)
(* volume below is what SystemCatalog shows it to be: a commit takes       *)
(* effect or not, and a failed one is looked up again.  The extents of a   *)
(* file are a second machine with its own variables, below.                *)
(***************************************************************************)
EXTENDS Naturals, FiniteSets, FiniteSetsExt, Sequences, SequencesExt

CONSTANTS
    MAX_OBJECTS,        \* Slots, of which slot 0 is the root.
    Names,
    MAX_HANDLES,
    MAX_TRANSACTION_RECORDS,
    MaxGeneration,      \* Bound on the generation of a slot.
    MaxChanges,         \* Bound on the generation of the volume.
    UnlatchedFaults     \* May the recovery of a Mkdir fail.

Slots == 0..(MAX_OBJECTS - 1)
NoId == <<MAX_OBJECTS, 1>>
ROOT == <<0, 1>>
Outcomes == {"published", "unpublished", "broken", "broken after"}

VARIABLES
    memory,     \* namespace.records
    disk,       \* the records of the snapshot on the volume
    generation, \* volume.generation
    newest,     \* the generation on the volume
    tx,         \* active: its base generation, its changes and what it saw at Begin
    staged,     \* the path of the staged write: a directory and a name
    handles,
    failed,     \* StorageApi.failed
    gone        \* ids whose removal was acknowledged

vars == <<memory, disk, generation, newest, tx, staged, handles, failed, gone>>

EMPTY == [gen |-> 0, parent |-> NoId, kind |-> "File", alive |-> FALSE, name |-> "", data |-> 0]
RootRecord == [EMPTY EXCEPT !.gen = 1, !.kind = "Directory", !.alive = TRUE]
Blank == [s \in Slots |-> IF s = 0 THEN RootRecord ELSE EMPTY]
NoTx == [active |-> FALSE, base |-> 0, changed |-> {}, records |-> 0, removed |-> {}, view |-> Blank, seen |-> Blank]
NotStaged == [open |-> FALSE, parent |-> NoId, name |-> ""]

Init ==
    /\ memory = Blank /\ disk = Blank /\ generation = 1 /\ newest = 1
    /\ tx = NoTx /\ staged = NotStaged
    /\ handles = [h \in 1..MAX_HANDLES |-> NoId]
    /\ failed = FALSE /\ gone = {}

(***************************************************************************)
(* Records, of the namespace or of the view that a transaction has of it.  *)
(***************************************************************************)
Id(records, s) == <<s, records[s].gen>>
Live(records) == {Id(records, s) : s \in {t \in Slots : records[t].alive}}
object_record(records, id) == records[id[1]]
IsDirectory(records, id) ==
    id \in Live(records) /\ object_record(records, id).kind = "Directory"

find_child(records, parent, name) ==
    {id \in Live(records) : /\ object_record(records, id).parent = parent
                            /\ object_record(records, id).name = name}

is_descendant_Mutant(records, object, parent) == object = parent

(* The walk from parent towards the root meets object.                     *)
is_descendant(records, object, parent) ==
    LET up[id \in Live(records), n \in 0..MAX_OBJECTS] ==
          \/ id = object
          \/ /\ id # ROOT /\ n > 0
             /\ object_record(records, id).parent \in Live(records)
             /\ up[object_record(records, id).parent, n - 1]
    IN  up[parent, MAX_OBJECTS]

FreeSlots(records) == {s \in Slots : ~records[s].alive /\ records[s].gen < MaxGeneration}

CanCreate(records, parent, name) ==
    /\ IsDirectory(records, parent)
    /\ find_child(records, parent, name) = {}
    /\ {s \in Slots : ~records[s].alive} # {}
    /\ Min({s \in Slots : ~records[s].alive}) \in FreeSlots(records)

create_Mutant(records, parent, kind, name) ==
    LET s == Min(FreeSlots(records))
    IN  [records EXCEPT ![s] =
           [gen |-> IF @.gen = 0 THEN 1 ELSE @.gen, parent |-> parent, kind |-> kind,
            alive |-> TRUE, name |-> name, data |-> 0]]

(* plan_create and apply_create: the first slot that is not alive, with    *)
(* the next generation.                                                    *)
create(records, parent, kind, name) ==
    LET s == Min(FreeSlots(records))
    IN  [records EXCEPT ![s] = [gen |-> @.gen + 1, parent |-> parent, kind |-> kind,
                                alive |-> TRUE, name |-> name, data |-> 0]]

CanRename(records, id, parent, name) ==
    /\ id \in Live(records) /\ id # ROOT
    /\ IsDirectory(records, parent)
    /\ find_child(records, parent, name) \subseteq {id}
    /\ ~is_descendant(records, id, parent)

apply_rename(records, id, parent, name) ==
    [records EXCEPT ![id[1]].parent = parent, ![id[1]].name = name]

CanUnlink(records, id) ==
    /\ id \in Live(records) /\ id # ROOT
    /\ ~\E child \in Live(records) : object_record(records, child).parent = id

apply_unlink(records, id) == [records EXCEPT ![id[1]].alive = FALSE]

IsFile(records, id) == id \in Live(records) /\ object_record(records, id).kind = "File"
apply_write(records, id) == [records EXCEPT ![id[1]].data = generation]

(***************************************************************************)
(* persist_snapshot and recover_persist_error.  A failed commit is looked  *)
(* up by opening the volume again; when that fails too, what is in memory  *)
(* stays, and the call answers with an error of the block device.          *)
(***************************************************************************)
RecoveredMutant(records) == records

(* What the reopened volume holds.                                         *)
Recovered(records) == disk

(* The namespace is not latched, and the model has changes left.           *)
MayPersist == ~failed /\ generation < MaxChanges

Persist(records, removed, outcome, latched) ==
    /\ MayPersist
    /\ CASE outcome = "published" ->
              /\ memory' = records /\ disk' = records
              /\ generation' = newest + 1 /\ newest' = newest + 1
              /\ gone' = gone \cup removed
              /\ UNCHANGED failed
         [] outcome = "unpublished" ->
              /\ memory' = Recovered(records) /\ generation' = newest
              /\ UNCHANGED <<disk, newest, failed, gone>>
         [] outcome \in {"broken", "broken after"} ->
              /\ memory' = records
              /\ disk' = IF outcome = "broken" THEN disk ELSE records
              /\ newest' = IF outcome = "broken" THEN newest ELSE newest + 1
              /\ failed' = latched
              /\ UNCHANGED <<generation, gone>>

(***************************************************************************)
(* The transaction.                                                        *)
(***************************************************************************)
Begin ==
    /\ ~failed /\ ~tx.active
    /\ tx' = [active |-> TRUE, base |-> generation, changed |-> {}, records |-> 0, removed |-> {},
              view |-> Blank, seen |-> memory]
    /\ UNCHANGED <<memory, disk, generation, newest, staged, handles, failed, gone>>

(* What the transaction sees: its changes over the records of now.         *)
View == IF tx.changed = {} THEN memory
        ELSE [s \in Slots |-> IF s \in tx.changed THEN tx.view[s] ELSE memory[s]]

(* push_record, after the change was applied to the copies: the table has  *)
(* room for one more.                                                      *)
MayRecord == ~failed /\ tx.active /\ tx.records < MAX_TRANSACTION_RECORDS

InTx(s, removed, records) ==
    /\ tx' = [tx EXCEPT !.view[s] = records[s], !.records = @ + 1, !.removed = @ \cup removed,
                        !.changed = @ \cup {s}]
    /\ UNCHANGED <<memory, disk, generation, newest, staged, handles, failed, gone>>

TxCreate(parent, kind, name) ==
    /\ MayRecord /\ CanCreate(View, parent, name)
    /\ InTx(Min(FreeSlots(View)), {}, create(View, parent, kind, name))

TxRename(id, parent, name) ==
    /\ MayRecord /\ CanRename(View, id, parent, name)
    /\ InTx(id[1], {}, apply_rename(View, id, parent, name))

TxRemove(id) ==
    /\ MayRecord /\ CanUnlink(View, id)
    /\ InTx(id[1], {id}, apply_unlink(View, id))

TxWrite(id) ==
    /\ MayRecord /\ IsFile(View, id)
    /\ InTx(id[1], {}, apply_write(View, id))

BaseCurrentMutant == TRUE

BaseCurrent == generation = tx.base

Commit(outcome) ==
    /\ ~failed /\ tx.active /\ tx' = NoTx
    /\ \/ ~BaseCurrent /\ outcome = "unpublished"
          /\ UNCHANGED <<memory, disk, generation, newest, failed, gone>>
       \/ BaseCurrent /\ Persist(View, tx.removed, outcome, TRUE)
    /\ UNCHANGED <<staged, handles>>

Abort ==
    /\ ~failed /\ tx.active /\ tx' = NoTx
    /\ UNCHANGED <<memory, disk, generation, newest, staged, handles, failed, gone>>

(***************************************************************************)
(* Direct changes.                                                         *)
(***************************************************************************)
Mkdir(parent, name, outcome) ==
    /\ outcome \in {"broken", "broken after"} => UnlatchedFaults
    /\ MayPersist /\ CanCreate(memory, parent, name)
    /\ Persist(create(memory, parent, "Directory", name), {}, outcome, FALSE)
    /\ UNCHANGED <<tx, staged, handles>>

StageBegin(parent, name) ==
    /\ ~failed /\ ~staged.open
    /\ staged' = [open |-> TRUE, parent |-> parent, name |-> name]
    /\ UNCHANGED <<memory, disk, generation, newest, tx, handles, failed, gone>>

(* A transaction of its own: replace the file at the path, or create it.   *)
StageCommit(outcome) ==
    /\ ~failed /\ staged.open /\ staged' = NotStaged
    /\ LET found == find_child(memory, staged.parent, staged.name)
       IN  \/ /\ found # {} /\ \A id \in found : IsFile(memory, id)
              /\ Persist(apply_write(memory, CHOOSE id \in found : TRUE), {}, outcome, TRUE)
           \/ /\ found = {} /\ CanCreate(memory, staged.parent, staged.name)
              /\ LET made == create(memory, staged.parent, "File", staged.name)
                     id == CHOOSE id \in find_child(made, staged.parent, staged.name) : TRUE
                 IN  Persist(apply_write(made, id), {}, outcome, TRUE)
           \/ /\ outcome = "unpublished"
              /\ IF found = {} THEN ~CanCreate(memory, staged.parent, staged.name)
                               ELSE \E id \in found : ~IsFile(memory, id)
              /\ UNCHANGED <<memory, disk, generation, newest, failed, gone>>
    /\ UNCHANGED <<tx, handles>>

StageAbort ==
    /\ ~failed /\ staged.open /\ staged' = NotStaged
    /\ UNCHANGED <<memory, disk, generation, newest, tx, handles, failed, gone>>

FreeHandles == {h \in 1..MAX_HANDLES : handles[h] = NoId}

Open(id) ==
    /\ ~failed /\ FreeHandles # {} /\ IsFile(memory, id)
    /\ handles' = [handles EXCEPT ![Min(FreeHandles)] = id]
    /\ UNCHANGED <<memory, disk, generation, newest, tx, staged, failed, gone>>

Close(h) ==
    /\ ~failed /\ handles[h] # NoId
    /\ handles' = [handles EXCEPT ![h] = NoId]
    /\ UNCHANGED <<memory, disk, generation, newest, tx, staged, failed, gone>>

HandleWrite(h, outcome) ==
    /\ MayPersist /\ handles[h] # NoId /\ IsFile(memory, handles[h])
    /\ Persist(apply_write(memory, handles[h]), {}, outcome, TRUE)
    /\ UNCHANGED <<tx, staged, handles>>

(* A save of the user catalog moves the generation of the volume.          *)
UserSave ==
    /\ newest = generation /\ newest < MaxChanges
    /\ generation' = newest + 1 /\ newest' = newest + 1
    /\ UNCHANGED <<memory, disk, tx, staged, handles, failed, gone>>

(* Storage starts again from the volume.                                   *)
Reopen ==
    /\ memory' = disk /\ generation' = newest /\ failed' = FALSE
    /\ tx' = NoTx /\ staged' = NotStaged
    /\ handles' = [h \in 1..MAX_HANDLES |-> NoId]
    /\ UNCHANGED <<disk, newest, gone>>

Next ==
    \/ Begin \/ Abort \/ StageAbort \/ UserSave \/ Reopen
    \/ \E outcome \in Outcomes :
         \/ Commit(outcome) \/ StageCommit(outcome)
         \/ \E h \in 1..MAX_HANDLES : HandleWrite(h, outcome)
         \/ \E parent \in Live(memory), name \in Names : Mkdir(parent, name, outcome)
    \/ \E name \in Names : StageBegin(ROOT, name)
    \/ \E parent \in Live(View), name \in Names :
         \/ \E kind \in {"File", "Directory"} : TxCreate(parent, kind, name)
         \/ \E id \in Live(View) : TxRename(id, parent, name)
    \/ \E id \in Live(View) : TxRemove(id) \/ TxWrite(id)
    \/ \E id \in Live(memory) : Open(id)
    \/ \E h \in 1..MAX_HANDLES : Close(h)

Spec == Init /\ [][Next]_vars

-----------------------------------------------------------------------------
(* Generations and slots stay within their bounds.                         *)
TypeOK ==
    /\ \A s \in Slots : memory[s].gen \in 0..MaxGeneration /\ disk[s].gen \in 0..MaxGeneration
    /\ generation \in 1..MaxChanges /\ newest \in 1..(MaxChanges + 1)
    /\ tx.changed \subseteq Slots

(* restore_snapshot_from_store accepts the records.                        *)
Restorable(records) ==
    LET live == Live(records)
        above(id) == object_record(records, id).parent
        rooted[id \in live, n \in 1..MAX_OBJECTS] ==
            id = ROOT \/ (n > 1 /\ above(id) \in live /\ rooted[above(id), n - 1])
    IN  /\ records[0] = RootRecord
        /\ \A id \in live \ {ROOT} :
             /\ IsDirectory(records, above(id))
             /\ find_child(records, above(id), object_record(records, id).name) = {id}
             /\ rooted[id, MAX_OBJECTS]

(* What was persisted can be opened again: the snapshot on the volume is a *)
(* tree in which every object has a live directory above it and a name of  *)
(* its own there, whatever transactions, renames, direct changes and       *)
(* failures came in between.                                               *)
SnapshotReopens == Restorable(disk)

(* Storage answers from records that the volume holds: a call that failed  *)
(* leaves nothing behind in memory, or closes the interface.               *)
ServedIsDurable == failed \/ (memory = disk /\ generation = newest)

(* An id whose removal was acknowledged never names another object, so a   *)
(* handle cannot come to write a different file.                           *)
RemovedStaysRemoved == gone \cap Live(memory) = {}

(* A commit that takes effect replaces the records that the transaction    *)
(* saw: no change that was acknowledged since Begin is undone.             *)
NoLostUpdate ==
    [][(tx.active /\ ~tx'.active /\ newest' > newest) => tx.seen = disk]_vars

------------------------------------------------------------------------------
(***************************************************************************)
(* Where the contents of files are: a small file is inline in its record,  *)
(* a larger one in extents of the user arena.  A write through a handle    *)
(* copies the blocks that it touches to new ones and shares the rest; when *)
(* the extents would be too many it rewrites the file.  The blocks are     *)
(* written one by one, the snapshot is persisted last, and Storage may     *)
(* stop between any two of these.                                          *)
(***************************************************************************)
CONSTANTS
    Files,
    Arena,              \* Blocks of the user arena: 1..Arena.
    BLOCK_BYTES,
    MAX_FILE_BYTES,     \* The largest inline file.
    MAX_FILE_EXTENTS,
    MaxLength,          \* Bound on the length of a file.
    MaxWrites           \* Bound on the writes.

VARIABLES
    record,     \* [file |-> length, inline bytes, extents] in memory and on the volume
    store,      \* bytes of the blocks
    bitmap,     \* blocks in use, as of the last commit
    op,         \* the write in progress
    content,    \* what the file should hold
    writes

extentVars == <<record, store, bitmap, op, content, writes>>

Blocks == 1..Arena
EmptyFile == [length |-> 0, data |-> <<>>, extents |-> <<>>]
NoOp == [file |-> "none", todo |-> <<>>, new |-> EmptyFile, taken |-> {}, retired |-> {},
         content |-> <<>>]

ExtentInit ==
    /\ record = [f \in Files |-> EmptyFile]
    /\ store = [b \in Blocks |-> [i \in 1..BLOCK_BYTES |-> 0]]
    /\ bitmap = {} /\ op = NoOp
    /\ content = [f \in Files |-> <<>>] /\ writes = 0

(***************************************************************************)
(* Extents: sequences of [start, blocks].                                  *)
(***************************************************************************)
DivCeil(n) == (n + BLOCK_BYTES - 1) \div BLOCK_BYTES

(* The physical blocks in logical order; read_logical_block indexes it.    *)
BlocksOf(extents) ==
    FoldLeft(LAMBDA seq, e : seq \o [i \in 1..e.blocks |-> e.start + i - 1], <<>>, extents)

(* ExtentLayout.push for every block: contiguous runs are merged.          *)
push(layout, b) ==
    IF layout # <<>> /\ Last(layout).start + Last(layout).blocks = b
    THEN [layout EXCEPT ![Len(layout)].blocks = @ + 1]
    ELSE Append(layout, [start |-> b, blocks |-> 1])
push_logical(blocks) == FoldLeft(push, <<>>, blocks)

(* allocate_in_arena: the first free run of the requested length.          *)
Runs(taken, n) ==
    {b \in Blocks : b + n - 1 \in Blocks /\ \A i \in 0..(n - 1) : b + i \notin bitmap \cup taken}

(* The loop that allocates n blocks, halving the request while the arena   *)
(* has no run that long.  The extents, or <<>> when it is out of space.    *)
allocate_blocks(n) ==
    LET halve[r \in 1..n, taken \in SUBSET Blocks] ==
          IF Runs(taken, r) # {} THEN [start |-> Min(Runs(taken, r)), blocks |-> r]
          ELSE IF r = 1 THEN [start |-> 0, blocks |-> 1] ELSE halve[(r + 1) \div 2, taken]
        all[left \in 0..n, taken \in SUBSET Blocks] ==
          IF left = 0 THEN <<>>
          ELSE LET e == halve[left, taken]
               IN  IF e.start = 0 THEN <<e>>
                   ELSE <<e>> \o all[left - e.blocks,
                                     taken \cup (e.start..(e.start + e.blocks - 1))]
        found == all[n, {}]
    IN  IF \E i \in DOMAIN found : found[i].start = 0 THEN <<>> ELSE found

(***************************************************************************)
(* Contents: the byte at 1-based position p of a file.                     *)
(***************************************************************************)
BlockOf(p) == (p - 1) \div BLOCK_BYTES + 1
Within(p) == ((p - 1) % BLOCK_BYTES) + 1

ByteAt(r, p) ==
    IF r.extents = <<>> THEN r.data[p]
    ELSE store[BlocksOf(r.extents)[BlockOf(p)]][Within(p)]

read_extent_range(r) == [p \in 1..r.length |-> ByteAt(r, p)]

(* The file after bytes of value v are written to positions from..to.      *)
Written(old, from, to, v) ==
    [p \in 1..Max({Len(old), to}) |->
       IF p \in from..to THEN v ELSE IF p <= Len(old) THEN old[p] ELSE 0]

BlockImageMutant(r, n, from, to, v) ==
    LET old == IF r.extents = <<>> THEN DivCeil(r.length) ELSE Len(BlocksOf(r.extents))
    IN  [i \in 1..BLOCK_BYTES |->
           LET p == (n - 1) * BLOCK_BYTES + i
           IN  IF p \in from..to THEN v
               ELSE IF n >= old THEN 0
               ELSE IF r.extents = <<>> THEN (IF p <= r.length THEN r.data[p] ELSE 0)
               ELSE store[BlocksOf(r.extents)[n]][i]]

(* One block of the copy: old bytes, zeros, and the input over them.       *)
BlockImage(r, n, from, to, v) ==
    LET old == IF r.extents = <<>> THEN DivCeil(r.length) ELSE Len(BlocksOf(r.extents))
    IN  [i \in 1..BLOCK_BYTES |->
           LET p == (n - 1) * BLOCK_BYTES + i
           IN  IF p \in from..to THEN v
               ELSE IF n > old THEN 0
               ELSE IF r.extents = <<>> THEN (IF p <= r.length THEN r.data[p] ELSE 0)
               ELSE store[BlocksOf(r.extents)[n]][i]]

Writes(r, blocks, first, from, to, v) ==
    [i \in 1..Len(blocks) |->
       [block |-> blocks[i], image |-> BlockImage(r, first + i - 1, from, to, v)]]

Planned(f, r, new, first, from, to, v, layout, retired) ==
    op' = [file |-> f, todo |-> Writes(r, new, first, from, to, v),
           new |-> [length |-> Max({r.length, to}), data |-> <<>>, extents |-> layout],
           taken |-> ToSet(new), retired |-> retired,
           content |-> Written(content[f], from, to, v)]

FirstBlock(from, old) == Min({(from - 1) \div BLOCK_BYTES, Len(old)})
LastBlock(to) == DivCeil(to)

(* write_extent_range: the layout is the old blocks before the first one   *)
(* touched, new blocks, and the old blocks after the last.                 *)
Layout(old, first, last, new) ==
    push_logical(SubSeq(old, 1, first) \o new \o SubSeq(old, last + 1, Len(old)))


Retired(old, first, last) == ToSet(SubSeq(old, first + 1, Min({last, Len(old)})))

write_extent_range(f, from, to, v) ==
    LET r == record[f]
        old == BlocksOf(r.extents)
        first == FirstBlock(from, old)
        last == LastBlock(to)
        new == BlocksOf(allocate_blocks(last - first))
        layout == Layout(old, first, last, new)
    IN  /\ r.extents # <<>> /\ new # <<>> /\ Len(layout) <= MAX_FILE_EXTENTS
        /\ Planned(f, r, new, first + 1, from, to, v, layout, Retired(old, first, last))

FitsRange(f, from, to) ==
    LET old == BlocksOf(record[f].extents)
        first == FirstBlock(from, old)
        extents == allocate_blocks(LastBlock(to) - first)
    IN  extents = <<>> \/ Len(Layout(old, first, LastBlock(to), BlocksOf(extents)))
                            <= MAX_FILE_EXTENTS

(* write_handle_extent: an inline file, or one that would have too many    *)
(* extents, is written whole to new blocks.                                *)
write_handle_extent(f, from, to, v) ==
    LET r == record[f]
        extents == allocate_blocks(DivCeil(Max({r.length, to})))
    IN  /\ r.extents = <<>> \/ ~FitsRange(f, from, to)
        /\ extents # <<>> /\ Len(extents) <= MAX_FILE_EXTENTS
        /\ Planned(f, r, BlocksOf(extents), 1, from, to, v, extents, ToSet(BlocksOf(r.extents)))

(* Inline: the record is changed and persisted.                            *)
write(f, from, to, v) ==
    /\ record' = [record EXCEPT ![f].length = Max({@, to}),
                                ![f].data = Written(@, from, to, v)]
    /\ content' = [content EXCEPT ![f] = Written(@, from, to, v)]
    /\ UNCHANGED <<store, bitmap, op>>

write_handle(f, from, to) ==
    /\ op = NoOp /\ writes < MaxWrites /\ writes' = writes + 1
    /\ from <= Len(content[f]) + 2      \* bound: at most one byte of gap
    /\ IF record[f].extents = <<>> /\ to <= MAX_FILE_BYTES
       THEN write(f, from, to, writes + 1)
       ELSE /\ write_extent_range(f, from, to, writes + 1)
               \/ write_handle_extent(f, from, to, writes + 1)
            /\ UNCHANGED <<record, store, bitmap, content>>

(* transaction.write_block                                                 *)
WriteBlock ==
    /\ op.todo # <<>>
    /\ store' = [store EXCEPT ![Head(op.todo).block] = Head(op.todo).image]
    /\ op' = [op EXCEPT !.todo = Tail(@)]
    /\ UNCHANGED <<record, bitmap, content, writes>>

(* persist_snapshot_with: the snapshot and the bitmap become current.      *)
Publish ==
    /\ op # NoOp /\ op.todo = <<>>
    /\ record' = [record EXCEPT ![op.file] = op.new]
    /\ bitmap' = (bitmap \cup op.taken) \ op.retired
    /\ content' = [content EXCEPT ![op.file] = op.content]
    /\ op' = NoOp /\ UNCHANGED <<store, writes>>

(* A block could not be written, the commit was not published, or Storage  *)
(* stopped: memory is what the volume holds.                               *)
Fail ==
    /\ op # NoOp /\ op' = NoOp
    /\ UNCHANGED <<record, store, bitmap, content, writes>>

(* remove and commit: the extents of the record are retired with it.       *)
remove(f) ==
    /\ op = NoOp /\ content[f] # <<>>
    /\ record' = [record EXCEPT ![f] = EmptyFile]
    /\ content' = [content EXCEPT ![f] = <<>>]
    /\ bitmap' = bitmap \ ToSet(BlocksOf(record[f].extents))
    /\ UNCHANGED <<store, op, writes>>

ExtentNext ==
    \/ \E f \in Files : remove(f) \/ \E from, to \in 1..MaxLength : from <= to /\ write_handle(f, from, to)
    \/ WriteBlock \/ Publish \/ Fail

ExtentSpec == ExtentInit /\ [][ExtentNext]_extentVars

-----------------------------------------------------------------------------
(* Lengths and blocks stay within the bounds.                              *)
ExtentTypeOK ==
    /\ \A f \in Files : record[f].length <= MaxLength /\ Len(record[f].extents) <= MAX_FILE_EXTENTS
    /\ bitmap \subseteq Blocks /\ writes \in 0..MaxWrites

(* A file reads as its acknowledged writes left it, at every moment at     *)
(* which Storage may stop: neither a write in progress to it nor one to    *)
(* another file shows, and blocks that are shared keep their place.        *)
FilesKeepTheirBytes == \A f \in Files : read_extent_range(record[f]) = content[f]

(* The bitmap is exactly the blocks of files, each in one file and one     *)
(* place: a copied block is not leaked and a block in use is never free.   *)
EveryBlockOwnedOnce ==
    LET all == FoldSet(LAMBDA f, seq : seq \o BlocksOf(record[f].extents), <<>>, Files)
    IN  ToSet(all) = bitmap /\ Len(all) = Cardinality(bitmap)
==============================================================================
