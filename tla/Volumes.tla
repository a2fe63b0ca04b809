------------------------------- MODULE Volumes -------------------------------
(***************************************************************************)
(* The two volume formats below the object namespace, on a disk that loses *)
(* power: the journal of format versions 1 to 3 (storage/src/journal.rs)   *)
(* and the copy-on-write volume of version 4 (storage/src/cow.rs).         *)
(*                                                                         *)
(* An operation is a script of writes, flushes and read-backs; between two *)
(* of them the power may fail or the device report an error.  A block      *)
(* holds a record, and a checksum fails exactly on a torn block.           *)
(***************************************************************************)
EXTENDS Integers, Sequences, FiniteSets, FiniteSetsExt, SequencesExt

CONSTANTS
    Versions,              \* formats a journal volume is made in
    BLOCKS,                \* blocks of the journal's device
    MAX_RECORDS,           \* MAX_RECORDS_PER_TRANSACTION
    MAX_REPLAY_BLOCKS,
    CHECKPOINT_BLOCKS,     \* a checkpoint's header and payload blocks
    COW_BLOCKS,            \* blocks of the copy-on-write device
    MAX_RETIRED,           \* COW_MAX_RETIRED_EXTENTS
    ATTEMPTS,              \* WRITE_VERIFY_ATTEMPTS
    MaxTries, MaxCrashes, MaxFaults, MaxLost

VARIABLES
    disk,      \* media, and the writes the device has not made durable
    vol,       \* Volume: phase, info, active superblock, version
    todo,      \* what is left of the operation's script
    seen,      \* what recovery last found
    log,       \* history: transactions acknowledged since the last checkpoint
    snap,      \* history: the last acknowledged checkpoint's payload
    flying,    \* history: the operation whose outcome is not known
    left       \* tries, crashes and faults still to come

vars == <<disk, vol, todo, seen, log, snap, flying, left>>

----------------------------------------------------------------------------
\* The disk.  A write stays in the device's cache until a flush; on power loss
\* each cached block keeps what it had, takes one of the values written to it, or
\* is torn.

Zero == [is |-> "zero"]
Torn == [is |-> "torn"]
NoWrites == [b \in {} |-> <<>>]
Blank(n) == [media |-> [b \in 0..(n - 1) |-> Zero], cache |-> NoWrites]

read_block(d, b) == IF b \in DOMAIN d.cache THEN Last(d.cache[b]) ELSE d.media[b]
write_block(d, b, c) ==
  [d EXCEPT !.cache = [x \in DOMAIN @ \cup {b} |->
                         IF x # b THEN @[x] ELSE IF b \in DOMAIN @ THEN Append(@[b], c) ELSE <<c>>]]
flush(d) == [media |-> [b \in DOMAIN d.media |-> read_block(d, b)], cache |-> NoWrites]
PowerLoss(d) ==
  LET writes == {Len(d.cache[b]) : b \in DOMAIN d.cache}
      fates == {f \in [DOMAIN d.cache -> -1..Max(writes \cup {0})] : \A b \in DOMAIN f : f[b] <= Len(d.cache[b])}
      after(f, b) == IF b \notin DOMAIN f \/ f[b] = 0 THEN d.media[b]
                     ELSE IF f[b] = -1 THEN Torn ELSE d.cache[b][f[b]]
  IN  {[media |-> [b \in DOMAIN d.media |-> after(f, b)], cache |-> NoWrites] : f \in fates}

\* The steps of a script; "set" is an assignment to the volume in memory.
Put(b, c) == [op |-> "write", b |-> b, c |-> c]
Flush == [op |-> "flush"]
Check == [op |-> "check"]
Set(v) == [op |-> "set", v |-> v]

----------------------------------------------------------------------------
\* The journal volume.

JOURNAL_START == 2
TOTAL == 2 * CHECKPOINT_BLOCKS
MIN_JOURNAL_BLOCKS == MAX_RECORDS + 1
COMMIT == "commit"

Least(a, b) == IF a < b THEN a ELSE b
checkpoint_start_for(blocks) ==
  IF blocks >= JOURNAL_START + TOTAL + MIN_JOURNAL_BLOCKS THEN blocks - TOTAL ELSE 0
legacy_journal_end_for(blocks) ==
  IF checkpoint_start_for(blocks) = 0 THEN blocks ELSE checkpoint_start_for(blocks)
journal_end_for(blocks) == Least(legacy_journal_end_for(blocks), JOURNAL_START + MAX_REPLAY_BLOCKS)

FreshInfo(version) ==
  [generation |-> 1, end |-> IF version = 3 THEN journal_end_for(BLOCKS) ELSE legacy_journal_end_for(BLOCKS),
   head |-> JOURNAL_START, tail |-> JOURNAL_START, root |-> 0,
   checkpoint |-> IF version = 1 THEN 0 ELSE checkpoint_start_for(BLOCKS),
   slot |-> 0, prepared |-> FALSE]

Super(info, version) == [is |-> "super", info |-> info, version |-> version]
Record(tx, seq, kind, try) == [is |-> "record", tx |-> tx, seq |-> seq, kind |-> kind, try |-> try]
Header(root, payload) == [is |-> "checkpoint", root |-> root, sum |-> payload]

\* read_superblock: a torn block fails its checksum, and the fields must fit the
\* device and the version.
WellFormed(s) ==
  LET i == s.info
  IN  /\ i.generation # 0 /\ i.end <= BLOCKS /\ i.end > JOURNAL_START
      /\ JOURNAL_START <= i.tail /\ i.tail <= i.head /\ i.head <= i.end
      /\ s.version = 1 => i.checkpoint = 0
      /\ i.checkpoint = 0 => i.slot = 0 /\ ~i.prepared
      /\ i.checkpoint # 0 => /\ i.checkpoint + TOTAL <= BLOCKS /\ i.slot < 2
                              /\ IF s.version = 2 THEN i.checkpoint = i.end ELSE i.checkpoint >= i.end
read_superblock(d, b) ==
  LET s == read_block(d, b)
  IN  CASE s.is = "zero" -> "None" [] s.is = "marker" -> "ProvisionedBlank"
        [] s.is = "super" /\ WellFormed(s) -> "Ok" [] OTHER -> "Corrupt"

Closed == [phase |-> "closed", info |-> FreshInfo(1), active |-> 0, version |-> 1]

\* Volume::open: the valid superblock of the larger generation.
OpenedBy(d) ==
  LET a == read_superblock(d, 0)
      b == read_superblock(d, 1)
      sa == read_block(d, 0)
      sb == read_block(d, 1)
      opened(s, active) == [phase |-> "opened", info |-> s.info, active |-> active, version |-> s.version]
  IN  IF b = "Ok" /\ (a = "Ok" => sb.info.generation > sa.info.generation) THEN opened(sb, 1)
      ELSE IF a = "Ok" THEN opened(sa, 0)
      ELSE [Closed EXCEPT !.phase = IF a # "None" THEN a ELSE b]

\* The other superblock takes the next information.
Published(v, info) == [v EXCEPT !.info = info, !.active = 1 - @]
Publish(v, info) == <<Put(1 - v.active, Super(info, v.version)), Flush, Set(Published(v, info))>>

\* write_checkpoint, read_checkpoint_header and read_checkpoint_payload.
SlotStart(info, slot) == info.checkpoint + slot * CHECKPOINT_BLOCKS + 1
write_checkpoint(info, slot, payload) ==
  LET at == SlotStart(info, slot)
  IN  [i \in 1..(CHECKPOINT_BLOCKS - 1) |-> Put(at + i - 1, Zero)]
      \o <<Put(at, [is |-> "payload", value |-> payload]), Put(at - 1, Header(info.root, payload))>>
HasCheckpoint(d, info) ==
  LET h == read_block(d, SlotStart(info, info.slot) - 1)
      p == read_block(d, SlotStart(info, info.slot))
  IN  h.is = "checkpoint" /\ h.root = info.root /\ p.is = "payload" /\ p.value = h.sum
CheckpointPayload(d, info) == read_block(d, SlotStart(info, info.slot)).value

\* complete_compaction: the journal's first blocks are cleared, no others.
CompactInfo(info) == [info EXCEPT !.generation = @ + 1, !.head = JOURNAL_START, !.tail = JOURNAL_START, !.prepared = FALSE]
complete_compaction(v) ==
  LET last == Least(JOURNAL_START + MIN_JOURNAL_BLOCKS, v.info.end)
  IN  <<Check>> \o [i \in 1..(last - JOURNAL_START) |-> Put(JOURNAL_START + i - 1, Zero)] \o <<Flush>>
      \o Publish(v, CompactInfo(v.info))

should_checkpoint(info) ==
  /\ info.root # 0 /\ info.checkpoint # 0 /\ ~info.prepared
  /\ \/ (info.head - info.tail) + MIN_JOURNAL_BLOCKS >= MAX_REPLAY_BLOCKS
     \/ info.head + MIN_JOURNAL_BLOCKS >= info.end

load_checkpoint(d, info) ==
  IF info.checkpoint = 0 \/ info.prepared \/ info.root = 0 \/ info.head # JOURNAL_START THEN "None"
  ELSE IF HasCheckpoint(d, info) THEN "Some" ELSE "Corrupt"

decode_record(b) == b.is = "record"
remaining_journal_is_blank(d, from, to) == \A k \in from..(to - 1) : read_block(d, k) = Zero

\* recover: one pass over the journal from its tail to one transaction beyond its
\* head.  A record waits for its commit; a gap or a wrong sequence drops what waits.
Replay(d, info) ==
  LET checkpointed == info.checkpoint # 0 /\ info.head = JOURNAL_START /\ info.tail = JOURNAL_START
      upto == Least(info.head + MIN_JOURNAL_BLOCKS, info.end)
      drop(s) == [s EXCEPT !.pending = <<>>, !.ptx = 0, !.truncated = TRUE]
      keep(s, r) == [s EXCEPT !.pending = Append(@, r.try), !.ptx = r.tx]
      committed(s, r, i) ==
        [s EXCEPT !.replay = Append(@, [tx |-> r.tx, of |-> s.pending]), !.last = r.tx, !.head = i + 1,
                  !.pending = <<>>, !.ptx = 0]
      step(s, i) ==
        LET r == read_block(d, i)
        IN  IF s.stop THEN s
            ELSE IF r = Zero THEN IF i >= info.head THEN [s EXCEPT !.stop = TRUE] ELSE drop(s)
            ELSE IF ~decode_record(r)
            THEN IF remaining_journal_is_blank(d, i + 1, info.head) THEN [s EXCEPT !.stop = TRUE, !.truncated = TRUE]
                 ELSE [s EXCEPT !.stop = TRUE, !.corrupt = TRUE]
            ELSE IF r.tx <= s.last THEN [s EXCEPT !.stop = TRUE, !.corrupt = TRUE]
            ELSE IF r.kind = COMMIT
            THEN IF r.seq = Len(s.pending) /\ (s.pending = <<>> \/ s.ptx = r.tx)
                 THEN committed(s, r, i) ELSE drop(s)
            ELSE IF s.pending = <<>> /\ r.seq # 0 THEN [s EXCEPT !.truncated = TRUE]
            ELSE IF s.pending # <<>> /\ (s.ptx # r.tx \/ r.seq # Len(s.pending) \/ Len(s.pending) = MAX_RECORDS)
            THEN IF r.seq # 0 THEN drop(s) ELSE keep(drop(s), r)
            ELSE keep(s, r)
      start == [pending |-> <<>>, ptx |-> 0, last |-> IF checkpointed THEN info.root ELSE 0, head |-> info.tail,
                replay |-> <<>>, truncated |-> FALSE, stop |-> FALSE, corrupt |-> FALSE]
      done == FoldLeft(step, start, [k \in 1..(upto - info.tail) |-> info.tail + k - 1])
  IN  IF ~done.truncated /\ done.last < info.root /\ ~checkpointed THEN [done EXCEPT !.corrupt = TRUE] ELSE done

\* A try that no longer counts: given up, or folded into a checkpoint.
Tries(transactions) == UNION {Range(x.of) : x \in Range(transactions)}
Stale(d, info) ==
  \E b \in info.tail..(Least(info.head + MIN_JOURNAL_BLOCKS, info.end) - 1) :
    LET r == read_block(d, b) IN r.is = "record" /\ r.try \notin Tries(log) \cup Tries(flying.commit)

NothingFlying == [commit |-> <<>>, payload |-> 0, format |-> FALSE, again |-> FALSE]
\* The last operation failed, and the volume goes on without being opened again.
Retries == seen.out = "none" /\ (flying.again \/ flying.payload # 0 \/ flying.commit # <<>>)
NothingSeen == [out |-> "none", replay |-> <<>>, stale |-> FALSE, loaded |-> "None", payload |-> 0]

Init ==
  /\ disk \in {Blank(BLOCKS), [Blank(BLOCKS) EXCEPT !.media[0] = [is |-> "marker"]]}
  /\ vol = [Closed EXCEPT !.phase = read_superblock(disk, 0)]
  /\ todo = <<>> /\ seen = NothingSeen
  /\ log = <<>> /\ snap = 0 /\ flying = NothingFlying
  /\ left = [tries |-> MaxTries, crashes |-> MaxCrashes, faults |-> MaxFaults]

Idle == todo = <<>>

\* format_metadata, below format_as and format_provisioned.
FormatScript(version) ==
  LET s == Super(FreshInfo(version), version)
  IN  <<Put(JOURNAL_START, Zero), Flush, Put(0, s), Flush, Put(1, s), Flush,
        Set([phase |-> "ready", info |-> FreshInfo(version), active |-> 1, version |-> version])>>
Format ==
  /\ Idle /\ vol.phase \in {"None", "ProvisionedBlank"}
  /\ \E version \in Versions :
       /\ \/ \A b \in 0..(BLOCKS - 1) : read_block(disk, b) = Zero
          \/ version = 3 /\ read_block(disk, 0).is = "marker"
       /\ todo' = FormatScript(version)
  /\ flying' = [NothingFlying EXCEPT !.format = TRUE]
  /\ UNCHANGED <<disk, vol, seen, log, snap, left>>

Open ==
  /\ Idle /\ vol.phase = "closed"
  /\ LET v == OpenedBy(disk)
     IN  /\ vol' = v
         /\ todo' = IF v.phase = "opened" /\ v.info.prepared THEN complete_compaction(v) ELSE <<>>
  /\ UNCHANGED <<disk, seen, log, snap, flying, left>>

\* recover: the head it found is published.
Recover ==
  /\ Idle /\ vol.phase = "opened" /\ ~vol.info.prepared
  /\ LET r == Replay(disk, vol.info)
         loaded == load_checkpoint(disk, vol.info)
         info == [vol.info EXCEPT !.generation = @ + 1, !.head = r.head, !.root = r.last]
         same == r.head = vol.info.head /\ r.last = vol.info.root
         ready == [vol EXCEPT !.phase = "ready"]
     IN  /\ seen' = [out |-> IF r.corrupt THEN "Corrupt" ELSE "Ok", replay |-> r.replay,
                     stale |-> Stale(disk, vol.info), loaded |-> loaded,
                     payload |-> IF loaded = "Some" THEN CheckpointPayload(disk, vol.info) ELSE 0]
         /\ vol' = IF r.corrupt THEN [vol EXCEPT !.phase = "Corrupt"] ELSE IF same THEN ready ELSE vol
         /\ todo' = IF r.corrupt \/ same THEN <<>> ELSE Publish(ready, info)
  /\ UNCHANGED <<disk, log, snap, flying, left>>

\* The first operation after recovery builds on what recovery replayed.
Settle ==
  /\ log' = IF seen.out = "Ok" THEN seen.replay ELSE log
  /\ snap' = IF seen.loaded = "Some" THEN seen.payload ELSE snap
  /\ seen' = NothingSeen

Commit ==
  /\ Idle /\ vol.phase = "ready" /\ ~vol.info.prepared /\ left.tries > 0
  /\ \E n \in 0..MAX_RECORDS :
       LET i == vol.info
           tx == i.root + 1
           record(k) == Put(i.head + k - 1, Record(tx, k - 1, "data", left.tries))
       IN  /\ i.head + n + 1 <= i.end
           /\ todo' = [k \in 1..n |-> record(k)]
                      \o <<Put(i.head + n, Record(tx, n, COMMIT, left.tries)), Flush>>
                      \o Publish(vol, [i EXCEPT !.generation = @ + 1, !.head = @ + n + 1, !.root = tx])
           /\ flying' = [flying EXCEPT !.again = Retries, !.payload = 0, !.commit = <<[tx |-> tx, of |-> [k \in 1..n |-> left.tries]]>>]
  /\ left' = [left EXCEPT !.tries = @ - 1]
  /\ Settle /\ UNCHANGED <<disk, vol>>

Checkpoint ==
  /\ Idle /\ vol.phase = "ready" /\ left.tries > 0
  /\ vol.info.checkpoint # 0 /\ ~vol.info.prepared /\ vol.info.root # 0
  /\ LET info == [vol.info EXCEPT !.generation = @ + 1, !.slot = 1 - @, !.prepared = TRUE]
     IN  todo' = write_checkpoint(vol.info, info.slot, left.tries) \o <<Flush>> \o Publish(vol, info)
                 \o complete_compaction(Published(vol, info))
  /\ flying' = [flying EXCEPT !.again = Retries, !.commit = <<>>, !.payload = left.tries]
  /\ left' = [left EXCEPT !.tries = @ - 1]
  /\ Settle /\ UNCHANGED <<disk, vol>>

\* The operation is over: what it did is acknowledged.
Acknowledged ==
  /\ log' = IF flying.payload # 0 THEN <<>> ELSE log \o flying.commit
  /\ snap' = IF flying.payload # 0 THEN flying.payload ELSE snap
  /\ flying' = NothingFlying
Step ==
  /\ ~Idle
  /\ LET s == Head(todo)
     IN  \/ /\ s.op = "write" /\ disk' = write_block(disk, s.b, s.c) /\ todo' = Tail(todo)
            /\ UNCHANGED vol
         \/ /\ s.op = "flush" /\ disk' = flush(disk) /\ todo' = Tail(todo) /\ UNCHANGED vol
         \/ /\ s.op = "set" /\ vol' = s.v /\ todo' = Tail(todo) /\ UNCHANGED disk
         \/ /\ s.op = "check" /\ HasCheckpoint(disk, vol.info) /\ todo' = Tail(todo)
            /\ UNCHANGED <<disk, vol>>
         \/ /\ s.op = "check" /\ ~HasCheckpoint(disk, vol.info) /\ todo' = <<>>
            /\ vol' = [vol EXCEPT !.phase = "Corrupt"] /\ UNCHANGED disk
  /\ IF Len(todo) > 1 \/ vol.phase = "opened" THEN UNCHANGED <<log, snap, flying>> ELSE Acknowledged
  /\ UNCHANGED <<seen, left>>

\* The device reports an error: the operation returns it, and the volume keeps
\* what it had assigned by then.
Fail ==
  /\ ~Idle /\ Head(todo).op \in {"write", "flush"} /\ left.faults > 0
  /\ todo' = <<>>
  /\ vol' = IF vol.phase \in {"None", "ProvisionedBlank"} \/ vol.info.prepared THEN Closed ELSE vol
  /\ left' = [left EXCEPT !.faults = @ - 1]
  /\ UNCHANGED <<disk, seen, log, snap, flying>>

\* Power is lost and the volume is opened again later.
Crash ==
  /\ left.crashes > 0
  /\ disk' \in PowerLoss(disk)
  /\ vol' = Closed /\ todo' = <<>> /\ seen' = NothingSeen
  /\ left' = [left EXCEPT !.crashes = @ - 1]
  /\ UNCHANGED <<log, snap, flying>>

Next == Format \/ Open \/ Recover \/ Commit \/ Checkpoint \/ Step \/ Fail \/ Crash
Spec == Init /\ [][Next]_vars

TypeOK ==
  /\ DOMAIN disk.media = 0..(BLOCKS - 1) /\ DOMAIN disk.cache \subseteq 0..(BLOCKS - 1)
  /\ vol.phase \in {"closed", "None", "ProvisionedBlank", "Corrupt", "opened", "ready"}
  /\ vol.active \in 0..1 /\ vol.version \in 1..3
  /\ JOURNAL_START <= vol.info.tail /\ vol.info.tail <= vol.info.head /\ vol.info.head <= vol.info.end

\* Recovery replays every transaction acknowledged since the last checkpoint, in
\* order, and after them at most the one that was in flight, whole; or nothing,
\* where a checkpoint in flight, or one that failed and was not seen to, has taken
\* their place.
ReplayExact ==
  seen.out = "Ok" =>
    \/ flying.payload # 0 /\ seen.loaded = "Some" /\ seen.payload = flying.payload /\ seen.replay = <<>>
    \/ flying.again /\ seen.loaded = "Some" /\ seen.replay = <<>>
    \/ seen.replay \in {log, log \o flying.commit}
    \/ seen.stale /\ IsPrefix(log, seen.replay) /\ Len(seen.replay) <= Len(log) + 1

\* A volume is refused only where nothing was acknowledged after a format that was
\* cut short, or where a record of a
\* try given up or checkpointed away lies in the part of the journal recovery reads,
\* or a superblock of one is on the disk.
RefusedOnlyWhenStale ==
  vol.phase = "Corrupt" => flying.format \/ flying.again \/ (seen.out = "Corrupt" /\ seen.stale)

\* A volume that acknowledged anything never looks unformatted again.
NeverForgotten ==
  vol.phase \in {"None", "ProvisionedBlank"} => left.tries = MaxTries \/ flying.format

\* A checkpoint read back is the last acknowledged one, the one in flight or, while
\* the volume goes on after an error, one that failed; and
\* there is one whenever nothing follows it.
CheckpointExact ==
  seen.out # "none" =>
    /\ seen.loaded # "Corrupt"
    /\ seen.loaded = "Some" => flying.again \/ seen.payload \in {snap, flying.payload} \ {0}
    /\ seen.replay = <<>> /\ snap # 0 => seen.loaded = "Some"

\* A transaction finds no room only after should_checkpoint asked for a checkpoint,
\* on a volume that has room for one.
FullWasAnnounced ==
  LET i == vol.info
  IN  vol.phase = "ready" /\ ~i.prepared /\ i.checkpoint # 0 /\ i.head + MIN_JOURNAL_BLOCKS > i.end
        => should_checkpoint(i)

----------------------------------------------------------------------------
\* The copy-on-write volume: a transaction writes fresh blocks only, and a commit
\* record, then a superblock, moves the root.

VARIABLES
    store,     \* media and cache
    cow,       \* CowVolume: phase, root, active superblock
    script,    \* what is left of the operation's script
    state,     \* history: the acknowledged try and the extents it holds
    pend,      \* history: the try whose outcome is not known
    rest,      \* tries, crashes, faults and lost writes still to come
    spoilt     \* history: the write of a retired list was lost

cowVars == <<store, cow, script, state, pend, rest, spoilt>>

COMMIT_START == 2
DATA_START == COMMIT_START + 2
data_end == COW_BLOCKS - 2
DataArena == DATA_START..(data_end - 1)
Extent(start, blocks) == [start |-> start, blocks |-> blocks]
Blocks(e) == e.start..(e.start + e.blocks - 1)
Covered(extents) == UNION {Blocks(e) : e \in Range(extents)}

FreshRoot == [generation |-> 1, metadata |-> Extent(DATA_START, 1), slot |-> 0, retired |-> 0]
Bitmap(set) == [is |-> "bitmap", set |-> set]
Root(r) == [is |-> "root", root |-> r]
CommitRecord(r) == [is |-> "commit", root |-> r]
Retired(extents) == [is |-> "retired", extents |-> extents]
Metadata(try, part) == IF try = 0 THEN Zero ELSE [is |-> "metadata", try |-> try, part |-> part]

initialize_bitmap == (0..(COW_BLOCKS - 1)) \ (DataArena \ {DATA_START})
BitmapBlock(r) == data_end + r.slot
read_bitmap(d, r) == LET b == read_block(d, BitmapBlock(r)) IN IF b.is = "bitmap" THEN b.set ELSE {}

validate_root(r) ==
  r.generation # 0 /\ r.slot < 2 /\ r.metadata.blocks # 0 /\ Blocks(r.metadata) \subseteq DataArena
decode_root(b) ==
  CASE b.is = "zero" -> "None" [] b.is = "marker" -> "ProvisionedBlank" [] b.is = "root" -> "Ok"
    [] OTHER -> "Corrupt"
read_commit(d, slot) == LET b == read_block(d, COMMIT_START + slot) IN IF b.is = "commit" THEN {b.root} ELSE {}

read_metadata(d, r) == [i \in 1..r.metadata.blocks |-> read_block(d, r.metadata.start + i - 1)]

\* verify_block: what the medium holds is compared with what was written, and
\* written again while attempts are left.
Verify(b, c) == [op |-> "verify", b |-> b, c |-> c, n |-> ATTEMPTS]
PutRoot(target, r) == <<Put(target, Root(r)), Flush, Verify(target, Root(r))>>

\* CowVolume::open: the newer superblock, overtaken by a newer commit record.
CowNone == [phase |-> "closed", root |-> FreshRoot, active |-> 0]
Chosen(d) ==
  LET a == read_block(d, 0)
      b == read_block(d, 1)
      ok(x) == decode_root(x) = "Ok"
      opened(x, active) == [phase |-> "open", root |-> x.root, active |-> active]
  IN  IF ok(b) /\ (ok(a) => b.root.generation > a.root.generation) THEN opened(b, 1)
      ELSE IF ok(a) THEN opened(a, 0)
      ELSE [CowNone EXCEPT !.phase =
              IF decode_root(a) = "None" THEN decode_root(b) ELSE decode_root(a)]
Candidates(d, r) ==
  SelectSeq(SetToSeq(read_commit(d, 0)) \o SetToSeq(read_commit(d, 1)), LAMBDA c : c.generation > r.generation)
CowOpen ==
  /\ script = <<>> /\ cow.phase = "closed"
  /\ LET v == Chosen(store)
         c == Candidates(store, v.root)
         next == [v EXCEPT !.root = Last(c), !.active = 1 - @]
         checked(w) == IF validate_root(w.root) THEN w ELSE [w EXCEPT !.phase = "Corrupt"]
     IN  IF v.phase = "open" /\ c # <<>>
         THEN script' = PutRoot(1 - v.active, Last(c)) \o <<Set(checked(next))>> /\ UNCHANGED cow
         ELSE cow' = checked(v) /\ UNCHANGED script
  /\ UNCHANGED <<store, state, pend, rest, spoilt>>

CowFormat ==
  /\ script = <<>> /\ cow.phase \in {"None", "ProvisionedBlank"}
  /\ \/ \A b \in 0..(COW_BLOCKS - 1) : read_block(store, b) = Zero
     \/ read_block(store, 0).is = "marker"
  /\ LET map == Bitmap(initialize_bitmap)
     IN  script' = <<Put(DATA_START, Zero), Put(BitmapBlock(FreshRoot), map), Flush,
                     Verify(DATA_START, Zero), Verify(BitmapBlock(FreshRoot), map)>>
                   \o PutRoot(0, FreshRoot) \o PutRoot(1, FreshRoot)
                   \o <<Set([phase |-> "open", root |-> FreshRoot, active |-> 1])>>
  /\ UNCHANGED <<store, cow, state, pend, rest, spoilt>>

\* begin: the extents the last transaction retired become free with this one's
\* commit, and are not handed out before.
RetiredList(d, r) == IF r.retired = 0 THEN [is |-> "retired", extents |-> <<>>] ELSE read_block(d, r.retired)
Released(d, r) == Covered(RetiredList(d, r).extents)

\* allocate_blocks_in_arena: the first run of free blocks.
FirstRun(busy, n) ==
  LET fits == {s \in DataArena : s + n <= data_end /\ s..(s + n - 1) \cap busy = {}}
  IN  IF fits = {} THEN {} ELSE {Extent(Min(fits), n)}

\* One transaction of the namespace: new metadata, the old retired; with it a
\* package's block is reserved, or one it had is retired.
Transaction(n, reserve, retire) ==
  LET r == cow.root
      set == read_bitmap(store, r)
      free == Released(store, r)
      metadata == FirstRun(set \cup free \cup reserve, n)
      taken == reserve \cup UNION {Blocks(e) : e \in metadata}
      retired == <<r.metadata>> \o SetToSeq({Extent(b, 1) : b \in retire})
                 \o (IF r.retired # 0 THEN <<Extent(r.retired, 1)>> ELSE <<>>)
      list == FirstRun(set \cup free \cup taken, 1)
  IN  [metadata |-> metadata, list |-> list, retired |-> retired,
       bitmap |-> (set \ free) \cup taken \cup UNION {Blocks(e) : e \in list},
       fits |-> metadata # {} /\ list # {} /\ Len(retired) <= MAX_RETIRED]

\* commit: bitmap, then commit record, then superblock, each flushed and read back.
CommitScript(t, try) ==
  LET m == Head(SetToSeq(t.metadata))
      list == Head(SetToSeq(t.list)).start
      next == [generation |-> cow.root.generation + 1, metadata |-> m, slot |-> 1 - cow.root.slot,
               retired |-> list]
      slot == COMMIT_START + (next.generation % 2)
      map == Bitmap(t.bitmap)
      block(i) == Metadata(try, i)
  IN  [i \in 1..m.blocks |-> Put(m.start + i - 1, block(i))]
      \o <<Put(list, Retired(t.retired)), Put(BitmapBlock(next), map), Flush>>
      \o [i \in 1..m.blocks |-> Verify(m.start + i - 1, block(i))]
      \o <<Verify(BitmapBlock(next), map),
           Put(slot, CommitRecord(next)), Flush, Verify(slot, CommitRecord(next))>>
      \o PutRoot(1 - cow.active, next)
      \o <<Set([cow EXCEPT !.root = next, !.active = 1 - @])>>

Landed == IF pend.try # 0 /\ pend.generation = cow.root.generation THEN pend ELSE state
CowCommit ==
  /\ script = <<>> /\ cow.phase = "open" /\ rest.tries > 0
  /\ RetiredList(store, cow.root).is = "retired"
  /\ \E n \in 1..2, retire \in {{}} \cup {{b} : b \in Landed.held},
        reserve \in {{}} \cup {{b} : b \in {Max(DataArena)} \ read_bitmap(store, cow.root)} :
       LET t == Transaction(n, reserve, retire)
       IN  /\ t.fits
           /\ script' = CommitScript(t, rest.tries)
           /\ pend' = [try |-> rest.tries, blocks |-> n, generation |-> cow.root.generation + 1,
                       held |-> (Landed.held \cup reserve) \ retire]
  /\ state' = Landed
  /\ rest' = [rest EXCEPT !.tries = @ - 1]
  /\ UNCHANGED <<store, cow, spoilt>>

NoTry == [try |-> 0, blocks |-> 1, generation |-> 1, held |-> {}]
CowInit ==
  /\ store \in {Blank(COW_BLOCKS), [Blank(COW_BLOCKS) EXCEPT !.media[0] = [is |-> "marker"]]}
  /\ cow = [CowNone EXCEPT !.phase = decode_root(read_block(store, 0))]
  /\ script = <<>> /\ state = NoTry /\ pend = NoTry /\ spoilt = FALSE
  /\ rest = [tries |-> MaxTries, crashes |-> MaxCrashes, faults |-> MaxFaults, lost |-> MaxLost]

CowStep ==
  /\ script # <<>>
  /\ LET s == Head(script)
         tail == Tail(script)
         again == <<Put(s.b, s.c), Flush, [s EXCEPT !.n = @ - 1]>>
     IN  \/ /\ s.op = "write" /\ store' = write_block(store, s.b, s.c) /\ script' = tail
            /\ UNCHANGED cow
         \/ /\ s.op = "flush" /\ store' = flush(store) /\ script' = tail /\ UNCHANGED cow
         \/ /\ s.op = "set" /\ cow' = s.v /\ script' = tail /\ UNCHANGED store
         \/ /\ s.op = "verify" /\ store.media[s.b] = s.c /\ script' = tail
            /\ UNCHANGED <<store, cow>>
         \/ /\ s.op = "verify" /\ store.media[s.b] # s.c /\ s.n > 1 /\ script' = again \o tail
            /\ UNCHANGED <<store, cow>>
         \/ /\ s.op = "verify" /\ store.media[s.b] # s.c /\ s.n = 1
            /\ script' = <<>> /\ UNCHANGED store
            /\ cow' = IF cow.phase = "open" THEN CowNone ELSE cow
  /\ IF cow.phase = "open" /\ cow'.phase = "open" /\ script' = <<>>
     THEN state' = pend /\ pend' = NoTry ELSE UNCHANGED <<state, pend>>
  /\ UNCHANGED <<rest, spoilt>>

\* The device drops a write it has acknowledged.
CowLose ==
  /\ script # <<>> /\ Head(script).op = "write" /\ rest.lost > 0
  /\ script' = Tail(script) /\ rest' = [rest EXCEPT !.lost = @ - 1]
  /\ spoilt' = (spoilt \/ Head(script).c.is = "retired")
  /\ UNCHANGED <<store, cow, state, pend>>

\* An error: the namespace opens the volume again (recover_persist_error).
CowFail ==
  /\ script # <<>> /\ Head(script).op # "set" /\ rest.faults > 0
  /\ script' = <<>> /\ rest' = [rest EXCEPT !.faults = @ - 1]
  /\ cow' = CowNone
  /\ UNCHANGED <<store, state, pend, spoilt>>
CowCrash ==
  /\ rest.crashes > 0
  /\ store' \in PowerLoss(store)
  /\ cow' = CowNone /\ script' = <<>>
  /\ rest' = [rest EXCEPT !.crashes = @ - 1]
  /\ UNCHANGED <<state, pend, spoilt>>

CowNext == CowFormat \/ CowOpen \/ CowCommit \/ CowStep \/ CowLose \/ CowFail \/ CowCrash
CowSpec == CowInit /\ [][CowNext]_cowVars

CowTypeOK ==
  /\ DOMAIN store.media = 0..(COW_BLOCKS - 1) /\ DOMAIN store.cache \subseteq 0..(COW_BLOCKS - 1)
  /\ cow.phase \in {"closed", "None", "ProvisionedBlank", "Corrupt", "open"} /\ cow.active \in 0..1
  /\ state.held \subseteq DataArena /\ pend.held \subseteq DataArena

Opened == cow.phase = "open" /\ script = <<>>

\* What the root reaches after any crash, error or lost write is the metadata of
\* the last acknowledged transaction or of the one in flight, whole.
MetadataWhole ==
  Opened =>
    LET r == cow.root
    IN  /\ r.generation = Landed.generation /\ r.metadata.blocks = Landed.blocks
        /\ \A i \in 1..r.metadata.blocks :
             read_metadata(store, r)[i] = Metadata(Landed.try, i)

\* The bitmap marks exactly the blocks in use: the fixed ones, the metadata, what
\* packages hold, the retired list and the extents on it.
CowBitmapExact ==
  Opened /\ ~spoilt =>
    LET r == cow.root
    IN  read_bitmap(store, r)
          = ((0..(COW_BLOCKS - 1)) \ DataArena) \cup Blocks(r.metadata) \cup Landed.held
            \cup ({r.retired} \ {0}) \cup Released(store, r)

\* A transaction never writes a block that the root it started from reaches.
LiveBlocksKept ==
  cow.phase = "open" /\ ~spoilt =>
    LET r == cow.root
        live == Blocks(r.metadata) \cup state.held \cup ({r.retired} \ {0}) \cup {BitmapBlock(r), cow.active}
    IN  \A k \in 1..Len(script) : script[k].op = "write" => script[k].b \notin live

\* The volume is refused, or looks unformatted, only where its format was cut short
\* and no transaction was acknowledged since.
CowRefused ==
  cow.phase \in {"Corrupt", "None", "ProvisionedBlank"} => state.try = 0

=============================================================================
