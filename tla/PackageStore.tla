---------------------------- MODULE PackageStore ----------------------------
(***************************************************************************)
(* The package catalog of the storage service: an installation plans       *)
(* extents that no live package uses, writes its blocks one by one, is     *)
(* validated against the catalog when it commits, and replaces the record  *)
(* of its target.  Core reads installed packages by handle between any two *)
(* of these steps, and Storage may stop.                                   *)
(***************************************************************************)
EXTENDS Naturals, Sequences, FiniteSets, FiniteSetsExt, SequencesExt

CONSTANTS
    Targets,            \* PackageKey: what a package is installed for.
    Versions,
    Arena,              \* Blocks of the package arena: 1..Arena.
    MAX_PACKAGE_RECORDS,
    MAX_PACKAGE_EXTENTS,
    Size,               \* [target -> the length of its packages, in blocks]
    Needs,              \* What a package may need: [target -> the versions it accepts]
    MaxGeneration       \* Bound on the generation of a package.

VARIABLES
    records,    \* [target -> record], in memory and on the volume
    store,      \* block -> the package whose bytes it holds
    install,    \* active_package_install
    reader      \* a handle that Core holds, and the blocks read so far

vars == <<records, store, install, reader>>

Blocks == 1..Arena
NoRecord == [alive |-> FALSE, generation |-> 0, package |-> <<>>, extents |-> <<>>]
NoInstall == [open |-> FALSE, target |-> "none", package |-> <<>>, extents |-> <<>>, written |-> {}]
NoReader == [open |-> FALSE, target |-> "none", generation |-> 0, package |-> <<>>, seen |-> {}]

Packages ==
    UNION {[target : {t}, version : Versions, size : {Size[t]}, needs : Needs] : t \in Targets}

Live == {t \in Targets : records[t].alive}
BlocksOf(extents) ==
    FoldLeft(LAMBDA seq, e : seq \o [i \in 1..e.blocks |-> e.start + i - 1], <<>>, extents)
block_used(b) == \E t \in Live : b \in ToSet(BlocksOf(records[t].extents))

Init ==
    /\ records = [t \in Targets |-> NoRecord]
    /\ store = [b \in Blocks |-> <<>>]
    /\ install = NoInstall /\ reader = NoReader

(***************************************************************************)
(* begin_package_install_target and plan_install                           *)
(***************************************************************************)
FreeBlocksMutant == {b \in Blocks : block_used(b) => block_used(b - 1)}

FreeBlocks == {b \in Blocks : ~block_used(b)}

(* The first free blocks, as runs.                                         *)
plan_install(n) ==
    LET free == SetToSortSeq(FreeBlocks, <)
        push(layout, b) ==
          IF layout # <<>> /\ Last(layout).start + Last(layout).blocks = b
          THEN [layout EXCEPT ![Len(layout)].blocks = @ + 1]
          ELSE Append(layout, [start |-> b, blocks |-> 1])
    IN  FoldLeft(push, <<>>, SubSeq(free, 1, n))

Begin(p) ==
    /\ ~install.open
    /\ p.target \in Live \/ Cardinality(Live) < MAX_PACKAGE_RECORDS
    /\ Cardinality(FreeBlocks) >= p.size
    /\ Len(plan_install(p.size)) <= MAX_PACKAGE_EXTENTS
    /\ install' = [open |-> TRUE, target |-> p.target, package |-> p,
                   extents |-> plan_install(p.size), written |-> {}]
    /\ UNCHANGED <<records, store, reader>>

(* write_package_chunk: any block, in any order, again if need be.         *)
write_package_chunk(n) ==
    /\ install.open /\ n \in 1..install.package.size
    /\ store' = [store EXCEPT ![BlocksOf(install.extents)[n]] = <<install.package, n>>]
    /\ install' = [install EXCEPT !.written = @ \cup {n}]
    /\ UNCHANGED <<records, reader>>

Abort ==
    /\ install.open /\ install' = NoInstall
    /\ UNCHANGED <<records, store, reader>>

(***************************************************************************)
(* commit_package_install                                                  *)
(***************************************************************************)
Complete == install.written = 1..install.package.size

Newer(p) == p.target \in Live => p.version > records[p.target].package.version

Provided(p) ==
    \A d \in DOMAIN p.needs :
      /\ d # p.target /\ d \in Live
      /\ records[d].package.version \in p.needs[d]

DependentsMutant(p) == TRUE

(* What is installed and needs this package accepts its version.           *)
Dependents(p) ==
    \A t \in Live \ {p.target} :
      p.target \in DOMAIN records[t].package.needs =>
        p.version \in records[t].package.needs[p.target]

validate_install_policy(p) == Newer(p) /\ Provided(p) /\ Dependents(p)

next_generation(t) == records[t].generation + 1

(* published, or the error is looked up and the volume has not changed.    *)
Commit(published) ==
    /\ install.open /\ install' = NoInstall
    /\ IF published
       THEN /\ Complete /\ validate_install_policy(install.package)
            /\ next_generation(install.target) <= MaxGeneration
            /\ records' = [records EXCEPT ![install.target] =
                 [alive |-> TRUE, generation |-> next_generation(install.target),
                  package |-> install.package, extents |-> install.extents]]
       ELSE UNCHANGED records
    /\ UNCHANGED <<store, reader>>

(***************************************************************************)
(* lookup_package_target and read_package                                  *)
(***************************************************************************)
Lookup(t) ==
    /\ t \in Live /\ ~reader.open
    /\ reader' = [open |-> TRUE, target |-> t, generation |-> records[t].generation,
                  package |-> records[t].package, seen |-> {}]
    /\ UNCHANGED <<records, store, install>>

validate_handle_Mutant == reader.target \in Live

validate_handle ==
    reader.target \in Live /\ records[reader.target].generation = reader.generation

Read(n) ==
    /\ reader.open /\ n \in 1..reader.package.size
    /\ IF ~validate_handle THEN reader' = NoReader
       ELSE /\ n <= records[reader.target].package.size
            /\ reader' = [reader EXCEPT !.seen =
                 @ \cup {<<n, store[BlocksOf(records[reader.target].extents)[n]]>>}]
    /\ UNCHANGED <<records, store, install>>

CloseReader == reader.open /\ reader' = NoReader /\ UNCHANGED <<records, store, install>>

(* Storage stops and opens the volume again.                               *)
Restart == install' = NoInstall /\ UNCHANGED <<records, store, reader>>

Next ==
    \/ \E p \in Packages : Begin(p)
    \/ \E n \in 1..Arena : write_package_chunk(n) \/ Read(n)
    \/ \E published \in BOOLEAN : Commit(published)
    \/ \E t \in Targets : Lookup(t)
    \/ Abort \/ CloseReader \/ Restart

Spec == Init /\ [][Next]_vars

-----------------------------------------------------------------------------
(* One installation at a time, in the arena.                               *)
TypeOK ==
    /\ \A t \in Targets : records[t].generation \in 0..MaxGeneration
    /\ install.open => install.target \in Targets

(* Every installed package has all of its bytes, whatever installations    *)
(* are under way, abandoned or cut off.                                    *)
PackagesIntact ==
    \A t \in Live : \A n \in 1..records[t].package.size :
      store[BlocksOf(records[t].extents)[n]] = <<records[t].package, n>>

(* Whatever is installed finds what it needs, at a version it accepts.     *)
DependenciesHold ==
    \A t \in Live : \A d \in DOMAIN records[t].package.needs :
      d \in Live /\ records[d].package.version \in records[t].package.needs[d]

(* The blocks read through one handle are of one package: an upgrade in    *)
(* between makes the handle stale instead of mixing two images.            *)
OnePackageRead ==
    reader.open => \A s \in reader.seen : s[2] = <<reader.package, s[1]>>
=============================================================================
