-------------------------- MODULE ServiceRegistry --------------------------
(***************************************************************************)
(* RuntimeServiceRegistry (src/runtime_services.rs): the generation-tagged *)
(* table of services, their dependencies, epochs and runtime slots, and    *)
(* the two paged listings of it: the directory (`list`, walked page by     *)
(* page by discover_service_name of a service image, which then keeps the  *)
(* records for good) and the manager's List (one record per call, walked   *)
(* by Flow).  The table may change between two pages.                      *)
(*                                                                         *)
(* Boot services come from the image table and may depend on each other;   *)
(* a package service registered at run time depends on nothing.  Epochs,   *)
(* restart counts, quotas and images are left out: nothing here reads them *)
(* (ServiceRuntime has the epochs).  `remove`                              *)
(* has no caller in Core: it is part of the registry's contract and is     *)
(* bounded by MaxRemoves.                                                  *)
(***************************************************************************)
EXTENDS Naturals, Sequences, FiniteSets, SequencesExt

CONSTANTS
  Boot,             \* number of services of the image table
  BootDeps,         \* boot index -> set of the indices it depends on
  Names,            \* names a package service may be registered under
  MaxSlots,         \* bound on the table
  MaxGeneration,    \* bound on generations and graph restarts
  MaxRemoves,       \* bound on removals
  DIRECTORY_RECORDS_PER_PAGE

VARIABLES
  slots,     \* the table: [generation, value]; value <<>> when vacant
  seed,      \* generation_seed: the service epoch of this boot
  issued,    \* ghost: handle -> name of every handle given out this boot
  walk,      \* the listing a client is reading
  closure,   \* the members the last Restart marked, in order
  removes    \* removals so far

vars == <<slots, seed, issued, walk, closure, removes>>

NoSlot == 0
NextGeneration(g) == g + 1

Record(handle, name, deps) ==
  [handle |-> handle, name |-> name, dependencies |-> deps, state |-> "Stopped",
   runtime_slot |-> NoSlot]

Occupied(t) == {i \in DOMAIN t : t[i].value # <<>>}
Service(t, i) == t[i].value[1]
Services(t) == {Service(t, i) : i \in Occupied(t)}

\* index: a handle names a slot only at the slot's current generation.
Resolves(t, h) == h[1] \in Occupied(t) /\ t[h[1]].generation = h[2]
Lookup(t, h) == Service(t, h[1])
StateOf(t, h) == IF Resolves(t, h) THEN Lookup(t, h).state ELSE "Stale"
Put(t, h, record) == [t EXCEPT ![h[1]].value = <<record>>]
SetState(t, h, s) == Put(t, h, [Lookup(t, h) EXCEPT !.state = s])

\* allocate_slot: the first vacant slot, else a new one at the seed.
allocate_slot(t) ==
  LET vacant == DOMAIN t \ Occupied(t) IN
  IF vacant # {} THEN [table |-> t, at |-> CHOOSE i \in vacant : \A j \in vacant : i <= j]
  ELSE [table |-> Append(t, [generation |-> seed, value |-> <<>>]), at |-> Len(t) + 1]

Dependents(t, h) == {s \in Services(t) : h \in s.dependencies}

\* lifecycle_status, for the operations the manager offers.
lifecycle_status(t, op, h) ==
  IF ~Resolves(t, h) THEN "Stale"
  ELSE LET s == Lookup(t, h)
           wanted == IF op = "Start" THEN "Stopped" ELSE "Running"
       IN CASE s.state # wanted ->
                 IF s.state \in {"Starting", "Stopping"} THEN "Busy" ELSE "InvalidState"
            [] op = "Start" /\ \E d \in s.dependencies : StateOf(t, d) # "Running" -> "Dependency"
            [] op = "Stop" /\ \E d \in Dependents(t, h) : d.state # "Stopped" -> "Dependency"
            [] OTHER -> "Ok"

IncludedMutant(t, members) ==
  members \cup {s.handle : s \in {r \in Services(t) : r.state = "Running"
                                                     /\ r.dependencies \cap members # {}}}

\* restart_closure, first loop: the service and, transitively, the running
\* services that depend on it.
RECURSIVE Included(_, _)
Included(t, members) ==
  LET more == {s \in Services(t) : /\ s.state = "Running"
                                   /\ s.handle \notin members
                                   /\ s.dependencies \cap members # {}}
  IN IF more = {} THEN members ELSE Included(t, members \cup {s.handle : s \in more})


\* restart_closure, second loop: members whose dependencies are placed come
\* first, and the order is then reversed.
RECURSIVE Ordered(_, _)
Ordered(t, remaining) ==
  IF remaining = {} THEN <<>>
  ELSE LET free == {h \in remaining : Lookup(t, h).dependencies \cap remaining = {}}
           next == CHOOSE h \in free : \A g \in free : h[1] <= g[1]
       IN Append(Ordered(t, remaining \ {next}), next)

restart_closure(t, h) == Ordered(t, Included(t, {h}))

\* collect_start_order and apply_start_order: everything the service needs
\* that is not running yet becomes Running with it.
RECURSIVE Needed(_, _)
Needed(t, members) ==
  LET more == {d \in UNION {Lookup(t, h).dependencies : h \in members} :
                 d \notin members /\ StateOf(t, d) # "Running"}
  IN IF more = {} THEN members ELSE Needed(t, members \cup more)
Start(t, h) ==
  IF StateOf(t, h) = "Running" THEN t
  ELSE LET order == Needed(t, {h}) IN
       [i \in DOMAIN t |->
          IF \E g \in order : g[1] = i
          THEN [t[i] EXCEPT !.value = <<[@[1] EXCEPT !.state = "Running"]>>] ELSE t[i]]

\* initialize_dynamic_services: the image table, started and bound in order.
BootTable(generation) ==
  [i \in 1..Boot |->
     [generation |-> generation,
      value |-> <<[Record(<<i, generation>>, i, {<<d, generation>> : d \in BootDeps[i]})
                     EXCEPT !.state = "Running", !.runtime_slot = i]>>]]
BootHandles(generation) == {<<i, generation>> : i \in 1..Boot}

NoWalk == [kind |-> "none", cursor |-> 0, seen |-> <<>>, steady |-> {}, holes |-> FALSE]

Init ==
  /\ slots = BootTable(1) /\ seed = 1
  /\ issued = [h \in BootHandles(1) |-> h[1]]
  /\ walk = NoWalk /\ closure = <<>> /\ removes = 0

\* What a step of the registry does to the listing in progress: a service is
\* steady while its handle resolves at every page.
Watch(t) ==
  walk' = [walk EXCEPT !.steady = {h \in @ : Resolves(t, h)},
                       !.holes = @ \/ Occupied(t) # DOMAIN t]

Changed(t) ==
  /\ slots' = t /\ Watch(t) /\ closure' = <<>> /\ UNCHANGED seed

register_pending_package(name) ==
  LET a == allocate_slot(slots)
      h == <<a.at, a.table[a.at].generation>>
  IN /\ a.at <= MaxSlots
     /\ Changed([a.table EXCEPT ![a.at].value = <<Record(h, name, {})>>])
     /\ issued' = [g \in DOMAIN issued \cup {h} |-> IF g \in DOMAIN issued THEN issued[g] ELSE name]
     /\ UNCHANGED removes

begin_lifecycle(op, h) ==
  /\ lifecycle_status(slots, op, h) = "Ok"
  /\ Changed(SetState(slots, h, IF op = "Start" THEN "Starting" ELSE "Stopping"))
  /\ UNCHANGED <<issued, removes>>

\* begin_lifecycle_action for Restart: the whole closure starts stopping.
begin_restart(h) ==
  /\ lifecycle_status(slots, "Restart", h) = "Ok"
  /\ LET order == restart_closure(slots, h)
         t == [i \in DOMAIN slots |->
                 IF \E k \in DOMAIN order : order[k][1] = i
                 THEN [slots[i] EXCEPT !.value = <<[@[1] EXCEPT !.state = "Stopping"]>>]
                 ELSE slots[i]]
     IN slots' = t /\ Watch(t) /\ closure' = order
  /\ UNCHANGED <<seed, issued, removes>>

\* abort_lifecycle and abort_lifecycle_members.
abort_lifecycle(h) ==
  /\ StateOf(slots, h) \in {"Starting", "Stopping"}
  /\ LET members == IF h \in ToSet(closure) THEN ToSet(closure) ELSE {h}
         back == IF StateOf(slots, h) = "Starting" THEN "Stopped" ELSE "Running"
     IN Changed([i \in DOMAIN slots |->
                   IF \E g \in members : g[1] = i
                   THEN [slots[i] EXCEPT !.value = <<[@[1] EXCEPT !.state = back]>>]
                   ELSE slots[i]])
  /\ UNCHANGED <<issued, removes>>

BindableMutant(t, h, slot) == TRUE

\* bind_runtime_slot refuses a slot another service holds.
Bindable(t, h, slot) ==
  \A s \in Services(t) : s.handle # h => s.runtime_slot # slot

\* The service of a started image: its slot is bound, its resources recorded
\* and the registry told that it runs.  A package service takes the runtime
\* slot of its table index (lifecycle_slot_for_handle).
started(h, slot) ==
  /\ StateOf(slots, h) = "Starting"
  /\ Bindable(slots, h, slot)
  /\ Changed(Start(Put(slots, h, [Lookup(slots, h) EXCEPT !.runtime_slot = slot]), h))
  /\ UNCHANGED <<issued, removes>>

fail(h) ==
  /\ StateOf(slots, h) = "Starting"
  /\ Changed(Put(slots, h, [Lookup(slots, h) EXCEPT !.state = "Failed"]))
  /\ UNCHANGED <<issued, removes>>

\* stop, after clear_execution_resources: refused while a running service
\* depends on this one.
Stopped(t, h) ==
  Put(t, h, [Lookup(t, h) EXCEPT !.state = "Stopped"])
Stoppable(h) ==
  /\ StateOf(slots, h) = "Stopping"
  /\ ~\E s \in Dependents(slots, h) : s.state = "Running"
stop(h) == Stoppable(h) /\ Changed(Stopped(slots, h)) /\ UNCHANGED <<issued, removes>>

ReplacedHandleMutant(h) == h

\* replace_generation: the restarted package service keeps its slot and gets
\* a new handle, so that what was addressed to the old one is stale.
ReplacedHandle(h) == <<h[1], NextGeneration(h[2])>>
replace_generation(h) ==
  /\ StateOf(slots, h) = "Stopped" /\ h[1] > Boot /\ h[2] < MaxGeneration
  /\ LET g == ReplacedHandle(h)
         s == [Lookup(slots, h) EXCEPT !.handle = g]
     IN /\ Changed([slots EXCEPT ![h[1]] = [generation |-> NextGeneration(h[2]), value |-> <<s>>]])
        /\ issued' = [k \in DOMAIN issued \cup {g} |-> IF k \in DOMAIN issued THEN issued[k] ELSE s.name]
  /\ UNCHANGED removes

VacatedMutant(t, h) == [t EXCEPT ![h[1]].value = <<>>]

Vacated(t, h) == [t EXCEPT ![h[1]] = [generation |-> NextGeneration(h[2]), value |-> <<>>]]
remove(h) ==
  /\ removes < MaxRemoves /\ Resolves(slots, h) /\ h[1] > Boot /\ h[2] < MaxGeneration
  /\ StateOf(slots, h) \in {"Stopped", "Failed"} /\ Dependents(slots, h) = {}
  /\ Changed(Vacated(slots, h))
  /\ removes' = removes + 1 /\ UNCHANGED issued

\* The graph restart rebuilds the registry at the next service epoch; every
\* client is gone with it.
GraphRestart ==
  /\ seed < MaxGeneration
  /\ seed' = seed + 1 /\ slots' = BootTable(seed + 1)
  /\ issued' = [h \in BootHandles(seed + 1) |-> h[1]]
  /\ walk' = NoWalk /\ closure' = <<>> /\ UNCHANGED removes

\* list: a page of records from the slot the cursor names, and the slot of
\* the first record that did not fit.
FromCursor(t, cursor) == SelectSeq([i \in 1..Len(t) |-> i], LAMBDA i : i > cursor /\ i \in Occupied(t))
listMutant(t, cursor) ==
  LET all == FromCursor(t, cursor)
      n == DIRECTORY_RECORDS_PER_PAGE
  IN IF Len(all) > n THEN [page |-> SubSeq(all, 1, n), more |-> TRUE, cursor |-> all[n + 1]]
     ELSE [page |-> all, more |-> FALSE, cursor |-> 0]

list(t, cursor) ==
  LET all == FromCursor(t, cursor)
      n == DIRECTORY_RECORDS_PER_PAGE
  IN IF Len(all) > n THEN [page |-> SubSeq(all, 1, n), more |-> TRUE, cursor |-> all[n + 1] - 1]
     ELSE [page |-> all, more |-> FALSE, cursor |-> 0]

\* next_manager_record skips as many records as the cursor says, and answers
\* with the slot after the one it found.
next_manager_record(t, cursor) ==
  LET all == FromCursor(t, 0) IN
  IF Len(all) > cursor
  THEN [page |-> <<all[cursor + 1]>>, more |-> TRUE, cursor |-> all[cursor + 1]]
  ELSE [page |-> <<>>, more |-> FALSE, cursor |-> 0]

StartWalk(kind) ==
  /\ walk.kind = "none"
  /\ walk' = [kind |-> kind, cursor |-> 0, seen |-> <<>>,
              steady |-> {s.handle : s \in Services(slots)}, holes |-> Occupied(slots) # DOMAIN slots]
  /\ UNCHANGED <<slots, seed, issued, closure, removes>>

\* One directory_call of the walk.  The directory's client gives up on a
\* cursor that did not advance.
Page ==
  /\ walk.kind \in {"directory", "manager"}
  /\ LET a == IF walk.kind = "directory" THEN list(slots, walk.cursor)
              ELSE next_manager_record(slots, walk.cursor)
         seen == walk.seen \o [k \in DOMAIN a.page |-> Service(slots, a.page[k]).handle]
     IN /\ ~(a.more /\ a.cursor <= walk.cursor)
        /\ walk' = [walk EXCEPT !.seen = seen,
                                !.cursor = IF a.more THEN a.cursor ELSE 0,
                                !.kind = IF a.more THEN @ ELSE @ \o "-done"]
  /\ UNCHANGED <<slots, seed, issued, closure, removes>>

\* discover_service_name reads the records it kept; a name carried by two
\* records is refused.
EndWalk ==
  /\ walk.kind \in {"directory-done", "manager-done"}
  /\ walk' = NoWalk
  /\ UNCHANGED <<slots, seed, issued, closure, removes>>

Handles == {s.handle : s \in Services(slots)}

Next ==
  \/ \E n \in Names : register_pending_package(n)
  \/ \E h \in Handles, op \in {"Start", "Stop"} : begin_lifecycle(op, h)
  \/ \E h \in Handles : begin_restart(h)
  \/ \E h \in Handles : abort_lifecycle(h)
  \/ \E h \in Handles : started(h, h[1])
  \/ \E h \in Handles : fail(h)
  \/ \E h \in Handles : stop(h)
  \/ \E h \in Handles : replace_generation(h)
  \/ \E h \in Handles : remove(h)
  \/ GraphRestart
  \/ \E k \in {"directory", "manager"} : StartWalk(k)
  \/ Page
  \/ EndWalk

Spec == Init /\ [][Next]_vars

TypeOK ==
  /\ Len(slots) <= MaxSlots /\ seed \in 1..MaxGeneration
  /\ walk.kind \in {"none", "directory", "manager", "directory-done", "manager-done"}

\* A handle names one service for as long as the registry lives: it resolves
\* to the service it was issued for or to nothing, so the directory a client
\* keeps for good can go stale but never wrong; and no two services share a
\* runtime slot (index, remove, replace_generation, bind_runtime_slot).
HandlesNameOneService ==
  /\ \A h \in DOMAIN issued : Resolves(slots, h) => Lookup(slots, h).name = issued[h]
                                                    /\ Lookup(slots, h).handle = h
  /\ \A s \in Services(slots) : s.handle \in DOMAIN issued
  /\ \A s, r \in Services(slots) :
       s.runtime_slot = r.runtime_slot /\ s.runtime_slot # NoSlot => s = r

\* A restarted service's dependency handles stay good: whoever lists a
\* service as a dependency names its current handle.
DependenciesResolve ==
  \A s \in Services(slots) : \A d \in s.dependencies : Resolves(slots, d)

\* What a Restart marks is exactly the service and every service that would
\* run on without it, each before the services it depends on, and nothing
\* that still runs depends on a member (restart_closure).
ClosureExact ==
  closure # <<>> =>
    /\ Cardinality(ToSet(closure)) = Len(closure)
    /\ \A s \in Services(slots) :
         s.state = "Running" => s.dependencies \cap ToSet(closure) = {}
    /\ \A i, j \in DOMAIN closure :
         closure[j] \in Lookup(slots, closure[i]).dependencies => i < j

\* A completed listing shows every service that was there throughout exactly
\* once, whatever was registered, replaced or removed between its pages.  The
\* manager's listing counts records where its cursor counts slots, so it is
\* exact only while no slot is vacant.
ListingComplete ==
  (walk.kind = "directory-done" \/ (walk.kind = "manager-done" /\ ~walk.holes)) =>
    \A h \in walk.steady : Cardinality({k \in DOMAIN walk.seen : walk.seen[k] = h}) = 1

=============================================================================
