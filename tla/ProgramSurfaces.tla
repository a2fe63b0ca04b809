-------------------------- MODULE ProgramSurfaces --------------------------
(***************************************************************************)
(* Programs and their Atrium surfaces, seen through the capability         *)
(* directory.  Core grants Atrium one set of channels per running program  *)
(* and takes them back when the program ends.  Atrium (images/atrium.rs)   *)
(* learns of them only by walking the directory, page by page              *)
(* (common.rs discover_capabilities_contract; RuntimeIpcRegistry::         *)
(* directory): to find surface requests, to decide whether a client still  *)
(* lives, and to gather what to wait on.  Each page is one system call, so *)
(* programs start and end between pages, and the directory's cursor counts *)
(* records.  Atrium then sleeps on one cached event set                    *)
(* (wait_on_event_handles).                                                *)
(*                                                                         *)
(* Of a program's five channels two are kept: the request channel, whose   *)
(* grant is what program_client_live looks for, and the draw channel,      *)
(* which stands for the others.                                            *)
(***************************************************************************)
EXTENDS Naturals, Sequences, FiniteSets, SequencesExt

CONSTANTS
  Slots,          \* program slots of Core
  Static,         \* grants Atrium has from boot, first in the table
  Page,           \* DIRECTORY_RECORDS_PER_PAGE
  MAX_ATRIUM_SURFACES,
  MaxStarts       \* bound on program starts

VARIABLES
  caps,       \* Core's capability table, Atrium's rows: <<>> or <<grant>>
  program,    \* slot -> [state, generation]; the client is <<slot, generation>>
  client,     \* slot -> pending request of the program: "none", "sent", "taken", "has"
  starts,     \* programs started
  signaled,   \* grants whose event is signaled
  sets,       \* event sets Atrium owns in Core: id -> [members, invalidated]
  pc,         \* where Atrium is in its loop
  walk,       \* the directory walk in progress
  surfaces,   \* clients with a surface
  table,      \* program_surface_capabilities: <<>>, or <<[client, draw]>>
  pending,    \* the client whose surface Display is creating, or <<>>
  todo,       \* what is left of the loop the walk is part of
  stale,      \* clients found gone by this pass
  waits,      \* grants to wait on, then events found for them
  cached,     \* EVENT_SET_CACHE: [set, events]
  lastLost    \* ghost: live clients the last pass closed, and whether the table moved

vars == <<caps, program, client, starts, signaled, sets, pc, walk, surfaces,
          table, pending, todo, stale, waits, cached, lastLost>>
core == <<caps, program, client, starts>>
atrium == <<surfaces, table, pending, stale>>

EMPTY == [slot |-> 0, generation |-> 0]
NoClient == <<0, 0>>
Live(c) == c # NoClient /\ program[c[1]] = [running |-> TRUE, generation |-> c[2]]

\* A grant is named by its table slot and generation; the generation grows
\* whenever the slot is vacated.
Grant(peer, contract, slot, generation) ==
  [peer |-> peer, contract |-> contract, slot |-> slot, generation |-> generation]
HandleOf(g) == [slot |-> g.slot, generation |-> g.generation]
Occupied == {i \in DOMAIN caps : caps[i].value # <<>>}
Rows == SelectSeq([i \in DOMAIN caps |-> i], LAMBDA i : i \in Occupied)
GrantAt(i) == caps[i].value[1]
Granted == {GrantAt(i) : i \in Occupied}
Handles == {HandleOf(g) : g \in Granted}

\* RuntimeIpcRegistry::directory: skip `cursor` records of the owner, write a
\* page, and report how many records were passed when more remain.
directory(cursor) ==
  LET rest == SubSeq(Rows, cursor + 1, Len(Rows)) IN
  [page |-> SubSeq(rest, 1, IF Len(rest) > Page THEN Page ELSE Len(rest)),
   more |-> Len(rest) > Page, cursor |-> cursor + Page]

NoWalk == [on |-> FALSE, cursor |-> 0, found |-> <<>>, moved |-> FALSE]
NewWalk == [NoWalk EXCEPT !.on = TRUE]

Init ==
  /\ caps = [i \in 1..Static |-> [generation |-> 1, value |-> <<Grant(NoClient, "static", i, 1)>>]]
  /\ program = [s \in Slots |-> [running |-> FALSE, generation |-> 1]]
  /\ client = [s \in Slots |-> "none"]
  /\ starts = 0 /\ signaled = {} /\ sets = <<>>
  /\ pc = "requests" /\ walk = NewWalk
  /\ surfaces = <<>> /\ table = [k \in 1..MAX_ATRIUM_SURFACES |-> <<>>] /\ pending = <<>>
  /\ todo = <<>> /\ stale = {} /\ waits = <<>>
  /\ cached = [set |-> 0, events |-> <<>>]
  /\ lastLost = [clients |-> {}, moved |-> FALSE]

----------------------------------------------------------------------------
\* Core and the programs.

\* allocate_capability_record: the first vacant row, else a new one.
Allocate(t, peer, contract) ==
  LET vacant == {i \in DOMAIN t : t[i].value = <<>>}
      at == IF vacant # {} THEN CHOOSE i \in vacant : \A j \in vacant : i <= j ELSE Len(t) + 1
      grown == IF vacant # {} THEN t ELSE Append(t, [generation |-> 1, value |-> <<>>])
  IN [grown EXCEPT ![at].value = <<Grant(peer, contract, at, grown[at].generation)>>]

\* provision_surface_ipc for a program entering a slot.
ProgramStarts(s) ==
  /\ starts < MaxStarts /\ ~program[s].running
  /\ starts' = starts + 1
  /\ program' = [program EXCEPT ![s].running = TRUE]
  /\ client' = [client EXCEPT ![s] = "none"]
  /\ LET c == <<s, program[s].generation>>
     IN caps' = Allocate(Allocate(caps, c, "request"), c, "draw")
  /\ walk' = [walk EXCEPT !.moved = @ \/ walk.on]
  /\ UNCHANGED <<signaled, sets, pc, todo, waits, cached, lastLost, atrium>>

\* destroy_surface_ipc: the rows are vacated, their events destroyed, and a
\* set that held one is invalidated and its sleeper woken.
Vacate(s) ==
  [i \in DOMAIN caps |->
     IF i \in Occupied /\ GrantAt(i).peer[1] = s
     THEN [generation |-> caps[i].generation + 1, value |-> <<>>] ELSE caps[i]]
ProgramEnds(s) ==
  /\ program[s].running
  /\ program' = [program EXCEPT ![s] = [running |-> FALSE, generation |-> @.generation + 1]]
  /\ client' = [client EXCEPT ![s] = "none"]
  /\ caps' = Vacate(s)
  /\ LET gone == {HandleOf(g) : g \in {h \in Granted : h.peer[1] = s}} IN
     /\ signaled' = signaled \ gone
     /\ sets' = [k \in DOMAIN sets |->
                   [members |-> SelectSeq(sets[k].members, LAMBDA m : m \notin gone),
                    invalidated |-> sets[k].invalidated
                                    \/ \E j \in DOMAIN sets[k].members : sets[k].members[j] \in gone,
                    live |-> sets[k].live]]
     /\ pc' = IF pc = "asleep" /\ \E j \in DOMAIN sets[cached.set].members :
                                     sets[cached.set].members[j] \in gone
              THEN "top" ELSE pc
  /\ walk' = [walk EXCEPT !.moved = @ \/ walk.on]
  /\ UNCHANGED <<starts, todo, waits, cached, lastLost, atrium>>

RequestGrant(c) == {g \in Granted : g.peer = c /\ g.contract = "request"}

\* ProgramClient::request_surface and poll_surface: one request at a time.
RequestSurface(s) ==
  /\ program[s].running /\ client[s] = "none"
  /\ client' = [client EXCEPT ![s] = "sent"]
  /\ LET h == {HandleOf(g) : g \in RequestGrant(<<s, program[s].generation>>)} IN
     /\ signaled' = signaled \cup h
     /\ pc' = IF pc = "asleep" /\ \E j \in DOMAIN sets[cached.set].members :
                                     sets[cached.set].members[j] \in h
              THEN "top" ELSE pc
  /\ UNCHANGED <<caps, program, starts, sets, walk, todo, waits, cached, lastLost, atrium>>

----------------------------------------------------------------------------
\* Atrium's loop.

\* Display's answer to the create request: the surface is bound to the
\* client, or was refused.
Reply ==
  /\ pc = "top"
  /\ \/ pending = <<>> /\ UNCHANGED <<surfaces, pending, client>>
     \/ /\ pending # <<>> /\ pending' = <<>>
        /\ surfaces' = Append(surfaces, pending[1])
        /\ client' = IF Live(pending[1]) THEN [client EXCEPT ![pending[1][1]] = "has"] ELSE client
     \/ /\ pending # <<>> /\ pending' = <<>>
        /\ client' = IF Live(pending[1]) THEN [client EXCEPT ![pending[1][1]] = "none"] ELSE client
        /\ UNCHANGED surfaces
  /\ pc' = "requests" /\ walk' = NewWalk
  /\ UNCHANGED <<caps, program, starts, signaled, sets, table, todo, stale, waits, cached, lastLost>>

\* On to the surfaces whose clients may have gone.
ToStaleCheck == pc' = "gone" /\ todo' = surfaces /\ stale' = {} /\ walk' = NoWalk

\* Display has not answered yet.
NoReply ==
  /\ pc = "top" /\ pending # <<>>
  /\ ToStaleCheck
  /\ UNCHANGED <<core, signaled, sets, surfaces, table, pending, waits, cached, lastLost>>

\* One directory_call of the walk in progress.
WalkPage ==
  /\ walk.on
  /\ LET a == directory(walk.cursor)
         found == walk.found \o [k \in DOMAIN a.page |-> GrantAt(a.page[k])]
     IN walk' = [walk EXCEPT !.found = found, !.cursor = IF a.more THEN a.cursor ELSE @,
                             !.on = a.more]
  /\ UNCHANGED <<core, signaled, sets, pc, todo, waits, cached, lastLost, atrium>>

Walked == ~walk.on
Found(contract) == SelectSeq(walk.found, LAMBDA g : g.contract = contract)

\* Each listed request channel is received from in turn.
StartReceiving ==
  /\ pc = "requests" /\ Walked
  /\ pc' = "receive" /\ todo' = [k \in DOMAIN Found("request") |-> Found("request")[k]]
  /\ walk' = NoWalk
  /\ UNCHANGED <<core, signaled, sets, waits, cached, lastLost, atrium>>

\* A request taken off its channel sends Atrium after the client's other
\* grants (discover_program_capability), in a walk of its own.
Receive ==
  /\ pc = "receive"
  /\ IF todo = <<>>
     THEN ToStaleCheck /\ UNCHANGED client
     ELSE LET g == todo[1] IN
          IF g \in Granted /\ client[g.peer[1]] = "sent"
          THEN /\ client' = [client EXCEPT ![g.peer[1]] = "taken"]
               /\ pc' = "admit" /\ walk' = NewWalk /\ UNCHANGED <<todo, stale>>
          ELSE todo' = Tail(todo) /\ UNCHANGED <<client, pc, walk, stale>>
  /\ UNCHANGED <<caps, program, starts, signaled, sets, surfaces, table, pending, waits, cached, lastLost>>

EntryForMutant(c) ==
  {k \in DOMAIN table : table[k] # <<>> => table[k][1].client # c}

\* The entry a client's channels go to: the first that is free or its own.
EntryFor(c) ==
  {k \in DOMAIN table : table[k] = <<>> \/ table[k][1].client = c}

\* Without the draw grant the request is dropped and the next channel tried;
\* with every surface in use it is refused; otherwise Display is asked for a
\* surface and the channels are entered, if an entry is left.
Admit ==
  /\ pc = "admit" /\ Walked
  /\ LET c == todo[1].peer
         draws == SelectSeq(Found("draw"), LAMBDA g : g.peer = c)
         free == EntryFor(c)
     IN IF draws = <<>>
        THEN /\ pc' = "receive" /\ todo' = Tail(todo) /\ walk' = NoWalk
             /\ UNCHANGED <<pending, table, stale>>
        ELSE /\ ToStaleCheck
             /\ IF Len(surfaces) = MAX_ATRIUM_SURFACES
                THEN UNCHANGED <<pending, table>>
                ELSE /\ pending' = <<c>>
                     /\ table' = IF free = {} THEN table
                                 ELSE [table EXCEPT ![CHOOSE k \in free : \A j \in free : k <= j]
                                         = <<[client |-> c, draw |-> HandleOf(draws[1])]>>]
  /\ UNCHANGED <<core, signaled, sets, surfaces, waits, cached, lastLost>>

\* program_client_live, for each surface in turn: a walk, then a look for the
\* client's request grant in what it found.
CheckNext ==
  /\ pc = "gone" /\ todo # <<>>
  /\ pc' = "check" /\ walk' = NewWalk
  /\ UNCHANGED <<core, signaled, sets, todo, waits, cached, lastLost, atrium>>
program_client_liveMutant(c) == \E k \in DOMAIN Found("draw") : Found("draw")[k].peer[1] = c[1] + 1

program_client_live(c) == \E k \in DOMAIN Found("request") : Found("request")[k].peer = c
Checked ==
  /\ pc = "check" /\ Walked
  /\ stale' = IF program_client_live(todo[1]) THEN stale ELSE stale \cup {todo[1]}
  /\ lastLost' = [clients |-> IF ~program_client_live(todo[1]) /\ Live(todo[1])
                              THEN {todo[1]} ELSE {},
                  moved |-> walk.moved]
  /\ todo' = Tail(todo) /\ pc' = "gone" /\ walk' = NoWalk
  /\ UNCHANGED <<core, signaled, sets, surfaces, table, pending, waits, cached>>

\* The surfaces of the clients found gone are closed and their entries
\* emptied in place: the entry keeps its slot, with no client.
CloseStale ==
  /\ pc = "gone" /\ todo = <<>>
  /\ surfaces' = SelectSeq(surfaces, LAMBDA c : c \notin stale)
  /\ table' = [k \in DOMAIN table |->
                 IF table[k] # <<>> /\ table[k][1].client \in stale
                 THEN <<[client |-> NoClient, draw |-> EMPTY]>> ELSE table[k]]
  /\ pc' = "gather" /\ walk' = NewWalk /\ stale' = {}
  /\ UNCHANGED <<core, signaled, sets, pending, todo, waits, cached, lastLost>>

\* What to wait on: the boot grants, every request grant found, and the
\* channels of every entry of the table.
Gather ==
  /\ pc = "gather" /\ Walked
  /\ LET entries == SelectSeq(table, LAMBDA e : e # <<>>)
         requests == Found("request")
     IN todo' = <<[slot |-> 1, generation |-> 1]>>
                \o [k \in DOMAIN requests |-> HandleOf(requests[k])]
                \o [k \in DOMAIN entries |-> entries[k][1].draw]
  /\ waits' = <<>> /\ pc' = "events" /\ walk' = NewWalk
  /\ UNCHANGED <<core, signaled, sets, cached, lastLost, atrium>>

\* discover_event_for_capability: the walk lists the grant, with its event.
EventFound(h) == h # EMPTY /\ \E k \in DOMAIN walk.found : HandleOf(walk.found[k]) = h

\* wait_on_capabilities_ready: each in turn; an empty handle or a grant
\* the walk does not find ends the wait before it began.
FindEvent ==
  /\ pc = "events" /\ todo # <<>> /\ Walked
  /\ IF EventFound(todo[1])
     THEN /\ waits' = Append(waits, todo[1]) /\ todo' = Tail(todo)
          /\ walk' = NewWalk /\ UNCHANGED pc
     ELSE /\ pc' = "top" /\ todo' = <<>> /\ walk' = NoWalk /\ UNCHANGED waits
  /\ UNCHANGED <<core, signaled, sets, cached, lastLost, atrium>>

NoCache == [set |-> 0, events |-> <<>>]
Destroyed(k) == IF k = 0 THEN sets ELSE [sets EXCEPT ![k].live = FALSE]

\* wait_on_event_handles: the cached set is used when it was built for the
\* same events; otherwise the cache is emptied, the old set destroyed and a
\* new one created.
UseSet ==
  /\ pc = "events" /\ todo = <<>>
  /\ walk' = NoWalk
  /\ IF cached.set # 0 /\ cached.events = waits
     THEN pc' = "wait" /\ UNCHANGED <<sets, cached, todo>>
     ELSE LET after == Destroyed(cached.set)
              empty == [members |-> <<>>, invalidated |-> FALSE, live |-> TRUE]
              free == {k \in DOMAIN after : ~after[k].live}
          IN /\ sets' = IF free # {} THEN [after EXCEPT ![CHOOSE k \in free : TRUE] = empty]
                        ELSE Append(after, empty)
             /\ cached' = NoCache
             /\ todo' = waits /\ pc' = "add"
  /\ UNCHANGED <<core, signaled, waits, lastLost, atrium>>

Building == CHOOSE k \in DOMAIN sets : sets[k].live

\* One Add: refused for a destroyed event, an invalidated set or a member
\* already there; the half-built set is then destroyed.
AddEvent ==
  /\ pc = "add" /\ todo # <<>>
  /\ LET k == Building
         m == todo[1]
         refused == m \notin Handles \/ sets[k].invalidated
                    \/ \E j \in DOMAIN sets[k].members : sets[k].members[j] = m
     IN IF refused
        THEN /\ sets' = Destroyed(k) /\ pc' = "top" /\ todo' = <<>>
        ELSE /\ sets' = [sets EXCEPT ![k].members = Append(@, m)]
             /\ todo' = Tail(todo) /\ UNCHANGED pc
  /\ UNCHANGED <<core, signaled, walk, waits, cached, lastLost, atrium>>

Added ==
  /\ pc = "add" /\ todo = <<>>
  /\ cached' = [set |-> Building, events |-> waits]
  /\ pc' = "wait"
  /\ UNCHANGED <<core, signaled, sets, walk, todo, waits, lastLost, atrium>>

\* Wait: a signaled member is consumed and the set destroyed; an invalidated
\* set is stale and destroyed too; otherwise the task sleeps on the set, and
\* the cache keeps it.
Ready == {j \in DOMAIN sets[cached.set].members : sets[cached.set].members[j] \in signaled}
DropCacheMutant(k) == cached

DropCache(k) == NoCache
Wait ==
  /\ pc = "wait"
  /\ IF sets[cached.set].invalidated
     THEN /\ sets' = Destroyed(cached.set) /\ cached' = DropCache(cached.set)
          /\ pc' = "top" /\ UNCHANGED signaled
     ELSE IF Ready # {}
     THEN /\ signaled' = signaled \ {sets[cached.set].members[CHOOSE j \in Ready :
                                        \A i \in Ready : j <= i]}
          /\ sets' = Destroyed(cached.set) /\ cached' = DropCache(cached.set)
          /\ pc' = "top"
     ELSE pc' = "asleep" /\ UNCHANGED <<signaled, sets, cached>>
  /\ UNCHANGED <<core, walk, todo, waits, lastLost, atrium>>

\* The wait's deadline, half a heartbeat interval away.
Timeout ==
  /\ pc = "asleep" /\ pc' = "top"
  /\ UNCHANGED <<core, signaled, sets, walk, todo, waits, cached, lastLost, atrium>>

Next ==
  \/ \E s \in Slots : ProgramStarts(s) \/ ProgramEnds(s) \/ RequestSurface(s)
  \/ Reply \/ NoReply \/ WalkPage \/ StartReceiving \/ Receive \/ Admit
  \/ CheckNext \/ Checked \/ CloseStale \/ Gather \/ FindEvent
  \/ UseSet \/ AddEvent \/ Added \/ Wait \/ Timeout

Spec == Init /\ [][Next]_vars

TypeOK ==
  /\ pc \in {"top", "requests", "receive", "admit", "gone", "check", "gather", "events", "add", "wait", "asleep"}
  /\ \A s \in Slots : client[s] \in {"none", "sent", "taken", "has"}

\* Atrium takes a client for gone only when it is: a surface is not closed
\* under a running program, unless a program started or ended while the
\* directory was being walked, which moves the records the cursor counts
\* (program_client_live, RuntimeIpcRegistry::directory).
LiveClientKept == lastLost.clients # {} => lastLost.moved

\* The same without the exception: a program keeps its surface until it ends.
NoLiveClientLost == lastLost.clients = {}

\* Atrium holds at most one event set in Core, and when it is not building
\* one, exactly the cached set (wait_on_event_handles).
OneEventSet ==
  LET live == {k \in DOMAIN sets : sets[k].live} IN
  /\ Cardinality(live) <= 1
  /\ pc # "add" => live = (IF cached.set = 0 THEN {} ELSE {cached.set})

\* While Atrium sleeps, its set holds the event of every grant it set out to
\* wait on that is still granted, so a request in one of their queues would
\* have woken it.
AsleepOnEverything ==
  pc = "asleep" =>
    /\ ~sets[cached.set].invalidated
    /\ \A k \in DOMAIN waits : waits[k] \in Handles => waits[k] \in ToSet(sets[cached.set].members)
    /\ ToSet(sets[cached.set].members) \cap signaled = {}

\* Every client with a surface has an entry of the table, without which its
\* drawing is never read and its input never sent, as long as no entry has
\* been retired.
EveryClientEntered ==
  (\A k \in DOMAIN table : table[k] # <<>> => Live(table[k][1].client)) =>
    \A k \in DOMAIN surfaces :
      Live(surfaces[k]) => \E e \in DOMAIN table : table[e] # <<>> /\ table[e][1].client = surfaces[k]

\* The same without the exception.
ProgramsServed ==
  \A k \in DOMAIN surfaces :
    Live(surfaces[k]) => \E e \in DOMAIN table : table[e] # <<>> /\ table[e][1].client = surfaces[k]

=============================================================================
