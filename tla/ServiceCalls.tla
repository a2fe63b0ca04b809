---------------------------- MODULE ServiceCalls ----------------------------
\* ServiceRuntime::ipc_send and ipc_receive where Core itself is the other end:
\* Storage asks for block transfers and for cache windows in a client's address
\* space, Network exchanges packets, Device asks for the device list. Core puts
\* the request through the endpoint's queue, carries it out under the runtime
\* lock, and queues the answer. Every call is one step: the lock is held
\* throughout. Services keep one request of a kind outstanding, as their
\* transports do.
EXTENDS Integers, Sequences, FiniteSets

CONSTANTS STORAGE_MAP_CLIENTS,             \* clients with windows, by slot 0..n-1
          STORAGE_MAP_WINDOWS_PER_CLIENT,
          STORAGE_MAP_WINDOW_PAGES,
          STORAGE_CACHE_PAGES,
          MaxMappings,   \* room in a client's mapping table for window pages
          Capacity,      \* of an endpoint to or from Core
          Blocks, Values,
          MaxEpoch, MaxIds, MaxFrames, MaxInstances

VARIABLES epoch,     \* service_epoch
          queue,     \* what each endpoint holds
          disk,      \* the block device
          data,      \* the first storage data frame
          windows,   \* storage_map_windows
          table,     \* per client: <<page, cache page>> translations
          maps,      \* per client: pages its process record lists
          instance,  \* per client: which launch of it is running (history)
          rx,        \* frames the network device holds
          page0,     \* the frame in the first packet page
          packet,    \* network_packet_response
          sequence,  \* network_packet_sequence
          storage, network, device,   \* what the services know
          frames, ids   \* counters bounding arrivals and requests

vars == <<epoch, queue, disk, data, windows, table, maps, instance, rx, page0, packet,
          sequence, storage, network, device, frames, ids>>
storageVars == <<disk, data, windows, table, maps, instance, storage>>
networkVars == <<rx, page0, packet, sequence, network, frames>>

Clients == 0..STORAGE_MAP_CLIENTS - 1
Slots == 0..STORAGE_MAP_WINDOWS_PER_CLIENT - 1
Endpoints == {"storage_request", "storage_response", "map_request", "map_response",
              "packet_out", "packet_in", "device_request", "device_response"}
ToCore == {"storage_request", "map_request", "packet_out", "device_request"}
NoPage == 0

LinkState(e, n) == [kind |-> "link", frame |-> 0, seq |-> n, epoch |-> e]
StorageIdle == [block |-> <<>>, map |-> <<>>, known |-> {}]

Init ==
  /\ epoch = 1
  /\ queue = [e \in Endpoints |-> <<>>]
  /\ disk = [b \in Blocks |-> CHOOSE v \in Values : TRUE]
  /\ data = CHOOSE v \in Values : TRUE
  /\ windows = [c \in Clients |-> [s \in Slots |-> <<>>]]
  /\ table = [c \in Clients |-> {}]
  /\ maps = [c \in Clients |-> {}]
  /\ instance = [c \in Clients |-> 1]
  /\ rx = <<>> /\ page0 = 0
  /\ packet = <<LinkState(1, 1)>> /\ sequence = 2
  /\ storage = StorageIdle
  /\ network = <<>> /\ device = <<>>
  /\ frames = 0 /\ ids = 0

-----------------------------------------------------------------------------
\* Queues. A call that cannot send or receive leaves them as they were.
send_dynamic(q, e, m) ==
  IF Len(q[e]) < Capacity THEN [status |-> "Ok", queue |-> [q EXCEPT ![e] = Append(@, m)]]
                          ELSE [status |-> "Full", queue |-> q]
receive_dynamic(q, e) ==
  IF q[e] # <<>> THEN [status |-> "Ok", queue |-> [q EXCEPT ![e] = Tail(@)]]
                 ELSE [status |-> "Empty", queue |-> q]
dynamic_core_request_Mutant(q, e, m) == send_dynamic(q, e, m)
dynamic_core_request(q, e, m) ==
  LET sent == send_dynamic(q, e, m)
  IN  IF sent.status = "Ok" THEN receive_dynamic(sent.queue, e) ELSE sent
queue_dynamic_core_response(q, e, m) == send_dynamic(q, e, m)

-----------------------------------------------------------------------------
\* Block transfers.

\* The service prepares the page a write will take its bytes from.
Fill(v) ==
  /\ storage.block = <<>>
  /\ data' = v
  /\ UNCHANGED <<epoch, queue, disk, windows, table, maps, instance, storage, device, ids>>
  /\ UNCHANGED networkVars

validate_request(r) == r.generation = epoch /\ (r.op \in {"Read", "Write"} => r.block \in Blocks)

\* What carrying a request out leaves: the device may refuse any transfer.
Transfer(r) ==
  {[status |-> IF r.op = "Other" THEN "Unsupported" ELSE "Io", disk |-> disk, data |-> data]}
  \cup (CASE r.op = "Read" -> {[status |-> "Ok", disk |-> disk, data |-> disk[r.block]]}
          [] r.op = "Write" -> {[status |-> "Ok", disk |-> [disk EXCEPT ![r.block] = data],
                                 data |-> data]}
          [] r.op \in {"Flush", "Reopen"} -> {[status |-> "Ok", disk |-> disk, data |-> data]}
          [] OTHER -> {})

\* A malformed or stale request is taken off its queue and refused.
StorageRequest(op, b, generation) ==
  LET r == [op |-> op, block |-> b, generation |-> generation, id |-> ids + 1, value |-> data]
      taken == dynamic_core_request(queue, "storage_request", r)
  IN /\ storage.block = <<>> /\ ids < MaxIds
     /\ ids' = ids + 1
     /\ IF taken.status = "Ok" /\ validate_request(r)
        THEN \E outcome \in Transfer(r) :
               LET answered == queue_dynamic_core_response(taken.queue, "storage_response",
                                 [id |-> r.id, status |-> outcome.status])
               IN /\ disk' = outcome.disk /\ data' = outcome.data
                  /\ queue' = answered.queue
                  /\ storage' = [storage EXCEPT
                       !.block = IF answered.status = "Ok" THEN <<r>> ELSE <<>>]
        ELSE queue' = taken.queue /\ UNCHANGED <<disk, data, storage>>
     /\ UNCHANGED <<epoch, windows, table, maps, instance, device>>
     /\ UNCHANGED networkVars

StorageReceive ==
  LET taken == receive_dynamic(queue, "storage_response")
  IN /\ taken.status = "Ok"
     /\ queue' = taken.queue
     /\ storage' = [storage EXCEPT !.block = <<>>]
     /\ UNCHANGED <<epoch, disk, data, windows, table, maps, instance, device, ids>>
     /\ UNCHANGED networkVars

-----------------------------------------------------------------------------
\* Windows: cache pages mapped read-only into Flow or Fetch.

storage_map_target(c, s) ==
  1 + (c * STORAGE_MAP_WINDOWS_PER_CLIENT + s) * STORAGE_MAP_WINDOW_PAGES
WindowPages(target, n) == target..target + n - 1

validate_map_descriptor(r) ==
  IF r.generation # epoch THEN "Stale"
  ELSE IF r.pages \notin 1..STORAGE_MAP_WINDOW_PAGES
          \/ r.page + r.pages > STORAGE_CACHE_PAGES THEN "Invalid"
  ELSE "Ok"

validate_map_request(c, target, n) ==
  \A s \in Slots : windows[c][s] # <<>> =>
    WindowPages(target, n) \cap WindowPages(windows[c][s][1].target, windows[c][s][1].pages) = {}

FreeSlots(c) == {s \in Slots : windows[c][s] = <<>>}
FirstFree(c) == CHOOSE s \in FreeSlots(c) : \A t \in FreeSlots(c) : s <= t

\* Pages are entered one by one; "room" is how many the page tables take before
\* they run out of frames. A failure undoes what was entered.
MapPages(t, target, page, n) == t \cup {<<target + i, page + i>> : i \in 0..n - 1}
RollbackMutant(t, target, n) == {e \in t : e[1] \notin target..target + n - 2}
Rollback(t, target, n) == {e \in t : e[1] \notin target..target + n - 1}

map_storage_window(c, r, room) ==
  LET s == FirstFree(c)
      target == storage_map_target(c, s)
      listed == MaxMappings - Cardinality(maps[c])
      entered == IF listed < room THEN listed + 1 ELSE room
  IN  IF FreeSlots(c) = {} \/ ~validate_map_request(c, target, r.pages)
      THEN [status |-> "Full", table |-> table[c], maps |-> maps[c], windows |-> windows[c],
            window |-> <<>>]
      ELSE IF room >= r.pages /\ listed >= r.pages
      THEN LET w == [target |-> target, pages |-> r.pages, page |-> r.page,
                     generation |-> s + 1, to |-> instance[c]]
           IN [status |-> "Ok", table |-> MapPages(table[c], target, r.page, r.pages),
               maps |-> maps[c] \cup WindowPages(target, r.pages),
               windows |-> [windows[c] EXCEPT ![s] = <<w>>], window |-> <<w>>]
      ELSE [status |-> "Io",
            table |-> Rollback(MapPages(table[c], target, r.page, entered), target, entered),
            maps |-> maps[c] \ WindowPages(target, r.pages),
            windows |-> windows[c], window |-> <<>>]

\* A release names the window by target and generation; the pages must be listed.
Named(c, r) == {s \in Slots : windows[c][s] # <<>>
                  /\ windows[c][s][1].target = r.target
                  /\ windows[c][s][1].generation = r.window_generation}
unmap_storage_window(c, r) ==
  LET s == CHOOSE s \in Named(c, r) : TRUE
      gone == WindowPages(windows[c][s][1].target, windows[c][s][1].pages)
  IN  IF r.generation = epoch /\ Named(c, r) # {} /\ gone \subseteq maps[c]
      THEN [status |-> "Ok", table |-> {e \in table[c] : e[1] \notin gone},
            maps |-> maps[c] \ gone, windows |-> [windows[c] EXCEPT ![s] = <<>>]]
      ELSE [status |-> "Io", table |-> table[c], maps |-> maps[c], windows |-> windows[c]]

\* Core answers every well-formed request, refusals included.
Answer(taken, c, r, effect, window) ==
  LET answered == queue_dynamic_core_response(taken.queue, "map_response",
                    [id |-> r.id, status |-> effect.status, window |-> window])
  IN /\ queue' = answered.queue
     /\ table' = [table EXCEPT ![c] = effect.table]
     /\ maps' = [maps EXCEPT ![c] = effect.maps]
     /\ windows' = [windows EXCEPT ![c] = effect.windows]
     /\ storage' = [storage EXCEPT !.map = IF answered.status = "Ok" THEN <<r>> ELSE <<>>]
Refusal(c, status) ==
  [status |-> status, table |-> table[c], maps |-> maps[c], windows |-> windows[c], window |-> <<>>]

StorageMap(c, page, pages, generation) ==
  LET r == [op |-> "map", client |-> c, page |-> page, pages |-> pages,
            generation |-> generation, id |-> ids + 1]
      taken == dynamic_core_request(queue, "map_request", r)
      valid == validate_map_descriptor(r)
  IN /\ storage.map = <<>> /\ ids < MaxIds /\ taken.status = "Ok"
     /\ ids' = ids + 1
     /\ \E room \in 0..pages :
          LET effect == IF valid = "Ok" THEN map_storage_window(c, r, room) ELSE Refusal(c, valid)
          IN  Answer(taken, c, r, effect, effect.window)
     /\ UNCHANGED <<epoch, disk, data, instance, device>>
     /\ UNCHANGED networkVars

StorageUnmap(w, generation) ==
  LET c == w.client
      r == [op |-> "unmap", client |-> c, target |-> w.window.target, generation |-> generation,
            window_generation |-> w.window.generation, id |-> ids + 1, of |-> w]
      taken == dynamic_core_request(queue, "map_request", r)
      effect == IF generation = epoch THEN unmap_storage_window(c, r) ELSE Refusal(c, "Stale")
  IN /\ storage.map = <<>> /\ ids < MaxIds /\ taken.status = "Ok"
     /\ w \in storage.known
     /\ ids' = ids + 1
     /\ Answer(taken, c, r, effect, <<>>)
     /\ UNCHANGED <<epoch, disk, data, instance, device>>
     /\ UNCHANGED networkVars

\* The service learns of a window, or of its release, from the answer.
MapReceive ==
  LET taken == receive_dynamic(queue, "map_response")
      a == Head(queue["map_response"])
      r == storage.map[1]
  IN /\ taken.status = "Ok"
     /\ queue' = taken.queue
     /\ storage' = [storage EXCEPT !.map = <<>>,
          !.known = IF a.status # "Ok" THEN @
                    ELSE IF r.op = "map" THEN @ \cup {[client |-> r.client, window |-> a.window[1]]}
                    ELSE @ \ {r.of}]
     /\ UNCHANGED <<epoch, disk, data, windows, table, maps, instance, device, ids>>
     /\ UNCHANGED networkVars

\* A targeted restart gives a client a new process; Core's windows stay.
ClientRestart(c) ==
  /\ instance[c] < MaxInstances
  /\ instance' = [instance EXCEPT ![c] = @ + 1]
  /\ table' = [table EXCEPT ![c] = {}]
  /\ maps' = [maps EXCEPT ![c] = {}]
  /\ UNCHANGED <<epoch, queue, disk, data, windows, storage, device, ids>>
  /\ UNCHANGED networkVars

-----------------------------------------------------------------------------
\* Packets.

FrameArrives ==
  /\ frames < MaxFrames
  /\ frames' = frames + 1
  /\ rx' = Append(rx, frames + 1)
  /\ UNCHANGED <<epoch, queue, page0, packet, sequence, network, device, ids>>
  /\ UNCHANGED storageVars


\* What the next receive delivers: a descriptor put by, or the next frame.
TakePacket ==
  IF packet # <<>> THEN [found |-> TRUE, response |-> packet[1], rx |-> rx, page |-> page0,
                         sequence |-> sequence]
  ELSE IF rx = <<>> THEN [found |-> FALSE, response |-> LinkState(epoch, 0), rx |-> rx,
                          page |-> page0, sequence |-> sequence]
  ELSE [found |-> TRUE, rx |-> Tail(rx), page |-> Head(rx), sequence |-> sequence + 1,
        response |-> [kind |-> "rx", frame |-> Head(rx), seq |-> sequence, epoch |-> epoch]]

\* The descriptor passes through the endpoint's queue within the call; were the
\* queue full, it would be put by for the next call.
PacketReceive ==
  LET take == TakePacket
      queued == queue_dynamic_core_response(queue, "packet_in", take.response)
      taken == receive_dynamic(queued.queue, "packet_in")
  IN /\ take.found
     /\ rx' = take.rx /\ page0' = take.page /\ sequence' = take.sequence
     /\ packet' = IF queued.status = "Ok" THEN <<>> ELSE <<take.response>>
     /\ queue' = taken.queue
     /\ network' = IF queued.status = "Ok" THEN Append(network, Head(queued.queue["packet_in"]))
                   ELSE network
     /\ UNCHANGED <<epoch, device, frames, ids>>
     /\ UNCHANGED storageVars

\* Sending a packet: refused descriptors and full rings change nothing in Core;
\* Reset drops what the device holds.
PacketSend(operation, generation) ==
  LET d == [op |-> operation, generation |-> generation]
      taken == dynamic_core_request(queue, "packet_out", d)
      current == generation \in {0, epoch}
  IN /\ taken.status = "Ok"
     /\ queue' = taken.queue
     /\ rx' = IF current /\ operation = "Reset" THEN <<>> ELSE rx
     /\ UNCHANGED <<epoch, page0, packet, sequence, network, device, frames, ids>>
     /\ UNCHANGED storageVars

-----------------------------------------------------------------------------
\* The device list.
dynamic_device_request(wellformed) ==
  LET r == [id |-> ids + 1]
      taken == dynamic_core_request(queue, "device_request", r)
      answered == queue_dynamic_core_response(taken.queue, "device_response",
                    [id |-> r.id, status |-> "Ok"])
  IN /\ device = <<>> /\ ids < MaxIds /\ taken.status = "Ok"
     /\ ids' = ids + 1
     /\ queue' = IF wellformed THEN answered.queue ELSE taken.queue
     /\ device' = IF wellformed /\ answered.status = "Ok" THEN <<r>> ELSE <<>>
     /\ UNCHANGED epoch
     /\ UNCHANGED <<storageVars, networkVars>>

DeviceReceive ==
  LET taken == receive_dynamic(queue, "device_response")
  IN /\ taken.status = "Ok"
     /\ queue' = taken.queue /\ device' = <<>>
     /\ UNCHANGED <<epoch, ids>>
     /\ UNCHANGED <<storageVars, networkVars>>

\* The graph is torn down and rebuilt: registries, windows and services are new,
\* the disk is what it was, and Network is told of the link again.
GraphRestart ==
  /\ epoch < MaxEpoch
  /\ epoch' = epoch + 1
  /\ queue' = [e \in Endpoints |-> <<>>]
  /\ windows' = [c \in Clients |-> [s \in Slots |-> <<>>]]
  /\ table' = [c \in Clients |-> {}] /\ maps' = [c \in Clients |-> {}]
  /\ packet' = <<LinkState(epoch + 1, sequence)>> /\ sequence' = sequence + 1
  /\ storage' = StorageIdle /\ network' = <<>> /\ device' = <<>>
  /\ UNCHANGED <<disk, data, instance, rx, page0, frames, ids>>

Generations == {epoch} \cup (IF epoch > 1 THEN {epoch - 1} ELSE {})

Next ==
  \/ \E v \in Values : Fill(v)
  \/ \E op \in {"Read", "Write", "Flush", "Reopen", "Other"}, b \in Blocks, g \in Generations :
       StorageRequest(op, b, g)
  \/ StorageReceive
  \/ \E c \in Clients, page \in 0..STORAGE_CACHE_PAGES - 1,
        pages \in 0..STORAGE_MAP_WINDOW_PAGES + 1, g \in Generations : StorageMap(c, page, pages, g)
  \/ \E w \in storage.known, g \in Generations : StorageUnmap(w, g)
  \/ MapReceive
  \/ \E c \in Clients : ClientRestart(c)
  \/ FrameArrives
  \/ PacketReceive
  \/ \E op \in {"SubmitTx", "Reset", "RecycleRx"}, g \in Generations \cup {0} : PacketSend(op, g)
  \/ \E wellformed \in BOOLEAN : dynamic_device_request(wellformed)
  \/ DeviceReceive
  \/ GraphRestart

Spec == Init /\ [][Next]_vars

-----------------------------------------------------------------------------
TypeOK ==
  /\ epoch \in 1..MaxEpoch /\ ids \in 0..MaxIds /\ frames \in 0..MaxFrames
  /\ \A e \in Endpoints : Len(queue[e]) <= Capacity
  /\ disk \in [Blocks -> Values] /\ data \in Values

\* Core leaves no request behind in a queue it reads (dynamic_core_request), so
\* that the next call carries out its own request; and an answer waits exactly
\* while its service has the request with that id outstanding. An answered
\* transfer was carried out: a read's page holds the block, a write's block the
\* page.
AnswersMatchRequests ==
  /\ \A e \in ToCore : queue[e] = <<>>
  /\ (queue["storage_response"] # <<>>) <=> (storage.block # <<>>)
  /\ (queue["map_response"] # <<>>) <=> (storage.map # <<>>)
  /\ (queue["device_response"] # <<>>) <=> (device # <<>>)
  /\ storage.block # <<>> =>
       LET a == queue["storage_response"][1]
           r == storage.block[1]
       IN  /\ a.id = r.id
           /\ a.status = "Ok" /\ r.op = "Read" => data = disk[r.block]
           /\ a.status = "Ok" /\ r.op = "Write" => disk[r.block] = r.value
  /\ storage.map # <<>> => queue["map_response"][1].id = storage.map[1].id
  /\ device # <<>> => queue["device_response"][1].id = device[1].id

\* The windows Core records are the ones Storage knows of or is about to learn
\* of, less the one whose release it is about to learn of; a client's address
\* space shows exactly the windows granted to it, each page of the cache where
\* the grant put it, and its process record lists exactly those pages
\* (map_storage_window undoes a grant that fails half way).
WindowsExact ==
  LET granted == {[client |-> c, window |-> windows[c][s][1]] :
                    <<c, s>> \in {cs \in Clients \X Slots : windows[cs[1]][cs[2]] # <<>>}}
      settled == storage.map # <<>> /\ queue["map_response"][1].status = "Ok"
      arriving == IF settled /\ storage.map[1].op = "map"
                  THEN {[client |-> storage.map[1].client,
                         window |-> queue["map_response"][1].window[1]]} ELSE {}
      leaving == IF settled /\ storage.map[1].op = "unmap" THEN {storage.map[1].of} ELSE {}
  IN /\ granted = (storage.known \cup arriving) \ leaving
     /\ \A c \in Clients :
          LET shown == {g.window : g \in {x \in granted : x.client = c
                                            /\ x.window.to = instance[c]}}
          IN /\ table[c] = UNION {{<<w.target + i, w.page + i>> : i \in 0..w.pages - 1} : w \in shown}
             /\ maps[c] = UNION {WindowPages(w.target, w.pages) : w \in shown}

\* Network is told of the link first; then it gets every frame that reached the
\* device and was not dropped by a reset, in order, under strictly increasing
\* sequence numbers, and the packet page holds the frame of the last descriptor.
PacketsExact ==
  /\ \A i \in 1..Len(network) : (network[i].kind = "link") <=> (i = 1)
  /\ \A i, j \in 1..Len(network) : i < j =>
       /\ network[i].seq < network[j].seq
       /\ network[i].frame < network[j].frame
  /\ \A i \in 1..Len(network) : network[i].epoch = epoch
  /\ Len(network) > 1 => page0 = network[Len(network)].frame
  /\ \A i \in 1..Len(rx), j \in 1..Len(network) : network[j].frame < rx[i]
=============================================================================
