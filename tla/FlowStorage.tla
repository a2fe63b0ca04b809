---------------------------- MODULE FlowStorage ----------------------------
(***************************************************************************)
(* The Storage and Package clients of the Flow service, driven against the *)
(* transactions and the staged write of the Storage service.               *)
(*                                                                         *)
(* A file command is a small state machine over request/response exchanges *)
(* (services/flow/src/client/storage.rs): Begin, one operation, Commit; or *)
(* a staged write, chunk by chunk; or a paged read.  Package commands use  *)
(* the same port with a request counter of their own.  Storage holds one   *)
(* transaction and one staged write for all its clients; Fetch stages its  *)
(* downloads through the same slot.  Cancellation may come before the      *)
(* request is sent, while it is in flight, or after the answer is queued.  *)
(* Paths and bytes are abstracted to the number of chunks and pages.       *)
(***************************************************************************)
EXTENDS Integers, Sequences

CONSTANTS
    Works,        \* StorageWork values the commands use
    MaxChunks,    \* chunks in the longest staged write
    Pages,        \* pages of the file or directory a read walks
    ResultPages,  \* pages the result buffer holds (MAX_OUTPUT_BYTES)
    IdMod,        \* request and transaction numbers wrap to 1 after this one
    MaxCommands,  \* commands started in a run
    MaxRestarts   \* graph restarts in a run

VARIABLES
    client,    \* StorageClient
    packages,  \* PackageClient
    request,   \* Flow -> Storage queue, one slot
    response,  \* Storage -> Flow queue, one slot
    dead,      \* the Storage peer is gone: sends and receives fail
    storage,   \* StorageApi: the transaction, the staged write, their counters
    truth,     \* history: what really became of the current command
    commands,  \* commands started
    restarts   \* graph restarts

vars == <<client, packages, request, response, dead, storage, truth, commands, restarts>>

Mutating == {"Touch", "Write", "TouchWrite", "Remove", "Move"}

NewClient == [work |-> "List", phase |-> "Idle", busy |-> FALSE, done |-> FALSE, sent |-> FALSE,
              id |-> 1, txn |-> 0, cursor |-> 0, data |-> 0, got |-> 0,
              result |-> "none", failure |-> "Invalid", cancelled |-> FALSE]

NewPackages == [work |-> "none", active |-> FALSE, done |-> FALSE, sent |-> FALSE, id |-> 1,
                cursor |-> 0, got |-> 0, result |-> "none", cancelled |-> FALSE]

NewStorage == [active |-> 0, staged |-> 0, owner |-> "none", len |-> 0,
               next |-> 1, nextStage |-> 1]

NoTruth == [commits |-> 0, cause |-> "none", cancels |-> FALSE, lost |-> FALSE]

Init ==
    /\ client = NewClient
    /\ packages = NewPackages
    /\ request = <<>> /\ response = <<>> /\ dead = FALSE
    /\ storage = NewStorage
    /\ truth = NoTruth
    /\ commands = 0 /\ restarts = 0

Following(id) == IF id = IdMod THEN 1 ELSE id + 1

-----------------------------------------------------------------------------
(* StorageClient *)

next_request(c) == [c EXCEPT !.id = Following(c.id), !.sent = FALSE]

fail(c, status) ==
    [c EXCEPT !.result = IF c.cancelled THEN "cancelled" ELSE status,
              !.cancelled = FALSE, !.phase = "Idle", !.busy = FALSE, !.done = TRUE]

succeed(c) == [c EXCEPT !.result = "ok", !.phase = "Idle", !.busy = FALSE, !.done = TRUE]

FirstPhase(work) ==
    CASE work = "List" -> "List"
      [] work = "Cat" -> "Read"
      [] work = "TouchWrite" -> "StageBegin"
      [] OTHER -> "Begin"

start(work, chunks) ==
    [client EXCEPT !.work = work, !.phase = FirstPhase(work), !.busy = TRUE, !.sent = FALSE,
                   !.txn = 0, !.cursor = 0, !.data = chunks, !.got = 0, !.cancelled = FALSE,
                   !.failure = IF work = "AbortProof" THEN "Ok" ELSE client.failure]

operation_aborts(c) == c.work = "AbortProof"

Staging == {"StageBegin", "StageChunk", "StageCommit"}

cancel(c) ==
    LET stopped == [c EXCEPT !.cancelled = TRUE, !.failure = "Unsupported"]
    IN  IF c.sent THEN stopped
        ELSE IF c.txn = 0 THEN fail(stopped, "Unsupported")
        ELSE next_request([stopped EXCEPT
                 !.phase = IF c.phase \in Staging THEN "StageAbort" ELSE "Abort"])

Message(c) == [from |-> "files", id |-> c.id, op |-> c.phase, txn |-> c.txn, offset |-> c.cursor]

\* A refused chunk or staged commit ends the command without closing the stage.
RefusedMutant(c, status) ==
    IF c.phase = "Operation" /\ c.txn # 0
    THEN next_request([c EXCEPT !.failure = status, !.phase = "Abort"])
    ELSE fail(c, status)

(* handle_response: what an answer to a command nobody cancelled does. *)
Refused(c, status) ==
    IF c.phase \in {"Operation", "StageChunk", "StageCommit"} /\ c.txn # 0
    THEN next_request([c EXCEPT !.failure = status,
             !.phase = IF c.phase = "Operation" THEN "Abort" ELSE "StageAbort"])
    ELSE fail(c, status)

Opened(c, txn, phase) ==
    IF txn = 0 THEN fail(c, "Invalid") ELSE next_request([c EXCEPT !.txn = txn, !.phase = phase])

Paged(c, more) ==
    LET grown == [c EXCEPT !.cursor = @ + 1, !.got = IF @ < ResultPages THEN @ + 1 ELSE @]
    IN  IF more /\ grown.got < ResultPages THEN next_request(grown) ELSE succeed(grown)

handle_response(c, r) ==
    CASE r.status # "Ok" -> Refused(c, r.status)
      [] c.phase = "Begin" -> Opened(c, r.txn, "Operation")
      [] c.phase = "StageBegin" -> Opened(c, r.txn, IF c.data = 0 THEN "StageCommit" ELSE "StageChunk")
      [] c.phase = "StageChunk" ->
            next_request([c EXCEPT !.cursor = @ + 1,
                !.phase = IF c.cursor + 1 >= c.data THEN "StageCommit" ELSE "StageChunk"])
      [] c.phase = "Operation" ->
            next_request([c EXCEPT !.phase = IF operation_aborts(c) THEN "Abort" ELSE "Commit"])
      [] c.phase \in {"Commit", "StageCommit"} -> succeed(c)
      [] c.phase \in {"Abort", "StageAbort"} -> fail(c, c.failure)
      [] c.phase \in {"Read", "List"} -> Paged(c, r.more)
      [] OTHER -> fail(c, "Invalid")

\* A cancelled command ends at once, whatever transaction the answer opened.
ReceivedMutant(c, r) ==
    LET heard == [c EXCEPT !.sent = FALSE]
    IN  IF r.id # c.id THEN fail(heard, "Stale")
        ELSE IF c.cancelled THEN fail(heard, "Unsupported")
        ELSE handle_response(heard, r)

(* drive, an answer received: matched by id, then cancelled or handled. *)
Received(c, r) ==
    LET heard == [c EXCEPT !.sent = FALSE]
        adopted == IF c.txn = 0 THEN [heard EXCEPT !.txn = r.txn] ELSE heard
    IN  CASE r.id # c.id -> fail(heard, "Stale")
          [] r.id = c.id /\ c.cancelled ->
                IF adopted.txn = 0 THEN fail(adopted, "Unsupported")
                ELSE next_request([adopted EXCEPT !.phase = "Abort"])
          [] OTHER -> handle_response(heard, r)

-----------------------------------------------------------------------------
(* PackageClient *)

PackageFail(p, status) ==
    [p EXCEPT !.result = IF p.cancelled THEN "cancelled" ELSE status,
              !.cancelled = FALSE, !.active = FALSE, !.done = TRUE]

PackageReceived(p, r) ==
    LET heard == [p EXCEPT !.sent = FALSE]
    IN  CASE r.id # p.id /\ p.cancelled -> p
          [] r.id # p.id /\ ~p.cancelled -> PackageFail(heard, "Stale")
          [] r.id = p.id /\ p.cancelled -> PackageFail(heard, "Unsupported")
          [] r.id = p.id /\ ~p.cancelled /\ r.status # "Ok" -> PackageFail(heard, r.status)
          [] r.id = p.id /\ ~p.cancelled /\ r.status = "Ok" /\ r.more ->
                IF p.got + 1 >= ResultPages THEN PackageFail(heard, "Invalid")
                ELSE [heard EXCEPT !.cursor = @ + 1, !.got = @ + 1, !.id = Following(p.id)]
          [] OTHER -> [heard EXCEPT !.got = @ + 1, !.result = "ok", !.active = FALSE, !.done = TRUE]

-----------------------------------------------------------------------------
(* StorageApi: begin, commit, abort and the staged write; any request may   *)
(* also be refused by the name space below it.                              *)

Answer(m, status, txn, more) == <<[id |-> m.id, status |-> status, txn |-> txn, more |-> more]>>

begin(m) ==
    IF storage.active # 0
    THEN /\ response' = Answer(m, "Busy", 0, FALSE) /\ UNCHANGED storage
    ELSE /\ response' = Answer(m, "Ok", storage.next, FALSE)
         /\ storage' = [storage EXCEPT !.active = storage.next, !.next = Following(@)]

Transacted(m) ==
    CASE storage.active = 0 -> "NoTransaction"
      [] storage.active # 0 /\ storage.active # m.txn -> "Stale"
      [] OTHER -> "Ok"

commit(m) ==
    LET known == Transacted(m) IN
    /\ \E status \in IF known = "Ok" THEN {"Ok", "Capacity"} ELSE {known} :
          /\ response' = Answer(m, status, m.txn, FALSE)
          /\ truth' = CASE status = "Ok" -> [truth EXCEPT !.commits = @ + 1]
                        [] status # "Ok" /\ truth.cause = "none" -> [truth EXCEPT !.cause = status]
                        [] OTHER -> truth
    /\ storage' = IF known = "Ok" THEN [storage EXCEPT !.active = 0] ELSE storage

abort(m) ==
    /\ response' = Answer(m, Transacted(m), m.txn, FALSE)
    /\ storage' = IF Transacted(m) = "Ok" THEN [storage EXCEPT !.active = 0] ELSE storage

Operate(m) ==
    \E status \in IF Transacted(m) = "Ok" THEN {"Ok", "NotFound"} ELSE {Transacted(m)} :
        /\ response' = Answer(m, status, m.txn, FALSE)
        /\ truth' = IF status = "Ok" THEN truth ELSE [truth EXCEPT !.cause = status]
        /\ UNCHANGED storage

stage_begin(m) ==
    IF storage.staged # 0
    THEN /\ response' = Answer(m, "Busy", 0, FALSE) /\ UNCHANGED storage
    ELSE /\ response' = Answer(m, "Ok", storage.nextStage, FALSE)
         /\ storage' = [storage EXCEPT !.staged = storage.nextStage, !.owner = "Flow", !.len = 0,
                                       !.nextStage = Following(@)]

Staged(m) ==
    CASE storage.staged = 0 -> "NoTransaction"
      [] storage.staged # 0 /\ storage.staged # m.txn -> "Stale"
      [] OTHER -> "Ok"

stage_chunk(m) ==
    LET taken == IF Staged(m) = "Ok" THEN IF m.offset = storage.len THEN {"Ok", "TooLarge"} ELSE {"Invalid"}
                 ELSE {Staged(m)}
    IN  \E status \in taken :
            /\ response' = Answer(m, status, m.txn, FALSE)
            /\ storage' = IF status = "Ok" THEN [storage EXCEPT !.len = @ + 1] ELSE storage
            /\ truth' = IF status = "Ok" THEN truth ELSE [truth EXCEPT !.cause = status]

stage_commit(m) ==
    LET known == Staged(m) IN
    /\ \E status \in IF known = "Ok" THEN {"Ok", "Capacity"} ELSE {known} :
          /\ response' = Answer(m, status, m.txn, FALSE)
          /\ truth' = IF status = "Ok" THEN [truth EXCEPT !.commits = @ + 1]
                      ELSE [truth EXCEPT !.cause = status]
    /\ storage' = IF known = "Ok" THEN [storage EXCEPT !.staged = 0, !.owner = "none"] ELSE storage

stage_abort(m) ==
    /\ response' = Answer(m, Staged(m), m.txn, FALSE)
    /\ storage' = IF Staged(m) = "Ok" THEN [storage EXCEPT !.staged = 0, !.owner = "none"] ELSE storage

List(m) ==
    \E status \in {"Ok", "NotFound"} :
        /\ response' = Answer(m, status, 0, status = "Ok" /\ m.offset + 1 < Pages)
        /\ truth' = IF status = "Ok" THEN truth ELSE [truth EXCEPT !.cause = status]
        /\ UNCHANGED storage

(* One request taken from the queue and answered. *)
Serve ==
    /\ ~dead /\ request # <<>> /\ response = <<>>
    /\ request' = <<>>
    /\ LET m == Head(request)
       IN  CASE m.op = "Begin" -> begin(m) /\ truth' = IF storage.active = 0 THEN truth
                                                      ELSE [truth EXCEPT !.cause = "Busy"]
             [] m.op = "Commit" -> commit(m)
             [] m.op = "Abort" -> abort(m) /\ UNCHANGED truth
             [] m.op = "Operation" -> Operate(m)
             [] m.op = "StageBegin" -> stage_begin(m) /\ truth' = IF storage.staged = 0 THEN truth
                                                                 ELSE [truth EXCEPT !.cause = "Busy"]
             [] m.op = "StageChunk" -> stage_chunk(m)
             [] m.op = "StageCommit" -> stage_commit(m)
             [] m.op = "StageAbort" -> stage_abort(m) /\ UNCHANGED truth
             [] OTHER -> List(m)
    /\ UNCHANGED <<client, packages, dead, commands, restarts>>

(* Fetch opens a staged write for a download, and ends it. *)
FetchStages ==
    /\ ~dead
    /\ \/ /\ storage.staged = 0
          /\ storage' = [storage EXCEPT !.staged = storage.nextStage, !.owner = "Fetch", !.len = 0,
                                        !.nextStage = Following(@)]
       \/ /\ storage.owner = "Fetch"
          /\ storage' = [storage EXCEPT !.staged = 0, !.owner = "none"]
    /\ UNCHANGED <<client, packages, request, response, dead, truth, commands, restarts>>

-----------------------------------------------------------------------------
(* Flow: one command at a time *)

Idle == ~client.busy /\ ~client.done /\ ~packages.active /\ ~packages.done

StartFile ==
    /\ Idle /\ commands < MaxCommands
    /\ \E work \in Works, chunks \in 0..MaxChunks :
          /\ work = "TouchWrite" \/ chunks = 0
          /\ client' = start(work, chunks)
    /\ commands' = commands + 1
    /\ truth' = NoTruth
    /\ UNCHANGED <<packages, request, response, dead, storage, restarts>>

StartPackage ==
    /\ Idle /\ commands < MaxCommands
    /\ packages' = [packages EXCEPT !.work = "List", !.active = TRUE, !.sent = FALSE,
                                    !.cursor = 0, !.got = 0, !.cancelled = FALSE]
    /\ commands' = commands + 1
    /\ truth' = NoTruth
    /\ UNCHANGED <<client, request, response, dead, storage, restarts>>

Cancel ==
    /\ \/ /\ client.busy /\ ~client.cancelled
          /\ client' = cancel(client) /\ UNCHANGED packages
       \/ /\ packages.active /\ ~packages.cancelled
          /\ packages' = [packages EXCEPT !.cancelled = TRUE] /\ UNCHANGED client
    /\ truth' = [truth EXCEPT !.cancels = TRUE]
    /\ UNCHANGED <<request, response, dead, storage, commands, restarts>>

(* drive: a send that finds the queue full waits; a dead peer ends the command. *)
Drive ==
    /\ client.busy
    /\ \/ /\ dead /\ client' = fail([client EXCEPT !.sent = FALSE], "Unavailable")
          /\ truth' = [truth EXCEPT !.lost = TRUE]
          /\ UNCHANGED <<request, response>>
       \/ /\ ~dead /\ ~client.sent /\ request = <<>>
          /\ request' = <<Message(client)>>
          /\ client' = [client EXCEPT !.sent = TRUE]
          /\ UNCHANGED <<response, truth>>
       \/ /\ ~dead /\ client.sent /\ response # <<>>
          /\ client' = Received(client, Head(response))
          /\ response' = <<>>
          /\ UNCHANGED <<request, truth>>
    /\ UNCHANGED <<packages, dead, storage, commands, restarts>>

DrivePackage ==
    /\ packages.active
    /\ \/ /\ packages.cancelled /\ ~packages.sent
          /\ packages' = PackageFail(packages, "Unsupported")
          /\ UNCHANGED <<request, response, truth>>
       \/ /\ dead /\ ~(packages.cancelled /\ ~packages.sent)
          /\ packages' = PackageFail([packages EXCEPT !.sent = FALSE], "Unavailable")
          /\ truth' = [truth EXCEPT !.lost = TRUE]
          /\ UNCHANGED <<request, response>>
       \/ /\ ~dead /\ ~packages.cancelled /\ ~packages.sent /\ request = <<>>
          /\ request' = <<[from |-> "packages", id |-> packages.id, op |-> "PackageList",
                           txn |-> 0, offset |-> packages.cursor]>>
          /\ packages' = [packages EXCEPT !.sent = TRUE]
          /\ UNCHANGED <<response, truth>>
       \/ /\ ~dead /\ packages.sent /\ response # <<>>
          /\ packages' = PackageReceived(packages, Head(response))
          /\ response' = <<>>
          /\ UNCHANGED <<request, truth>>
    /\ UNCHANGED <<client, dead, storage, commands, restarts>>

take_result ==
    /\ \/ client.done /\ client' = [client EXCEPT !.done = FALSE] /\ UNCHANGED packages
       \/ packages.done /\ packages' = [packages EXCEPT !.done = FALSE] /\ UNCHANGED client
    /\ UNCHANGED <<request, response, dead, storage, truth, commands, restarts>>

(* Storage dies: its queues and everything it held are gone; the graph      *)
(* restart that follows brings up a new Storage and a new Flow.             *)
StorageDies ==
    /\ ~dead /\ restarts < MaxRestarts
    /\ dead' = TRUE /\ request' = <<>> /\ response' = <<>>
    /\ storage' = NewStorage
    /\ UNCHANGED <<client, packages, truth, commands, restarts>>

Restart ==
    /\ dead
    /\ dead' = FALSE /\ restarts' = restarts + 1
    /\ client' = NewClient /\ packages' = NewPackages /\ truth' = NoTruth
    /\ UNCHANGED <<request, response, storage, commands>>

Next ==
    \/ StartFile \/ StartPackage \/ Cancel
    \/ Drive \/ DrivePackage \/ take_result
    \/ Serve \/ FetchStages
    \/ StorageDies \/ Restart

Spec == Init /\ [][Next]_vars

FairSpec == Spec /\ WF_vars(Drive) /\ WF_vars(DrivePackage) /\ WF_vars(take_result) /\ WF_vars(Serve)

-----------------------------------------------------------------------------

(* The clients, queues and service hold values of their shapes. *)
TypeOK ==
    /\ client.id \in 1..IdMod /\ packages.id \in 1..IdMod
    /\ Len(request) <= 1 /\ Len(response) <= 1
    /\ storage.owner \in {"none", "Flow", "Fetch"}

(* What a finished file command reports is what happened: "ok" exactly when *)
(* one commit was made (none for the abort proof and for reads), and a      *)
(* failure only when none was.  Commands whose peer died are excepted.      *)
OutcomeIsTrue ==
    client.done /\ ~truth.lost =>
        /\ truth.commits <= 1
        /\ client.result = "ok" => truth.commits = IF client.work \in Mutating THEN 1 ELSE 0
        /\ client.result \notin {"ok", "cancelled"} => truth.commits = 0

(* A client that has ended its command holds nothing at Storage: no         *)
(* transaction and no staged write of Flow's is open, so the next command   *)
(* does not find Storage busy with a dead command's work.                   *)
NothingLeftOpen ==
    ~client.busy /\ ~dead => storage.active = 0 /\ storage.owner # "Flow"

(* An answer is only ever taken for the request it answers: the two clients *)
(* share a port, and no answer outlives the command that asked.             *)
NoLateAnswer ==
    Idle => request = <<>> /\ response = <<>>

(* The user reads why a command failed: the first refusal of Storage is the *)
(* text staged.                                                             *)
CauseReported ==
    client.done /\ ~truth.lost /\ ~truth.cancels /\ client.result # "ok" /\ client.work # "AbortProof"
        => client.result = truth.cause

(* Ctrl-C ends the foreground command. *)
CancelledEnds == client.cancelled ~> ~client.busy

(* A command nobody cancels ends. *)
CommandEnds == client.busy ~> (~client.busy \/ client.cancelled)
=============================================================================
