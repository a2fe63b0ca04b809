--------------------------- MODULE StorageService ---------------------------
(***************************************************************************)
(* The main loop of the storage image and what meets in it: the request    *)
(* rings of its clients, the package channel over which Core reads service *)
(* and program images, the catalog of users that arrives in chunks, and    *)
(* the one data page through which Core and Storage pass blocks.  A turn   *)
(* of the loop visits the five sections of run_filesystem in order.        *)
(***************************************************************************)
EXTENDS Naturals, Sequences, FiniteSets

CONSTANTS
    RingSlots,      \* Capacity of a client's rings.
    Chunks,         \* Chunks of a snapshot of the user catalog.
    MaxRequests,    \* Requests that Flow and Fetch each send.
    MaxChunks,      \* Chunks that User sends.
    MaxExchanges    \* Package exchanges Core starts.

None == 0     \* No exchange; for the data page, a block.
Nothing == <<>>   \* No response or mapping is pending.
User == "User"
Clients == {"Flow", "Fetch"}
Senders == Clients \cup {User}
Sections == {"package", "response", "map", "receive", "request"}

VARIABLES
    mode,       \* "start", "serve", or "error" for serve_storage_error
    at,         \* section of the loop
    inbox,      \* requests queued by each client
    outbox,     \* responses queued for each client
    sent,       \* requests each client has sent
    taken,      \* requests of each client that were dropped or answered
    response,   \* pending_response
    mapping,    \* pending_map
    package,    \* pending_package
    page,       \* the exchange whose bytes the data page holds
    core,       \* package_exchange: the request slot and the response slot
    ring,       \* package requests queued for Storage
    image,      \* what the last completed exchange copied, and for which request
    save,       \* USER_SAVE_ACTIVE, USER_SAVE_NEXT_OFFSET and USER_SAVE_BUFFER
    catalog,    \* USER_CATALOG_BUFFER, and the catalog on the volume
    user        \* the save User is engaged in: its number and next chunk

loop == <<mode, at>>
rings == <<inbox, outbox, sent, taken>>
exchange == <<core, ring, image>>
vars == <<loop, rings, response, mapping, package, page, exchange, save, catalog, user>>

NoSave == [active |-> FALSE, next |-> 0, buffer |-> <<>>]

Init ==
    /\ mode = "start" /\ at = "package"
    /\ inbox = [c \in Senders |-> <<>>] /\ outbox = [c \in Senders |-> <<>>]
    /\ sent = [c \in Senders |-> 0] /\ taken = [c \in Senders |-> 0]
    /\ response = Nothing /\ mapping = Nothing /\ package = None /\ page = None
    /\ core = [request |-> None, answer |-> None, last |-> 0]
    /\ ring = <<>> /\ image = [request |-> None, bytes |-> None]
    /\ save = NoSave /\ catalog = [memory |-> <<>>, disk |-> <<>>]
    /\ user = [save |-> 1, chunk |-> 0]

Next5 == [package |-> "response", response |-> "map", map |-> "receive",
          receive |-> "request", request |-> "package"]
Advance == at' = Next5[at] /\ UNCHANGED mode

(***************************************************************************)
(* Startup: discover the volume, open it, or format blank media, and make  *)
(* sure that there is a user catalog.                                      *)
(***************************************************************************)
Discovered == {"found", "lost"}
Media == {"valid", "blank", "corrupt"}

Startup(discovered, media, steps) ==
    LET usable == discovered = "found" /\ media # "corrupt" /\ steps
    IN  /\ mode = "start"
        /\ mode' = IF usable THEN "serve" ELSE "error"
        /\ catalog' = IF usable THEN [memory |-> <<0>>, disk |-> <<0>>] ELSE catalog
        /\ UNCHANGED <<at, rings, response, mapping, package, page, exchange, save, user>>

(***************************************************************************)
(* The clients.                                                            *)
(***************************************************************************)
Kinds == {"block", "plain", "map", "unmap", "malformed"}

Send(c, kind) ==
    /\ sent[c] < MaxRequests /\ Len(inbox[c]) < RingSlots
    /\ inbox' = [inbox EXCEPT ![c] = Append(@, [kind |-> kind, id |-> sent[c] + 1])]
    /\ sent' = [sent EXCEPT ![c] = @ + 1]
    /\ UNCHANGED <<loop, outbox, taken, response, mapping, package, page, exchange, save, catalog, user>>

Receive(c) ==
    /\ c # User /\ outbox[c] # <<>>
    /\ outbox' = [outbox EXCEPT ![c] = Tail(@)]
    /\ UNCHANGED <<loop, inbox, sent, taken, response, mapping, package, page, exchange, save, catalog, user>>

(* User writes its catalog chunk by chunk, each after the answer to the    *)
(* one before; after an error, or when it was restarted, it starts again.  *)
UserSend ==
    /\ sent[User] = taken[User] /\ outbox[User] = <<>>
    /\ sent[User] < MaxChunks
    /\ inbox' = [inbox EXCEPT ![User] =
                   Append(@, [kind |-> "save", save |-> user.save, offset |-> user.chunk,
                              id |-> sent[User] + 1])]
    /\ sent' = [sent EXCEPT ![User] = @ + 1]
    /\ UNCHANGED <<loop, outbox, taken, response, mapping, package, page, exchange, save, catalog, user>>

UserReceive ==
    /\ outbox[User] # <<>>
    /\ outbox' = [outbox EXCEPT ![User] = Tail(@)]
    /\ user' = IF Head(outbox[User]).ok /\ user.chunk + 1 < Chunks
                 THEN [user EXCEPT !.chunk = @ + 1]
                 ELSE [save |-> user.save + 1, chunk |-> 0]
    /\ UNCHANGED <<loop, inbox, sent, taken, response, mapping, package, page, exchange, save, catalog>>

UserRestart ==
    /\ user.chunk > 0 /\ sent[User] = taken[User] /\ outbox[User] = <<>>
    /\ user' = [save |-> user.save + 1, chunk |-> 0]
    /\ UNCHANGED <<loop, rings, response, mapping, package, page, exchange, save, catalog>>

(***************************************************************************)
(* The loop.  send_package_response gives a response up unless the ring    *)
(* was full; the main loop keeps a client's response until it was sent.    *)
(***************************************************************************)
SendPackage ==
    /\ mode # "start" /\ at = "package" /\ Advance
    /\ \/ package = None /\ UNCHANGED <<package, core>>
       \/ package # None /\ core.answer # None /\ UNCHANGED <<package, core>>
       \/ /\ package # None /\ core.answer = None
          /\ package' = None
          /\ core' = IF core.request = package THEN [core EXCEPT !.answer = package] ELSE core
    /\ UNCHANGED <<rings, response, mapping, page, ring, image, save, catalog, user>>

Sendable == response # Nothing => Len(outbox[response.client]) < RingSlots

SendResponse ==
    /\ mode # "start" /\ at = "response" /\ Advance
    /\ \/ /\ response = Nothing \/ ~Sendable
          /\ UNCHANGED <<outbox, taken, response>>
       \/ /\ response # Nothing /\ Sendable
          /\ outbox' = [outbox EXCEPT ![response.client] = Append(@, response)]
          /\ taken' = [taken EXCEPT ![response.client] = @ + 1]
          /\ response' = Nothing
    /\ UNCHANGED <<inbox, sent, mapping, package, page, exchange, save, catalog, user>>

(* The first visit sends the request to Core, which carries it out and     *)
(* queues its answer at once; the second receives the answer.  A channel   *)
(* that has failed ends the request with an error.                         *)
StepMap(fails) ==
    /\ mode # "start" /\ at = "map" /\ Advance
    /\ \/ mapping = Nothing /\ ~fails /\ UNCHANGED <<mapping, response>>
       \/ /\ mapping # Nothing /\ ~mapping.sent /\ ~fails
          /\ mapping' = [mapping EXCEPT !.sent = TRUE] /\ UNCHANGED response
       \/ /\ mapping # Nothing /\ (fails \/ mapping.sent)
          /\ mapping' = Nothing
          /\ response' = [client |-> mapping.client, id |-> mapping.id, ok |-> ~fails]
    /\ UNCHANGED <<rings, package, page, exchange, save, catalog, user>>

(* handle_package_request: a Read leaves the bytes in the data page.       *)
ReceivePackage(read) ==
    /\ mode # "start" /\ at = "receive" /\ Advance
    /\ \/ (ring = <<>> \/ response # Nothing \/ package # None) /\ ~read
          /\ UNCHANGED <<ring, package, page>>
       \/ /\ ring # <<>> /\ response = Nothing /\ package = None
          /\ ring' = Tail(ring) /\ package' = Head(ring)
          /\ page' = IF read /\ mode = "serve" THEN Head(ring) ELSE page
    /\ UNCHANGED <<rings, response, mapping, core, image, save, catalog, user>>

(* handle_user_storage_request: the chunks of a save arrive in order, the  *)
(* last one replaces the catalog, and anything else abandons the save.  A  *)
(* save that fails may have reached the volume or not.                     *)
Outcomes == {"saved", "lost", "unknown"}

SaveBaseMutant(request) ==
    IF request.offset = 0 THEN [active |-> TRUE, next |-> 0, buffer |-> save.buffer] ELSE save

(* A chunk at offset zero begins a save, and forgets the one before.       *)
SaveBase(request) ==
    IF request.offset = 0 THEN [active |-> TRUE, next |-> 0, buffer |-> <<>>] ELSE save

SaveChunk(request, outcome) ==
    LET base   == SaveBase(request)
        takes  == base.active /\ request.offset = base.next /\ request.offset < Chunks
        buffer == Append(base.buffer, request.save)
        ends   == request.offset + 1 = Chunks
        whole  == takes /\ ends
    IN  /\ save' = IF takes /\ ~ends
                     THEN [active |-> TRUE, next |-> base.next + 1, buffer |-> buffer]
                     ELSE NoSave
        /\ catalog' = [memory |-> IF whole /\ outcome = "saved" THEN buffer ELSE catalog.memory,
                       disk   |-> IF whole /\ outcome # "lost" THEN buffer ELSE catalog.disk]
        /\ response' = [client |-> User, id |-> request.id,
                        ok |-> takes /\ (ends => outcome = "saved")]

Drop(c) == taken' = [taken EXCEPT ![c] = @ + 1]

FileRequest(c, request) ==
    /\ response' = IF request.kind \in {"block", "plain"} \/ mode = "error"
                     THEN [client |-> c, id |-> request.id, ok |-> mode = "serve"]
                     ELSE Nothing
    /\ mapping' = IF request.kind \in {"map", "unmap"} /\ mode = "serve"
                    THEN [client |-> c, id |-> request.id, sent |-> FALSE] ELSE mapping
    /\ page' = IF request.kind = "block" /\ mode = "serve" THEN None ELSE page

IdleMutant == response = Nothing /\ package = None

Idle == response = Nothing /\ package = None /\ mapping = Nothing

(* User is served first, then Flow, then Fetch; a request that cannot be   *)
(* decoded is dropped.                                                     *)
Before == [User |-> {}, Flow |-> {"User"}, Fetch |-> {"User", "Flow"}]

HandleRequest(c, outcome) ==
    /\ mode # "start" /\ at = "request" /\ Advance
    /\ \/ /\ ~Idle \/ \A d \in Senders : inbox[d] = <<>>
          /\ c = User /\ outcome = "lost"
          /\ UNCHANGED <<inbox, taken, response, mapping, page, save, catalog>>
       \/ /\ Idle /\ inbox[c] # <<>> /\ \A d \in Before[c] : inbox[d] = <<>>
          /\ (outcome = "lost" \/ c = User)
          /\ inbox' = [inbox EXCEPT ![c] = Tail(@)]
          /\ LET request == Head(inbox[c])
             IN  CASE request.kind = "malformed" ->
                        Drop(c) /\ UNCHANGED <<response, mapping, page, save, catalog>>
                   [] request.kind = "save" /\ mode = "serve" ->
                        /\ SaveChunk(request, outcome)
                        /\ page' = IF request.offset + 1 = Chunks THEN None ELSE page
                        /\ UNCHANGED <<taken, mapping>>
                   [] OTHER ->
                        FileRequest(c, request) /\ UNCHANGED <<taken, save, catalog>>
    /\ UNCHANGED <<outbox, sent, package, exchange, user>>

(***************************************************************************)
(* package_exchange in Core: one request outstanding, polled with the      *)
(* runtime unlocked in between, and given up after a number of polls.      *)
(***************************************************************************)
StartExchange ==
    /\ core.request = None /\ core.last < MaxExchanges
    /\ LET id == core.last + 1
       IN  IF ring = <<>>
             THEN /\ core' = [request |-> id, answer |-> None, last |-> id]
                  /\ ring' = <<id>>
             ELSE /\ core' = [request |-> None, answer |-> None, last |-> id]
                  /\ UNCHANGED ring
    /\ UNCHANGED <<loop, rings, response, mapping, package, page, image, save, catalog, user>>

FinishExchange ==
    /\ core.request # None /\ core.answer = core.request
    /\ core' = [core EXCEPT !.request = None, !.answer = None]
    /\ image' = [request |-> core.request, bytes |-> page]
    /\ UNCHANGED <<loop, rings, response, mapping, package, page, ring, save, catalog, user>>

AbandonExchange ==
    /\ core.request # None /\ core.answer = None
    /\ core' = [core EXCEPT !.request = None]
    /\ UNCHANGED <<loop, rings, response, mapping, package, page, ring, image, save, catalog, user>>

Loop ==
    \/ SendPackage \/ SendResponse
    \/ \E fails \in BOOLEAN : StepMap(fails)
    \/ \E read \in BOOLEAN : ReceivePackage(read)
    \/ \E c \in Senders, outcome \in Outcomes : HandleRequest(c, outcome)

Next ==
    \/ \E d \in Discovered, m \in Media, steps \in BOOLEAN : Startup(d, m, steps)
    \/ \E c \in Clients, kind \in Kinds : Send(c, kind)
    \/ \E c \in Clients : Receive(c)
    \/ UserSend \/ UserReceive \/ UserRestart
    \/ Loop
    \/ StartExchange \/ FinishExchange \/ AbandonExchange

Spec == Init /\ [][Next]_vars

-----------------------------------------------------------------------------
Places == {None} \cup (1..MaxExchanges)

(* The loop is in one of its sections, and holds at most one response.     *)
TypeOK ==
    /\ mode \in {"start", "serve", "error"} /\ at \in Sections
    /\ \A c \in Senders : Len(inbox[c]) <= RingSlots /\ Len(outbox[c]) <= RingSlots
    /\ package \in Places /\ page \in Places
    /\ core.request \in Places /\ core.answer \in Places
    /\ response # Nothing => mapping = Nothing
    /\ save.next < Chunks

Owed(c) == (IF response # Nothing /\ response.client = c THEN 1 ELSE 0)
           + (IF mapping # Nothing /\ mapping.client = c THEN 1 ELSE 0)

(* Every request a client has sent is still queued, is the one the loop    *)
(* owes an answer for, or was answered or dropped: a pending response is   *)
(* never overwritten by the completion of a mapping or by another client's *)
(* request.                                                                *)
NothingUnanswered ==
    \A c \in Senders : sent[c] = Len(inbox[c]) + Owed(c) + taken[c]

(* The catalog in memory and the one on the volume are each one save,      *)
(* whole: chunks of a save that User abandoned or that failed never mix    *)
(* with those of the next.  What a load returns is on the volume, or was   *)
(* replaced there by a later save that User was told had failed.           *)
CatalogIsOneSave ==
    LET whole(s) == /\ Len(s) \in {0, 1, Chunks}
                    /\ \A i, j \in DOMAIN s : s[i] = s[j]
    IN  /\ whole(catalog.memory) /\ whole(catalog.disk)
        /\ mode = "serve" => catalog.disk[1] >= catalog.memory[1]

(* What Core copies out of the data page for a package read is what        *)
(* Storage put there for that request.                                     *)
PackageBytesExact ==
    image.bytes = image.request
=============================================================================
