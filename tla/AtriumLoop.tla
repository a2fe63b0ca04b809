------------------------------ MODULE AtriumLoop ------------------------------
(***************************************************************************)
(* The Atrium image's event loop: how a window comes and goes between the  *)
(* clients that want one (Terminal, System, a program), Atrium's table of  *)
(* surfaces and Display, which owns the pixels.                            *)
(*                                                                         *)
(* Everything is asynchronous.  A surface is asked of Display over a       *)
(* bounded queue and exists for Atrium only once the answer comes back;    *)
(* the client learns of it from a response that waits in ONE register and  *)
(* goes out over the channel a SECOND register names.  pc walks the stages *)
(* of one pass of the loop; Display, Shell and the clients interleave with *)
(* every stage.  Where a surface lies on the screen is in AtriumLayout,    *)
(* programs coming and going in ProgramSurfaces.                           *)
(***************************************************************************)
EXTENDS Integers, Sequences, FiniteSets, SequencesExt

CONSTANTS
    MAX_ATRIUM_SURFACES,          \* Atrium's table of surfaces
    MAX_PENDING_SURFACE_COMMANDS, \* its queue of commands for Display
    Ids,                  \* the handles Display gives out, in this order
    Slots,                \* messages a channel holds
    Active,               \* the clients that run
    MaxChanges            \* the bound on what the user and Shell start, and on reports

VARIABLES
    at,         \* Atrium's registers
    io,         \* [q: SurfaceCommandQueue, c: the channel to Display]
    answers,    \* the channel from Display
    shown,      \* Display's live surfaces
    fresh,      \* the next handle Display gives out
    requests,   \* what each client has asked, not yet received
    inbox,      \* what Atrium has answered each client
    client,     \* [knows, asked, id, live] of each client
    context,    \* Shell's session contexts, not yet received
    pc,         \* the stage of the loop
    changes,    \* how much has been started
    forgotten,  \* handles whose Destroy or whose answer was dropped
    crossed,    \* handles some client was told of in error
    untold,     \* handles their own client is never told of
    overtaken   \* handles whose revoke left before their admission

vars == <<at, io, answers, shown, fresh, requests, inbox, client, context, pc,
          changes, forgotten, crossed, untold, overtaken>>

None == "none"
Clients == {"Terminal", "System", "Prog"}

\* One request of a client: ref names the pane a Terminal report describes.
Request(c, ref) == [from |-> c, id |-> client[c].id, ref |-> ref]

\* One response: `to` is the client it is meant for.
Response(to, id, op, ref, sized) ==
    [to |-> to, id |-> id, op |-> op, ref |-> ref, sized |-> sized]

AtriumSurfaceResponse == {"Ok", "Fail", "NotFound", "Revoke"}

Owned(a) == {i \in Ids : a.owner[i] # None}
OwnedBy(a, c) == {i \in Ids : a.owner[i] = c}

Change == changes < MaxChanges /\ changes' = changes + 1

-----------------------------------------------------------------------------
(* The queue of commands for Display. *)

Replaces(queued, cmd) ==
    queued[2] = cmd[2] /\ (queued[1] = cmd[1] \/ cmd[1] = "Destroy")

\* SurfaceCommandQueue::push: a command replaces a queued one for the same
\* surface, a Destroy whatever is queued for it; a full queue drops it.
push(q, cmd) ==
    LET same == {k \in DOMAIN q : Replaces(q[k], cmd)}
        first == CHOOSE k \in same : \A j \in same : k <= j
    IN  IF same # {} THEN [q EXCEPT ![first] = cmd]
        ELSE IF Len(q) = MAX_PENDING_SURFACE_COMMANDS THEN q
        ELSE Append(q, cmd)


\* SurfaceCommandQueue::flush: as many as the channel takes, in order.
flush(o) ==
    LET room == Slots - Len(o.c)
        n == IF Len(o.q) < room THEN Len(o.q) ELSE room
    IN  [q |-> SubSeq(o.q, n + 1, Len(o.q)), c |-> o.c \o SubSeq(o.q, 1, n)]

send_surface_command(o, cmd) == flush([o EXCEPT !.q = push(o.q, cmd)])
SendAll(o, cmds) == FoldLeft(send_surface_command, o, cmds)

Each(op, S) == LET s == SetToSortSeq(S, <) IN [k \in DOMAIN s |-> <<op, s[k]>>]
Destroyed(o, S) == SendAll(o, Each("Destroy", S))
queue_surface_updates(o, a) == SendAll(o, Each("Update", Owned(a)))

\* The Destroys of S that found the queue full: Display keeps those surfaces.
Refused(o, S) == {i \in S : <<"Destroy", i>> \notin ToSet(o.q) \cup ToSet(o.c)}

Create == <<"Create", 0>>
CanSend(o) == Len(o.c) < Slots
Sent(o) == [o EXCEPT !.c = Append(@, Create)]

-----------------------------------------------------------------------------
(* The response register, the channel register and what waits behind them. *)

Holds(a) == a.resp # <<>>

\* queue_terminal_response: a response that finds the register taken is lost.
queue_terminal_response(a, m, op, ref) ==
    IF Holds(a) THEN a
    ELSE [a EXCEPT !.resp = <<Response(m.from, m.id, op, ref, m.from = "Terminal")>>]

Revoke(c, ref) == Response(c, 1, "Revoke", ref, FALSE)

queue_terminal_revokeMutant(a, ref) ==
    IF ~Holds(a) THEN [a EXCEPT !.resp = <<Revoke("Terminal", ref)>>]
    ELSE [a EXCEPT !.trev = <<ref>>]

\* queue_terminal_revoke: behind a taken register a revoke waits its turn.
queue_terminal_revoke(a, ref) ==
    IF ~Holds(a) THEN [a EXCEPT !.resp = <<Revoke("Terminal", ref)>>]
    ELSE IF Len(a.trev) < MAX_ATRIUM_SURFACES
    THEN [a EXCEPT !.trev = Append(@, ref)] ELSE a


queue_system_revoke(a, ref) ==
    IF ~Holds(a)
    THEN [a EXCEPT !.resp = <<Revoke("System", ref)>>, !.cap = "System"]
    ELSE [a EXCEPT !.srev = <<ref>>]

Revoked(a, terminals, systems) ==
    LET told == FoldLeft(queue_terminal_revoke, a, SetToSortSeq(terminals, <))
    IN  IF systems = {} THEN told
        ELSE queue_system_revoke(told, CHOOSE i \in systems : TRUE)

\* A revoke that finds the register free goes before the admission that waits.
Overtaken(a, terminals) ==
    IF ~Holds(a) /\ a.admit # <<>> /\ \A i \in terminals : a.admit[1].ref <= i
    THEN {a.admit[1].ref} \cap terminals ELSE {}

\* What waited takes the free register: an admission, then Terminal's revokes,
\* then System's (the only one that also names its channel).
Promoted(a) ==
    IF Holds(a) THEN a
    ELSE IF a.admit # <<>> THEN [a EXCEPT !.resp = a.admit, !.admit = <<>>]
    ELSE IF a.trev # <<>>
    THEN [a EXCEPT !.resp = <<Revoke("Terminal", Head(a.trev))>>, !.trev = Tail(@)]
    ELSE IF a.srev # <<>>
    THEN [a EXCEPT !.resp = <<Revoke("System", Head(a.srev))>>, !.srev = <<>>,
                   !.cap = "System"]
    ELSE a

Channel(a) == IF a.cap = None THEN "Terminal" ELSE a.cap

\* The top of the loop: flush, promote, and try the response once.
Respond ==
    LET a == Promoted(at)
        m == a.resp[1]
        to == Channel(a)
        gone == ~client[to].live
        goes == Holds(a) /\ (gone \/ Len(inbox[to]) < Slots)
    IN  /\ pc = "Respond" /\ pc' = "Terminal"
        /\ io' = flush(io)
        /\ at' = IF goes THEN [a EXCEPT !.resp = <<>>, !.cap = None] ELSE a
        /\ inbox' = IF goes /\ ~gone THEN [inbox EXCEPT ![to] = Append(@, m)] ELSE inbox
        /\ crossed' = IF goes /\ to # m.to THEN crossed \cup {m.ref} ELSE crossed
        /\ UNCHANGED <<answers, shown, fresh, requests, client, context, changes,
                       forgotten, untold, overtaken>>

-----------------------------------------------------------------------------
(* Requests for a surface. *)

\* Atrium::request_surface, its layout conditions aside.
CanAdd(a, c) ==
    /\ a.auth
    /\ c # "Terminal" => OwnedBy(a, c) = {}
    /\ Cardinality(Owned(a)) < MAX_ATRIUM_SURFACES

\* A create in flight: for whom, and which surface had the focus.
Asked(a, c) == [a EXCEPT !.ps = <<[for |-> c, anchor |-> a.focus]>>]

\* Terminal's requests: the first one, or a report on a pane's tabs.
TerminalAnswer(a, m) ==
    LET mine == OwnedBy(a, "Terminal")
        known == [a EXCEPT !.lastT = TRUE]
    IN  IF m.ref # 0 /\ m.ref \in mine THEN queue_terminal_response(known, m, "Ok", m.ref)
        ELSE IF m.ref # 0 THEN queue_terminal_response(known, m, "NotFound", 0)
        ELSE IF mine # {}
        THEN queue_terminal_response(known, m, "Ok", CHOOSE i \in mine : \A j \in mine : i <= j)
        ELSE IF a.auth /\ a.creq = <<>> THEN [known EXCEPT !.creq = <<m>>]
        ELSE queue_terminal_response(known, m, "Fail", 0)

\* System's: remembered for a later launch, or answered with the surface it has.
SystemAnswer(a, m) ==
    LET mine == OwnedBy(a, "System")
        known == [a EXCEPT !.lastS = TRUE]
    IN  IF mine = {} \/ Holds(a) THEN known
        ELSE [known EXCEPT !.cap = "System",
                  !.resp = <<Response("System", m.id, "Ok", CHOOSE i \in mine : TRUE, TRUE)>>]

Stage(this, next) == pc = this /\ pc' = next

Receive(c, stage, next, Answer(_, _)) ==
    /\ pc = stage
    /\ IF requests[c] = <<>>
       THEN pc' = next /\ UNCHANGED <<at, requests>>
       ELSE /\ at' = Answer(at, Head(requests[c]))
            /\ requests' = [requests EXCEPT ![c] = Tail(@)]
            /\ UNCHANGED pc
    /\ UNCHANGED <<io, answers, shown, fresh, inbox, client, context, changes,
                   forgotten, crossed, untold, overtaken>>

TerminalRequests == Receive("Terminal", "Terminal", "System", TerminalAnswer)
SystemRequests == Receive("System", "System", "Programs", SystemAnswer)

\* A program's request goes to Display at once, or is refused; a request the
\* channel to Display has no room for is lost.
ProgramRequest(m) ==
    IF ~CanAdd(at, "Prog")
    THEN /\ at' = [at EXCEPT !.resp = <<Response("Prog", m.id, "Fail", 0, FALSE)>>,
                             !.cap = "Prog"]
         /\ UNCHANGED io
    ELSE IF CanSend(io)
    THEN /\ at' = [Asked(at, "Prog") EXCEPT !.forClient = TRUE, !.creq = <<m>>,
                                            !.cap = "Prog"]
         /\ io' = Sent(io)
    ELSE UNCHANGED <<at, io>>

\* The discovery of programs' channels also finds System's, and Terminal's
\* until its first request is known: their requests are received and, for want
\* of a program's channels, dropped.
Programs ==
    LET open == at.ps = <<>> /\ at.creq = <<>> /\ ~Holds(at)
        others == {c \in {"System", "Terminal"} :
                      requests[c] # <<>> /\ (c = "Terminal" => ~at.lastT)}
    IN  /\ Stage("Programs", "Context")
        /\ \E taken \in SUBSET (IF open THEN others ELSE {}) :
              LET prog == open /\ requests["Prog"] # <<>>
              IN  /\ requests' = [c \in Clients |->
                        IF c \in taken \/ (c = "Prog" /\ prog) THEN Tail(requests[c])
                        ELSE requests[c]]
                  /\ IF prog THEN ProgramRequest(Head(requests["Prog"]))
                     ELSE UNCHANGED <<at, io>>
        /\ UNCHANGED <<answers, shown, fresh, inbox, client, context, changes,
                       forgotten, crossed, untold, overtaken>>

\* A remembered request is tried again once Home has its surface.
Retry ==
    /\ Stage("Retry", "Display")
    /\ IF /\ at.ps = <<>> /\ at.creq # <<>> /\ at.home # 0
          /\ CanAdd(at, at.creq[1].from) /\ CanSend(io)
       THEN /\ at' = [Asked(at, at.creq[1].from) EXCEPT !.forClient = TRUE]
            /\ io' = Sent(io)
       ELSE UNCHANGED <<at, io>>
    /\ UNCHANGED <<answers, shown, fresh, requests, inbox, client, context,
                   changes, forgotten, crossed, untold, overtaken>>

-----------------------------------------------------------------------------
(* Sessions. *)

\* queue_home_surface: best effort, and never beside another create.
HomeAsked(a, o) ==
    IF a.ps = <<>> /\ a.home = 0 /\ CanSend(o)
    THEN <<[a EXCEPT !.ps = <<[for |-> "Home", anchor |-> 0]>>, !.forClient = FALSE],
           Sent(o)>>
    ELSE <<a, o>>

Shown(a) == Owned(a) \cup ({a.home} \ {0})

Emptied(a) ==
    [a EXCEPT !.auth = FALSE, !.forClient = FALSE, !.creq = <<>>, !.home = 0,
              !.focus = 0, !.owner = [i \in Ids |-> None]]

hide_surfacesMutant ==
    LET gone == Destroyed(io, Owned(at))
    IN  /\ io' = gone
        /\ at' = Revoked(Emptied(at), OwnedBy(at, "Terminal"), OwnedBy(at, "System"))
        /\ forgotten' = forgotten \cup Refused(gone, Owned(at))
        /\ overtaken' = overtaken \cup Overtaken(at, OwnedBy(at, "Terminal"))

\* hide_surfaces and the revokes: everything is destroyed, Terminal and System
\* are told.
hide_surfaces ==
    LET gone == Destroyed(Destroyed(io, Owned(at)), {at.home} \ {0})
    IN  /\ io' = gone
        /\ at' = Revoked(Emptied(at), OwnedBy(at, "Terminal"), OwnedBy(at, "System"))
        /\ forgotten' = forgotten \cup Refused(gone, Shown(at))
        /\ overtaken' = overtaken \cup Overtaken(at, OwnedBy(at, "Terminal"))


\* Shell's context: a session begins or ends.
Context ==
    /\ pc = "Context"
    /\ IF context = <<>>
       THEN pc' = "Stale" /\ UNCHANGED <<at, io, context, forgotten, overtaken>>
       ELSE /\ UNCHANGED pc
            /\ context' = Tail(context)
            /\ IF Head(context)
               THEN LET r == HomeAsked([at EXCEPT !.auth = TRUE], io)
                    IN  at' = r[1] /\ io' = r[2] /\ UNCHANGED <<forgotten, overtaken>>
               ELSE IF at.auth THEN hide_surfaces
               ELSE UNCHANGED <<at, io, forgotten, overtaken>>
    /\ UNCHANGED <<answers, shown, fresh, requests, inbox, client, changes,
                   crossed, untold>>

\* Atrium::close_reference: another surface takes the focus.
Closed(a, i, next) ==
    [a EXCEPT !.owner[i] = None, !.focus = IF @ = i THEN next ELSE @]

NextFocus(a, i) ==
    LET rest == Owned(a) \ {i} IN IF rest = {} THEN {0} ELSE rest

\* A program that is gone loses its surface.
Stale ==
    /\ Stage("Stale", "Retry")
    /\ LET dead == IF client["Prog"].live THEN {} ELSE OwnedBy(at, "Prog")
       IN  IF dead = {} THEN UNCHANGED <<at, io, forgotten>>
           ELSE \E i \in dead : \E next \in NextFocus(at, i) :
                  LET gone == Destroyed(io, {i})
                  IN  /\ at' = Closed(at, i, next)
                      /\ io' = queue_surface_updates(gone, Closed(at, i, next))
                      /\ forgotten' = forgotten \cup Refused(gone, {i})
    /\ UNCHANGED <<answers, shown, fresh, requests, inbox, client, context,
                   changes, crossed, untold, overtaken>>

-----------------------------------------------------------------------------
(* Display's answers. *)

AdmittedMutant(a, m, i) ==
    IF Holds(a) THEN a
    ELSE [a EXCEPT !.resp = <<Response(m.from, m.id, "Ok", i, m.from # "Prog")>>]

\* The answer tells the waiting client: a Terminal admission that finds the
\* register taken waits in a register of its own.
Admitted(a, m, i) ==
    LET ok == Response(m.from, m.id, "Ok", i, m.from # "Prog")
    IN  IF ~Holds(a) THEN [a EXCEPT !.resp = <<ok>>]
        ELSE IF m.from = "Terminal" THEN [a EXCEPT !.admit = <<ok>>]
        ELSE a


\* Whoever owned the admission that waited is never told of it.
Overwritten(a, m) ==
    IF Holds(a) /\ m.from = "Terminal" /\ a.admit # <<>> THEN {a.admit[1].ref} ELSE {}

\* Atrium::spawn_surface refuses when the focus moved since the request.
SpawnError(a, p) ==
    IF Cardinality(Owned(a)) = MAX_ATRIUM_SURFACES THEN "Fail"
    ELSE IF p.anchor # a.focus THEN "NotFound" ELSE "Ok"

Spawned(a, p, i) == [a EXCEPT !.owner[i] = p.for, !.focus = i]

FailClient(a, op) ==
    IF a.forClient /\ a.creq # <<>>
    THEN queue_terminal_response([a EXCEPT !.creq = <<>>], a.creq[1], op, 0) ELSE a

\* A surface for a client or for one of Atrium's own applications; the end of
\* the handler asks for Home's surface when a new session still lacks it.
TakeSurface(a, p, i) ==
    LET op == SpawnError(a, p)
        told == a.forClient /\ a.creq # <<>>
        m == a.creq[1]
        b == IF op # "Ok" THEN FailClient(a, op)
             ELSE IF told THEN Admitted([Spawned(a, p, i) EXCEPT !.creq = <<>>], m, i)
             ELSE Spawned(a, p, i)
        o == IF op # "Ok" THEN Destroyed(io, {i})
             ELSE send_surface_command(queue_surface_updates(io, b), <<"Focus", i>>)
        r == HomeAsked([b EXCEPT !.forClient = FALSE], o)
    IN  /\ at' = r[1] /\ io' = r[2]
        /\ forgotten' = IF op # "Ok" THEN forgotten \cup Refused(o, {i}) ELSE forgotten
        /\ crossed' = IF op = "Ok" /\ told /\ m.from # p.for THEN crossed \cup {i}
                      ELSE crossed
        /\ untold' = IF op # "Ok" THEN untold
                     ELSE untold \cup (IF told THEN Overwritten(a, m) ELSE {i})
                                 \cup (IF told /\ m.from # "Terminal" /\ Holds(a)
                                       THEN {i} ELSE {})

\* One answer.  Answers to commands, and to nothing pending, are passed over.
DisplayAnswer(r) ==
    LET p == at.ps[1]
        a == [at EXCEPT !.ps = <<>>]
        gone == Destroyed(io, {r[2]})
    IN  IF r[1] # "Create" \/ at.ps = <<>>
        THEN UNCHANGED <<at, io, forgotten, crossed, untold>>
        ELSE IF r[2] = 0
        THEN /\ at' = [FailClient(a, "Fail") EXCEPT !.forClient = FALSE]
             /\ UNCHANGED <<io, forgotten, crossed, untold>>
        ELSE IF ~at.auth
        THEN /\ at' = [a EXCEPT !.forClient = FALSE]
             /\ io' = gone
             /\ forgotten' = forgotten \cup Refused(gone, {r[2]})
             /\ UNCHANGED <<crossed, untold>>
        ELSE IF p.for = "Home"
        THEN /\ at' = [a EXCEPT !.home = r[2], !.forClient = FALSE]
             /\ io' = queue_surface_updates(io, a)
             /\ UNCHANGED <<forgotten, crossed, untold>>
        ELSE TakeSurface(a, p, r[2])

Display ==
    /\ pc = "Display"
    /\ IF answers = <<>>
       THEN pc' = "Input" /\ UNCHANGED <<at, io, answers, forgotten, crossed, untold>>
       ELSE /\ UNCHANGED pc
            /\ answers' = Tail(answers)
            /\ DisplayAnswer(Head(answers))
    /\ UNCHANGED <<shown, fresh, requests, inbox, client, context, changes, overtaken>>

-----------------------------------------------------------------------------
(* What the user does. *)

Focused(i) ==
    /\ at' = [at EXCEPT !.focus = i]
    /\ io' = send_surface_command(io, <<"Focus", i>>)

\* Launch: an application that has a surface gets the focus (Terminal may
\* instead open another pane in an empty leaf); the others are asked for, on
\* behalf of the request their service once sent.
Launch(app, pane) ==
    LET mine == OwnedBy(at, app)
        known == CASE app = "Terminal" -> at.lastT
                   [] app = "System" -> at.lastS
                   [] OTHER -> TRUE
        service == app \in {"Terminal", "System"}
        free == service /\ at.creq = <<>>
        a == IF ~free THEN at
             ELSE [at EXCEPT !.creq = <<[from |-> app, id |-> 1, ref |-> 0]>>,
                             !.cap = IF app = "System" THEN "System" ELSE @]
    IN  /\ at.ps = <<>>
        /\ pane => app = "Terminal"
        /\ IF mine # {} /\ ~pane
           THEN \E i \in mine : (\A j \in mine : i <= j) /\ Focused(i)
           ELSE IF ~known THEN UNCHANGED <<at, io>>
           ELSE IF CanAdd(a, app) /\ CanSend(io)
           THEN at' = [Asked(a, app) EXCEPT !.forClient = service] /\ io' = Sent(io)
           ELSE at' = a /\ UNCHANGED io
        /\ UNCHANGED <<forgotten, overtaken>>

CloseFocused ==
    /\ at.focus # 0
    /\ \E next \in NextFocus(at, at.focus) :
         LET i == at.focus
             mine(c) == IF at.owner[i] = c THEN {i} ELSE {}
             gone == Destroyed(io, {i})
             a == Revoked(Closed(at, i, next), mine("Terminal"), mine("System"))
         IN  /\ at' = a
             /\ io' = queue_surface_updates(gone, a)
             /\ forgotten' = forgotten \cup Refused(gone, {i})
             /\ overtaken' = overtaken \cup Overtaken(at, mine("Terminal"))

FocusNext ==
    /\ \E i \in Owned(at) \ {at.focus} : Focused(i)
    /\ UNCHANGED <<forgotten, overtaken>>

Apps == (Active \ {"Prog"}) \cup {"Atrium"}

\* One input event of an authenticated session.  Shell is asked to end the
\* session a Logout has already hidden.
Event ==
    /\ pc = "Input" /\ at.auth /\ Change
    /\ \/ \E app \in Apps, pane \in BOOLEAN : Launch(app, pane)
       \/ hide_surfaces
       \/ CloseFocused
       \/ FocusNext
    /\ UNCHANGED <<answers, shown, fresh, requests, inbox, client, context, pc,
                   crossed, untold>>

InputDone ==
    /\ Stage("Input", "Respond")
    /\ UNCHANGED <<at, io, answers, shown, fresh, requests, inbox, client, context,
                   changes, forgotten, crossed, untold, overtaken>>

-----------------------------------------------------------------------------
(* The others: Display, Shell and the clients. *)

\* Display serves one message; an answer that finds its channel full is lost.
DisplayServes ==
    /\ io.c # <<>>
    /\ LET cmd == Head(io.c)
       IN  \E ok \in BOOLEAN :
             LET made == IF cmd[1] = "Create" /\ ok /\ fresh \in Ids THEN fresh ELSE 0
                 room == Len(answers) < Slots
             IN  /\ cmd[1] # "Create" => ok
                 /\ shown' = IF cmd[1] = "Destroy" THEN shown \ {cmd[2]}
                             ELSE IF made # 0 THEN shown \cup {made} ELSE shown
                 /\ fresh' = IF made # 0 THEN fresh + 1 ELSE fresh
                 /\ answers' = IF ~room THEN answers
                               ELSE Append(answers, <<cmd[1], made>>)
                 /\ forgotten' = IF made # 0 /\ ~room THEN forgotten \cup {made}
                                 ELSE forgotten
    /\ io' = [io EXCEPT !.c = Tail(@)]
    /\ UNCHANGED <<at, requests, inbox, client, context, pc, changes, crossed, untold, overtaken>>

\* Shell publishes a session's begin or end.
ShellContext ==
    /\ Len(context) < Slots /\ Change
    /\ \E on \in BOOLEAN : context' = Append(context, on)
    /\ UNCHANGED <<at, io, answers, shown, fresh, requests, inbox, client, pc,
                   forgotten, crossed, untold, overtaken>>

Asks(c, ref) ==
    /\ client[c].live /\ Len(requests[c]) < Slots
    /\ requests' = [requests EXCEPT ![c] = Append(@, Request(c, ref))]
    /\ UNCHANGED <<at, io, answers, shown, fresh, inbox, context, pc, forgotten,
                   crossed, untold, overtaken>>

\* Terminal asks once; System and the program whenever they have no surface.
FirstRequest(c) ==
    /\ ~client[c].asked
    /\ c # "Terminal" => client[c].knows = {}
    /\ client' = [client EXCEPT ![c].asked = TRUE]
    /\ IF c = "Terminal" THEN UNCHANGED changes ELSE Change
    /\ Asks(c, 0)

\* Terminal reports a pane whose tabs changed.
Report ==
    /\ \E ref \in client["Terminal"].knows : Asks("Terminal", ref)
    /\ Change
    /\ UNCHANGED client

\* Terminal's side of a response: Ok binds a pane, a revoke unbinds it.
TerminalLearns(k, m) ==
    CASE m.op = "Ok" /\ m.id = k.id -> [k EXCEPT !.knows = @ \cup {m.ref}]
      [] m.op = "Revoke" -> [k EXCEPT !.knows = @ \ {m.ref}]
      [] OTHER -> k

\* System's: any sized Ok is its surface, a revoke or NotFound ends it.
SystemLearns(k, m) ==
    LET heard == [k EXCEPT !.asked = FALSE, !.id = 2]
    IN  CASE m.op = "Ok" /\ m.sized -> [heard EXCEPT !.knows = {m.ref}]
          [] m.op \in {"Revoke", "NotFound"} -> [heard EXCEPT !.knows = {}]
          [] OTHER -> heard

\* ProgramClient::accept_surface_response.
accept_surface_response(k, m) ==
    CASE m.op = "Revoke" /\ m.ref \in k.knows -> [k EXCEPT !.knows = {}]
      [] m.op # "Revoke" /\ k.asked /\ m.id = k.id ->
            [k EXCEPT !.asked = FALSE, !.knows = IF m.op = "Ok" THEN {m.ref} ELSE @]
      [] OTHER -> k

Learn(c) ==
    /\ client[c].live /\ inbox[c] # <<>>
    /\ LET m == Head(inbox[c])
           k == client[c]
       IN  client' = [client EXCEPT ![c] =
                CASE c = "Terminal" -> TerminalLearns(k, m)
                  [] c = "System" -> SystemLearns(k, m)
                  [] OTHER -> accept_surface_response(k, m)]
    /\ inbox' = [inbox EXCEPT ![c] = Tail(@)]
    /\ UNCHANGED <<at, io, answers, shown, fresh, requests, context, pc, changes,
                   forgotten, crossed, untold, overtaken>>

\* The program ends: its channels go with it.
ProgramExit ==
    /\ client["Prog"].live
    /\ client' = [client EXCEPT !["Prog"].live = FALSE, !["Prog"].knows = {}]
    /\ requests' = [requests EXCEPT !["Prog"] = <<>>]
    /\ inbox' = [inbox EXCEPT !["Prog"] = <<>>]
    /\ UNCHANGED <<at, io, answers, shown, fresh, context, pc, changes, forgotten,
                   crossed, untold, overtaken>>

-----------------------------------------------------------------------------

Init ==
    /\ at = [auth |-> FALSE, home |-> 0, owner |-> [i \in Ids |-> None], focus |-> 0,
             ps |-> <<>>, forClient |-> FALSE, creq |-> <<>>, cap |-> None,
             resp |-> <<>>, admit |-> <<>>, trev |-> <<>>, srev |-> <<>>,
             lastT |-> FALSE, lastS |-> FALSE]
    /\ io = [q |-> <<>>, c |-> <<>>]
    /\ answers = <<>> /\ shown = {} /\ fresh = 1
    /\ requests = [c \in Clients |-> <<>>] /\ inbox = [c \in Clients |-> <<>>]
    /\ client = [c \in Clients |-> [knows |-> {}, asked |-> FALSE, id |-> 1, live |-> c \in Active]]
    /\ context = <<>> /\ pc = "Respond" /\ changes = 0
    /\ forgotten = {} /\ crossed = {} /\ untold = {} /\ overtaken = {}

Next ==
    \/ Respond \/ TerminalRequests \/ SystemRequests \/ Programs \/ Context
    \/ Stale \/ Retry \/ Display \/ Event \/ InputDone
    \/ DisplayServes \/ ShellContext \/ Report \/ ProgramExit
    \/ \E c \in Clients : FirstRequest(c) \/ Learn(c)

Spec == Init /\ [][Next]_vars

-----------------------------------------------------------------------------

\* Types: Atrium's table within its size, queues within theirs.
TypeOK ==
    /\ Cardinality(Owned(at)) <= MAX_ATRIUM_SURFACES
    /\ Len(io.q) <= MAX_PENDING_SURFACE_COMMANDS /\ Len(io.c) <= Slots
    /\ at.focus \in Owned(at) \cup {0}

Ordered(i) == <<"Destroy", i>> \in ToSet(io.q) \cup ToSet(io.c)
Answered(i) == <<"Create", i>> \in ToSet(answers)

\* Atrium and Display agree on what is on the screen, whatever the order of
\* answers, logouts and closes: each surface Display shows is in Atrium's
\* table, or the answer that brings it or the Destroy that ends it is on its
\* way (the queues that drop one when full aside); each surface of Atrium's
\* table is shown.
SurfacesAccounted ==
    /\ \A i \in shown : i \in Shown(at) \/ Ordered(i) \/ Answered(i) \/ i \in forgotten
    /\ Shown(at) \subseteq shown
    /\ at.home \notin Owned(at)

Coming(op, i) ==
    \/ \E m \in ToSet(inbox["Terminal"]) \cup ToSet(at.resp) \cup ToSet(at.admit) :
          m.to = "Terminal" /\ m.op = op /\ m.ref = i
    \/ op = "Revoke" /\ i \in ToSet(at.trev)

\* Terminal and Atrium agree on the panes: Terminal knows, or is about to be
\* told of, every pane Atrium keeps for it, and each pane it knows is kept or
\* its revoke is on its way (surfaces whose message went astray or whose revoke
\* overtook their admission, and panes whose session was ended and begun again
\* while they were asked for, aside).
PanesKnown ==
    /\ \A i \in OwnedBy(at, "Terminal") :
          i \in client["Terminal"].knows \cup crossed \cup untold \/ Coming("Ok", i)
    /\ \A i \in client["Terminal"].knows :
          i \in OwnedBy(at, "Terminal") \cup crossed \cup overtaken \/ Coming("Revoke", i)

\* A response goes out on the channel of the client it answers.
ResponsesReachTheirClient == crossed = {}

\* "The admission response is never dropped for a busy response slot."
AdmissionsDelivered ==
    \A i \in OwnedBy(at, "Terminal") :
        i \in client["Terminal"].knows \cup crossed \/ Coming("Ok", i)

=============================================================================
