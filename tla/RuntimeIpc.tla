----------------------------- MODULE RuntimeIpc -----------------------------
(***************************************************************************)
(* The IPC registry of Core (src/runtime_ipc.rs) composed with the event   *)
(* registry it signals through: endpoints with a bounded ring of messages  *)
(* in Core-owned frames, the capabilities granted on them, and the service *)
(* calls send and receive.                                                 *)
(*                                                                         *)
(* Every endpoint owns two events: the consumer's read event, signaled by  *)
(* send, and the producer's write event, signaled by receive.  A service   *)
(* that finds its queue empty (or full) waits on a set that contains the   *)
(* event; RuntimeEvents models that wait step by step.                     *)
(***************************************************************************)
EXTENDS RuntimeEvents, Integers

CONSTANTS
    MaxEnds,    \* bound: endpoint slots
    MaxCaps,    \* bound: capability slots
    Sizes,      \* queue capacities that endpoints are created with
    Frames,     \* frames of the pool, and queue_budget_messages
    MaxSent     \* bound: messages sent through one endpoint

ASSUME IpcAssumption == /\ MaxEnds \in Nat /\ MaxCaps \in Nat /\ Frames \in Nat
                        /\ MaxSent \in Nat /\ Sizes \subseteq Nat \ {0}

VARIABLES
    ends,       \* endpoint slots
    caps,       \* capability slots
    committed,  \* queue_committed_messages
    free,       \* frames left in the pool
    settled,    \* history: endpoints whose consumer saw Empty, its read event not reported since
    stalled     \* history: endpoints whose producer saw Full, its write event not reported since

ipcVars == <<ends, caps, committed, free, settled, stalled>>
allVars == <<vars, ipcVars>>

Rights == {"Send", "Receive"}
EndHandles == (1 .. MaxEnds) \X Nat
CapHandles == (1 .. MaxCaps) \X Nat

(* A record of an endpoint; message number k is the k-th one sent.         *)
EndSlots == [gen : Nat, owner : Services \cup {None}, consumer : Services \cup {None},
             size : Nat, rd : Handles \cup {None}, wr : Handles \cup {None},
             ring : UNION {[0 .. n - 1 -> 0 .. MaxSent] : n \in Sizes \cup {0}},
             head : Nat, tail : Nat, len : Nat, sent : Nat]
CapSlots == [gen : Nat, owner : Services \cup {None}, end : EndHandles \cup {None},
             rights : Rights]

IpcTypeOK ==
    /\ TypeOK
    /\ ends \in [1 .. MaxEnds -> EndSlots]
    /\ caps \in [1 .. MaxCaps -> CapSlots]
    /\ committed \in 0 .. Frames
    /\ free \in 0 .. Frames
    /\ settled \subseteq EndHandles /\ stalled \subseteq EndHandles

-----------------------------------------------------------------------------
VacantEnd(g) == [gen |-> g, owner |-> None, consumer |-> None, size |-> 0,
                 rd |-> None, wr |-> None, ring |-> << >>,
                 head |-> 0, tail |-> 0, len |-> 0, sent |-> 0]
VacantCap(g) == [gen |-> g, owner |-> None, end |-> None, rights |-> "Send"]

(* The capability generations start one above the seed.                    *)
VacantCaps == {i \in 1 .. MaxCaps : caps[i].owner = None /\ caps[i].gen <= MaxGen + 1}

LiveEnds == {<<i, ends[i].gen>> : i \in {j \in 1 .. MaxEnds : ends[j].owner # None}}
LiveCaps == {<<i, caps[i].gen>> : i \in {j \in 1 .. MaxCaps : caps[j].owner # None}}

(* endpoints of which the service is producer (owner) or consumer          *)
EndsOf(o) == {p \in LiveEnds : o \in {ends[p[1]].owner, ends[p[1]].consumer}}

(* capability_endpoint: the caller's grant, with this right, on an         *)
(* endpoint that is still there.                                           *)
Grants(o, right) ==
    {k \in LiveCaps : /\ caps[k[1]].owner = o /\ caps[k[1]].rights = right
                      /\ caps[k[1]].end \in LiveEnds}

IpcInit ==
    /\ Init
    /\ ends = [i \in 1 .. MaxEnds |-> VacantEnd(1)]
    /\ caps = [i \in 1 .. MaxCaps |-> VacantCap(2)]
    /\ committed = 0 /\ free = Frames
    /\ settled = {} /\ stalled = {}

-----------------------------------------------------------------------------
(* The record create_endpoint_with_queue stores: an empty ring and the two *)
(* events.                                                                 *)
NewEnd(g, p, c, n, rd, wr) ==
    [gen |-> g, owner |-> p, consumer |-> c, size |-> n, rd |-> rd, wr |-> wr,
     ring |-> [x \in 0 .. n - 1 |-> 0], head |-> 0, tail |-> 0, len |-> 0, sent |-> 0]

Granted(g, o, end, right) == [gen |-> g, owner |-> o, end |-> end, rights |-> right]

(* The frames come from the pool, the budget is checked, the read event is *)
(* created for the consumer and the write event for the producer; then     *)
(* Core grants both ends, the send right first.  A refused creation gives  *)
(* its frames back.                                                        *)
Connect(p, c, n) ==
    LET i   == First(Vacant(ends))
        end == <<i, ends[i].gen>>
        e   == First(Vacant(reg.events))
        f   == First(Vacant(reg.events) \ {e})
        k   == First(VacantCaps)
        l   == First(VacantCaps \ {k})
    IN
    /\ op.pc = "free"
    /\ p \in running /\ c \in running /\ p # c
    /\ n <= free
    /\ n <= Frames - committed
    /\ Vacant(ends) # {}
    /\ \E x, y \in Vacant(reg.events) : x # y
    /\ \E x, y \in VacantCaps : x # y
    /\ reg' = NewEvent(NewEvent(reg, e, c), f, p)
    /\ ends' = [ends EXCEPT ![i] = NewEnd(@.gen, p, c, n, <<e, reg.events[e].gen>>,
                                                        <<f, reg.events[f].gen>>)]
    /\ caps' = [caps EXCEPT ![k] = Granted(@.gen, p, end, "Send"),
                            ![l] = Granted(@.gen, c, end, "Receive")]
    /\ committed' = committed + n
    /\ free' = free - n
    /\ UNCHANGED <<running, epoch, op, isr, owed, dead, settled, stalled>>

(* destroy_endpoint_inner on a set of endpoints: budget, events, slot and  *)
(* every capability on it; destroy_endpoint_with_pool returns the frames.  *)
EndEvents(P) == LiveEvents(reg) \cap UNION {{ends[p[1]].rd, ends[p[1]].wr} : p \in P}

(* The frames of some endpoints, summed up slot by slot.                   *)
Total(w, n) == LET F[i \in 0 .. n] == IF i = 0 THEN 0 ELSE F[i - 1] + w[i] IN F[n]
Weights(E, P) == [i \in 1 .. MaxEnds |-> IF <<i, E[i].gen>> \in P THEN E[i].size ELSE 0]
Backed(P) == Total(Weights(ends, P), MaxEnds)

DropCaps(K) ==
    caps' = [i \in 1 .. MaxCaps |-> IF <<i, caps[i].gen>> \in K THEN VacantCap(caps[i].gen + 1)
                                                                ELSE caps[i]]

RevokedByMutant(P, O) == {k \in LiveCaps : caps[k[1]].owner \in O}

RevokedBy(P, O) == {k \in LiveCaps : caps[k[1]].end \in P \/ caps[k[1]].owner \in O}

DropEndsMutant(P) ==
    /\ ends' = [i \in 1 .. MaxEnds |-> IF <<i, ends[i].gen>> \in P THEN VacantEnd(ends[i].gen + 1)
                                                                   ELSE ends[i]]
    /\ committed' = committed - Backed(P)
    /\ UNCHANGED free
    /\ settled' = settled \ P /\ stalled' = stalled \ P

DropEnds(P) ==
    /\ ends' = [i \in 1 .. MaxEnds |-> IF <<i, ends[i].gen>> \in P THEN VacantEnd(ends[i].gen + 1)
                                                                   ELSE ends[i]]
    /\ committed' = committed - Backed(P)
    /\ free' = free + Backed(P)
    /\ settled' = settled \ P /\ stalled' = stalled \ P

DestroyEndpoint(p) ==
    /\ op.pc = "free"
    /\ p \in LiveEnds
    /\ reg' = DestroyEvents(reg, EndEvents({p}))
    /\ DropEnds({p})
    /\ DropCaps(RevokedBy({p}, {}))
    /\ owed' = owed \ EndEvents({p})
    /\ dead' = dead \cup EndEvents({p})
    /\ UNCHANGED <<running, epoch, op, isr>>

(* destroy_service_with_pool: its endpoints, its capabilities, then what   *)
(* it owns in the event registry.                                          *)
StopIpcService(o) ==
    LET E == EndEvents(EndsOf(o)) \cup EventsOf(reg, o)
        r == DestroyEvents([reg EXCEPT !.asleep[o] = None], EndEvents(EndsOf(o)))
    IN
    /\ op.pc = "free"
    /\ o \in running
    /\ running' = running \ {o}
    /\ reg' = DestroyService(r, o)
    /\ DropEnds(EndsOf(o))
    /\ DropCaps(RevokedBy(EndsOf(o), {o}))
    /\ owed' = owed \ E
    /\ dead' = dead \cup E
    /\ UNCHANGED <<epoch, op, isr>>

-----------------------------------------------------------------------------
SignaledMutant(r, e) == IF e \in LiveEvents(r) /\ Waiters(r, e) # {} THEN SignalEvent(r, e) ELSE r

(* send through a capability: into the ring at the tail, then signal_irq   *)
(* on the consumer's read event (an error of the signal is ignored).       *)
Signaled(r, e) == IF e \in LiveEvents(r) THEN SignalEvent(r, e) ELSE r

EnqueuedMutant(x) == [x EXCEPT !.ring[x.head] = x.sent + 1, !.tail = (x.tail + 1) % x.size,
                               !.len = @ + 1, !.sent = @ + 1]

Enqueued(x) == [x EXCEPT !.ring[x.tail] = x.sent + 1, !.tail = (x.tail + 1) % x.size,
                         !.len = @ + 1, !.sent = @ + 1]

Send(o, k) ==
    LET i == caps[k[1]].end[1] IN
    /\ Caller(o)
    /\ k \in Grants(o, "Send")
    /\ ends[i].len < ends[i].size
    /\ ends[i].sent < MaxSent
    /\ ends' = [ends EXCEPT ![i] = Enqueued(@)]
    /\ reg' = Signaled(reg, ends[i].rd)
    /\ owed' = owed \cup ({ends[i].rd} \cap LiveEvents(reg))
    /\ UNCHANGED <<running, epoch, op, isr, dead, caps, committed, free, settled, stalled>>

SendFull(o, k) ==
    LET i == caps[k[1]].end[1] IN
    /\ Caller(o)
    /\ k \in Grants(o, "Send")
    /\ ends[i].len >= ends[i].size
    /\ stalled' = stalled \cup {caps[k[1]].end}
    /\ UNCHANGED <<vars, ends, caps, committed, free, settled>>

(* receive: out of the ring at the head, then signal_irq on the producer's *)
(* write event.                                                            *)
Dequeued(x) == [x EXCEPT !.head = (x.head + 1) % x.size, !.len = @ - 1]

ReceiveMutant(o, k) ==
    LET i == caps[k[1]].end[1] IN
    /\ Caller(o)
    /\ k \in Grants(o, "Receive")
    /\ ends' = [ends EXCEPT ![i] = Dequeued(@)]
    /\ reg' = Signaled(reg, ends[i].wr)
    /\ owed' = owed \cup ({ends[i].wr} \cap LiveEvents(reg))
    /\ UNCHANGED <<running, epoch, op, isr, dead, caps, committed, free, settled, stalled>>

ReceiveQuietMutant(o, k) ==
    LET i == caps[k[1]].end[1] IN
    /\ Caller(o)
    /\ k \in Grants(o, "Receive")
    /\ ends[i].len > 0
    /\ ends' = [ends EXCEPT ![i] = Dequeued(@)]
    /\ UNCHANGED <<vars, caps, committed, free, settled, stalled>>

Receive(o, k) ==
    LET i == caps[k[1]].end[1] IN
    /\ Caller(o)
    /\ k \in Grants(o, "Receive")
    /\ ends[i].len > 0
    /\ ends' = [ends EXCEPT ![i] = Dequeued(@)]
    /\ reg' = Signaled(reg, ends[i].wr)
    /\ owed' = owed \cup ({ends[i].wr} \cap LiveEvents(reg))
    /\ UNCHANGED <<running, epoch, op, isr, dead, caps, committed, free, settled, stalled>>

ReceiveEmpty(o, k) ==
    LET i == caps[k[1]].end[1] IN
    /\ Caller(o)
    /\ k \in Grants(o, "Receive")
    /\ ends[i].len = 0
    /\ settled' = settled \cup {caps[k[1]].end}
    /\ UNCHANGED <<vars, ends, caps, committed, free, stalled>>

-----------------------------------------------------------------------------
(* The event calls of RuntimeEvents.  A report of an endpoint's event      *)
(* tells its owner to look at the queue again.                             *)
Report ==
    /\ WaitConsume
    /\ settled' = {p \in settled : ends[p[1]].rd # Awaited[op.i]}
    /\ stalled' = {p \in stalled : ends[p[1]].wr # Awaited[op.i]}
    /\ UNCHANGED <<ends, caps, committed, free>>

SetCall(o) ==
    \/ CreateSet(o)
    \/ \E s \in LiveSets(reg) :
        \/ DestroySet(o, s) \/ Cancel(o, s)
        \/ \E due \in BOOLEAN : Wait(o, s, due)
        \/ \E e \in LiveEvents(reg) : Add(o, s, e)
        \/ \E e \in Members(reg, s) : Remove(o, s, e)
    \/ \E e \in EventsOf(reg, o) : Destroy(o, e)

EventStep ==
    /\ \/ \E o \in Services : SetCall(o) \/ TimerWake(o) \/ StartService(o)
       \/ WaitScan \/ WaitTimeout \/ WaitPublish \/ WaitRegister \/ WaitRecheck
       \/ \E h \in Sources : Interrupt(h)
    /\ UNCHANGED ipcVars

IpcCall(o) == \E k \in LiveCaps : Send(o, k) \/ SendFull(o, k) \/ Receive(o, k) \/ ReceiveEmpty(o, k)

IpcNext ==
    \/ \E p, c \in Services : \E n \in Sizes : Connect(p, c, n)
    \/ \E p \in LiveEnds : DestroyEndpoint(p)
    \/ \E o \in Services : StopIpcService(o) \/ IpcCall(o)
    \/ Report
    \/ EventStep

IpcSpec == IpcInit /\ [][IpcNext]_allVars

-----------------------------------------------------------------------------
(* Properties.                                                             *)

(* The ring holds exactly the messages sent and not received, oldest at    *)
(* the head: head, tail and length never drift apart across the wrap.      *)
QueueIsFifo ==
    \A p \in LiveEnds :
        LET x == ends[p[1]] IN
        /\ x.len <= x.size
        /\ (x.head + x.len) % x.size = x.tail
        /\ \A j \in 0 .. x.len - 1 : x.ring[(x.head + j) % x.size] = x.sent - x.len + j + 1

(* The committed budget is what live endpoints hold, and with the free     *)
(* frames it makes up the pool: no teardown leaks or returns frames twice. *)
FramesConserved ==
    /\ committed = Backed(LiveEnds)
    /\ free + committed = Frames

(* A capability names a live endpoint and its owner's own end of it, and   *)
(* endpoints join running services: a capability of a destroyed endpoint,  *)
(* or of a stopped peer, never reaches the slot's next endpoint.           *)
CapabilitiesCurrent ==
    /\ \A k \in LiveCaps :
        LET c == caps[k[1]] IN
        /\ c.end \in LiveEnds
        /\ c.owner = IF c.rights = "Send" THEN ends[c.end[1]].owner ELSE ends[c.end[1]].consumer
    /\ \A p \in LiveEnds : {ends[p[1]].owner, ends[p[1]].consumer} \subseteq running

(* A consumer that saw its queue empty is told of what was sent since: as  *)
(* long as the read event exists it is ready while the queue is not empty, *)
(* so a wait on it returns at once.                                        *)
NoStrandedMessage ==
    \A p \in settled : ends[p[1]].len > 0 /\ LiveEvent(reg, ends[p[1]].rd)
                       => Ready(reg, ends[p[1]].rd)

(* A producer that saw its queue full is told of the space made since.     *)
NoStrandedProducer ==
    \A p \in stalled : ends[p[1]].len < ends[p[1]].size /\ LiveEvent(reg, ends[p[1]].wr)
                       => Ready(reg, ends[p[1]].wr)
=============================================================================
