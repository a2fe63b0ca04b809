----------------------------- MODULE IpcProofs ------------------------------
(*****************************************************************************)
(* Proofs about the IPC registry (RuntimeIpc) composed with the event        *)
(* registry, for any number of services, endpoints, capabilities and frames. *)
(*                                                                           *)
(*  - IpcInv, the inductive invariant: the registry is Good (EventProofs),   *)
(*    the rings hold what was sent (Fifo), and endpoints, capabilities,      *)
(*    events and what producers and consumers were told stay linked.         *)
(*  - FramesInv, which adds the frames that back the endpoints.              *)
(*****************************************************************************)
EXTENDS RuntimeIpc, EventProofs

(* A call of a service on its sets.                                         *)
LEMMA SetCallKeeps ==
  ASSUME EInv, NEW o \in Services, SetCall(o)
  PROVE  EInv'
<1>1. ASSUME NEW e \in EventsOf(reg, o), Destroy(o, e) PROVE EInv'
  <2>1. /\ op.pc = "free" /\ {e} \subseteq LiveEvents(reg) /\ reg' = DestroyEvents(reg, {e})
        /\ owed' = owed \ {e} /\ dead' = dead \cup {e} /\ UNCHANGED <<running, epoch, op, isr>>
    BY Zenon, <1>1 DEF Destroy, Caller
  <2> QED BY Zenon, <2>1, DestroyKeeps
<1> QED BY Zenon, <1>1, CreateSetKeeps, DestroySetKeeps, CancelKeeps, WaitKeeps, AddKeeps, RemoveKeeps DEF SetCall

(* q is r with the events of an endpoint in slots i and j.                  *)
IsJoined(r, i, j, c, p, q) ==
    /\ q.sets = r.sets /\ q.hw = r.hw /\ q.asleep = r.asleep
    /\ \A k \in 1 .. MaxEvents :
          /\ q.events[k].gen = r.events[k].gen
          /\ k # i /\ k # j => q.events[k] = r.events[k]
    /\ q.events[i].owner = c /\ q.events[j].owner = p

(* The step that creates them, in two vacant slots.                         *)
Joins(r, R, i, j, c, p, q) ==
    /\ i \in 1 .. MaxEvents /\ j \in 1 .. MaxEvents /\ c \in R /\ p \in R
    /\ i # j /\ r.events[i].owner = None /\ r.events[j].owner = None
    /\ q = NewEvent(NewEvent(r, i, c), j, p)

(* Two events for an endpoint, in two vacant slots.                         *)
LEMMA NewEventsGood ==
  ASSUME NEW r \in Registries, NEW R \in SUBSET Services, NEW x \in Calls, NEW I, NEW W \in SUBSET Handles,
         NEW i, NEW j, NEW c, NEW p, NEW q,
         Good(r, R, x, I, W), x.pc = "free", Joins(r, R, i, j, c, p, q)
  PROVE  q \in Registries /\ Good(q, R, x, I, W) /\ IsJoined(r, i, j, c, p, q)
<1> DEFINE t == NewEvent(r, i, c)
<1>0. /\ i \in 1 .. MaxEvents /\ j \in 1 .. MaxEvents /\ c \in R /\ p \in R
      /\ i # j /\ r.events[i].owner = None /\ r.events[j].owner = None
      /\ q = NewEvent(t, j, p)
  BY Zenon DEF Joins
<1>1. c \in Services /\ p \in Services
  BY Zenon, <1>0
<1>2. /\ t \in Registries /\ t.sets = r.sets /\ t.hw = r.hw /\ t.asleep = r.asleep
      /\ \A k \in 1 .. MaxEvents :
            t.events[k] = IF k = i THEN [gen |-> r.events[i].gen, owner |-> c, signaled |-> FALSE] ELSE r.events[k]
  BY <1>0, <1>1, NewEventFields
<1>3. Good(t, R, x, I, W)
  BY Zenon, <1>0, NewEventGood
<1>4. q = NewEvent(t, j, p)
  BY Zenon, <1>0
<1> HIDE DEF t
<1>5. t.events[j] = r.events[j] /\ t.events[i].owner = c /\ \A k \in 1 .. MaxEvents : t.events[k].gen = r.events[k].gen
  BY <1>0, <1>2
<1>6. /\ q \in Registries /\ q.sets = t.sets /\ q.hw = t.hw /\ q.asleep = t.asleep
      /\ \A k \in 1 .. MaxEvents :
            q.events[k] = IF k = j THEN [gen |-> t.events[j].gen, owner |-> p, signaled |-> FALSE] ELSE t.events[k]
  BY <1>0, <1>1, <1>2, <1>4, NewEventFields
<1>7. Good(q, R, x, I, W)
  BY Zenon, <1>0, <1>2, <1>3, <1>4, <1>5, NewEventGood
<1>8. /\ \A k \in 1 .. MaxEvents :
               /\ q.events[k].gen = r.events[k].gen
               /\ k # i /\ k # j => q.events[k] = r.events[k]
      /\ q.events[i].owner = c /\ q.events[j].owner = p
  BY <1>0, <1>2, <1>5, <1>6
<1> QED BY Zenon, <1>2, <1>6, <1>7, <1>8 DEF IsJoined

(* The slots that Connect takes: two vacant event slots.                    *)
LEMMA TwoVacant ==
  ASSUME NEW S \in SUBSET Nat, \E x, y \in S : x # y
  PROVE  First(S) \in S /\ First(S \ {First(S)}) \in S /\ First(S \ {First(S)}) # First(S)
<1>1. First(S) \in S
  BY Zenon, FirstIn
<1>2. S \ {First(S)} \in SUBSET Nat /\ S \ {First(S)} # {}
  <2> DEFINE z == First(S)
  <2> HIDE DEF z
  <2>1. S \ {z} \in SUBSET Nat
    BY Zenon
  <2>2. S \ {z} # {}
    <3>1. PICK x \in S, y \in S : x # y
      BY Zenon
    <3>2. x # z \/ y # z
      BY Zenon, <3>1
    <3> QED BY Zenon, <3>2
  <2> QED BY Zenon, <2>1, <2>2 DEF z
<1>3. First(S \ {First(S)}) \in S \ {First(S)}
  <2> DEFINE T == S \ {First(S)}
  <2>1. T \in SUBSET Nat /\ T # {}
    BY Zenon, <1>2
  <2> HIDE DEF T
  <2>2. First(T) \in T
    BY Zenon, <2>1, FirstIn
  <2> QED BY Zenon, <2>2 DEF T
<1> QED BY Zenon, <1>1, <1>3

(* What Connect does to the event registry.                                 *)
LEMMA ConnectEvents ==
  ASSUME EInv, NEW p \in Services, NEW c \in Services, NEW n, Connect(p, c, n)
  PROVE  LET e == First(Vacant(reg.events))
             f == First(Vacant(reg.events) \ {e})
         IN  /\ e \in 1 .. MaxEvents /\ f \in 1 .. MaxEvents /\ e # f
             /\ reg.events[e].owner = None /\ reg.events[f].owner = None
             /\ reg' = NewEvent(NewEvent(reg, e, c), f, p)
             /\ op.pc = "free" /\ p \in running /\ c \in running
             /\ UNCHANGED <<running, epoch, op, isr, owed, dead>>
<1> DEFINE V == Vacant(reg.events)
           e == First(V)
           f == First(V \ {e})
<1>1. /\ op.pc = "free" /\ p \in running /\ c \in running /\ \E x, y \in V : x # y
      /\ reg' = NewEvent(NewEvent(reg, e, c), f, p)
      /\ UNCHANGED <<running, epoch, op, isr, owed, dead>>
  BY Zenon DEF Connect
<1>2. DOMAIN reg.events = 1 .. MaxEvents
  BY Zenon, Parts, RegistryFields
<1>3. V \in SUBSET Nat /\ \A i \in V : i \in 1 .. MaxEvents /\ reg.events[i].owner = None
  BY <1>2 DEF Vacant
<1> HIDE DEF V
<1>4. e \in V /\ f \in V /\ f # e
  BY Zenon, <1>1, <1>3, TwoVacant
<1>5. /\ e \in 1 .. MaxEvents /\ f \in 1 .. MaxEvents /\ e # f
      /\ reg.events[e].owner = None /\ reg.events[f].owner = None
  BY Zenon, <1>3, <1>4
<1> QED BY <1>1, <1>5, Zenon DEF V

(* Connecting two services creates two events and keeps the invariant of    *)
(* the registry.                                                            *)
LEMMA ConnectKeeps ==
  ASSUME EInv, NEW p \in Services, NEW c \in Services, NEW n, Connect(p, c, n)
  PROVE  EInv'
<1> DEFINE e == First(Vacant(reg.events))
           f == First(Vacant(reg.events) \ {e})
<1>1. /\ e \in 1 .. MaxEvents /\ f \in 1 .. MaxEvents /\ e # f
      /\ reg.events[e].owner = None /\ reg.events[f].owner = None
      /\ reg' = NewEvent(NewEvent(reg, e, c), f, p)
      /\ op.pc = "free" /\ p \in running /\ c \in running
      /\ UNCHANGED <<running, epoch, op, isr, owed, dead>>
  BY ConnectEvents, Zenon
<1> HIDE DEF e, f
<1>2. /\ reg' \in Registries /\ Good(reg', running, op, isr, owed)
      /\ reg'.sets = reg.sets /\ reg'.hw = reg.hw /\ reg'.asleep = reg.asleep
      /\ \A k \in 1 .. MaxEvents :
               /\ reg'.events[k].gen = reg.events[k].gen
               /\ k # e /\ k # f => reg'.events[k] = reg.events[k]
      /\ reg'.events[e].owner = c /\ reg'.events[f].owner = p
  <2>1. reg' \in Registries /\ Good(reg', running, op, isr, owed) /\ IsJoined(reg, e, f, c, p, reg')
    <3>1. Joins(reg, running, e, f, c, p, reg')
      BY Zenon, <1>1 DEF Joins
    <3>2. op.pc = "free"
      BY Zenon, <1>1
    <3> QED BY Zenon, <3>1, <3>2, Parts, NewEventsGood
  <2> QED BY Zenon, <2>1 DEF IsJoined
<1> QED BY Zenon, <1>1, <1>2 DEF EInv, TypeOK

(* A signal by IPC keeps it too, also when the event is gone.               *)
LEMMA SignaledKeeps ==
  ASSUME EInv, op.pc = "free", NEW e, reg' = Signaled(reg, e), owed' = owed \cup ({e} \cap LiveEvents(reg)),
         UNCHANGED <<running, epoch, op, isr, dead>>
  PROVE  EInv'
<1>1. CASE e \in LiveEvents(reg)
  <2>1. reg' = SignalEvent(reg, e) /\ owed' = owed \cup {e}
    BY Zenon, <1>1 DEF Signaled
  <2> QED BY Zenon, <1>1, <2>1, SignalKeeps
<1>2. CASE e \notin LiveEvents(reg)
  <2>1. reg' = reg /\ owed' = owed
    BY Zenon, <1>2 DEF Signaled
  <2> QED BY Zenon, <2>1 DEF EInv, TypeOK
<1> QED BY Zenon, <1>1, <1>2

(* So does stopping a service with its endpoints.                           *)
LEMMA StopIpcKeeps ==
  ASSUME EInv, NEW o \in Services, StopIpcService(o)
  PROVE  EInv'
<1> DEFINE E == EndEvents(EndsOf(o))
<1>1. E \in SUBSET Handles
  BY Zenon, Parts, LiveIn DEF EndEvents
<1>2. /\ op.pc = "free" /\ running' = running \ {o}
      /\ reg' = DestroyService(DestroyEvents([reg EXCEPT !.asleep[o] = None], E), o)
      /\ owed' = owed \ (E \cup EventsOf(reg, o)) /\ dead' = dead \cup (E \cup EventsOf(reg, o))
      /\ UNCHANGED <<epoch, op, isr>>
  BY Zenon DEF StopIpcService
<1> HIDE DEF E
<1> QED BY Zenon, <1>1, <1>2, StopKeeps

(* A step of the IPC registry preserves the invariant of the events.        *)
LEMMA IpcStepKeeps == EInv /\ [IpcNext]_allVars => EInv'
<1> SUFFICES ASSUME EInv, [IpcNext]_allVars PROVE EInv'
  BY Zenon
<1>0. ASSUME UNCHANGED vars PROVE EInv'
  BY Zenon, <1>0 DEF vars, EInv, TypeOK
<1>1. CASE UNCHANGED allVars
  BY Zenon, <1>0, <1>1 DEF allVars
<1>2. ASSUME NEW p \in Services, NEW c \in Services, NEW n \in Sizes, Connect(p, c, n) PROVE EInv'
  BY Zenon, <1>2, ConnectKeeps
<1>3. ASSUME NEW p \in LiveEnds, DestroyEndpoint(p) PROVE EInv'
  <2> DEFINE E == EndEvents({p})
  <2>1. /\ op.pc = "free" /\ E \subseteq LiveEvents(reg) /\ reg' = DestroyEvents(reg, E)
        /\ owed' = owed \ E /\ dead' = dead \cup E /\ UNCHANGED <<running, epoch, op, isr>>
    BY Zenon, <1>3 DEF DestroyEndpoint, EndEvents
  <2> HIDE DEF E
  <2> QED BY Zenon, <2>1, DestroyKeeps
<1>4. ASSUME NEW o \in Services, StopIpcService(o) PROVE EInv'
  BY Zenon, <1>4, StopIpcKeeps
<1>5. ASSUME NEW o \in Services, NEW k \in LiveCaps, Send(o, k) \/ SendFull(o, k) \/ Receive(o, k) \/ ReceiveEmpty(o, k)
      PROVE  EInv'
  <2> DEFINE i == caps[k[1]].end[1]
  <2>1. CASE Send(o, k)
    <3> DEFINE e == ends[i].rd
    <3>1. /\ op.pc = "free" /\ reg' = Signaled(reg, e) /\ owed' = owed \cup ({e} \cap LiveEvents(reg))
          /\ UNCHANGED <<running, epoch, op, isr, dead>>
      BY Zenon, <2>1 DEF Send, Caller
    <3> HIDE DEF e
    <3> QED BY Zenon, <3>1, SignaledKeeps
  <2>2. CASE Receive(o, k)
    <3> DEFINE e == ends[i].wr
    <3>1. /\ op.pc = "free" /\ reg' = Signaled(reg, e) /\ owed' = owed \cup ({e} \cap LiveEvents(reg))
          /\ UNCHANGED <<running, epoch, op, isr, dead>>
      BY Zenon, <2>2 DEF Receive, Caller
    <3> HIDE DEF e
    <3> QED BY Zenon, <3>1, SignaledKeeps
  <2>3. CASE SendFull(o, k)
    BY Zenon, <1>0, <2>3 DEF SendFull
  <2>4. CASE ReceiveEmpty(o, k)
    BY Zenon, <1>0, <2>4 DEF ReceiveEmpty
  <2> QED BY Zenon, <1>5, <2>1, <2>2, <2>3, <2>4
<1>6. CASE Report
  BY Zenon, <1>6, WaitConsumeKeeps DEF Report
<1>7. CASE EventStep
  BY Zenon, <1>7, SetCallKeeps, TimerWakeKeeps, StartServiceKeeps, WaitScanKeeps, WaitTimeoutKeeps, WaitPublishKeeps,
     WaitRegisterKeeps, WaitRecheckKeeps, InterruptKeeps DEF EventStep
<1> QED BY Zenon, <1>1, <1>2, <1>3, <1>4, <1>5, <1>6, <1>7 DEF IpcNext, IpcCall

(* The handle names a live endpoint.                                        *)
LiveEnd(E, p) == p \in EndHandles /\ E[p[1]].gen = p[2] /\ E[p[1]].owner # None

(* The event is live, or its slot has moved on to a later generation.       *)
Known(r, e) == /\ e \in Handles
               /\ r.events[e[1]].gen >= e[2]
               /\ r.events[e[1]].gen = e[2] => r.events[e[1]].owner # None

(* No slot of events goes back to an earlier generation, or is vacated in   *)
(* the one that it is in.                                                   *)
Later(r, q) == \A i \in 1 .. MaxEvents :
    /\ q.events[i].gen >= r.events[i].gen
    /\ q.events[i].gen = r.events[i].gen /\ r.events[i].owner # None => q.events[i].owner # None

(* In a ring f of size n, from h to t, are the last l of m messages.        *)
Holds(n, h, l, t, m, f) ==
    /\ (h + l) % n = t
    /\ \A j \in 0 .. l - 1 : f[(h + j) % n] = m - l + j + 1

(* The ring of an endpoint holds its last len messages, oldest at the head. *)
Fifo(x) ==
    /\ x.size \in Sizes
    /\ x.ring \in [0 .. x.size - 1 -> 0 .. MaxSent]
    /\ x.head \in 0 .. x.size - 1 /\ x.tail \in 0 .. x.size - 1
    /\ x.len \in 0 .. x.size /\ x.sent \in 0 .. MaxSent
    /\ Holds(x.size, x.head, x.len, x.tail, x.sent, x.ring)

(* An endpoint joins running services, and knows its two events.            *)
EndOK(r, R, x) ==
    /\ Fifo(x)
    /\ x.owner \in R /\ x.consumer \in R
    /\ Known(r, x.rd) /\ Known(r, x.wr)

(* A capability is its owner's own end of a live endpoint.                  *)
CapOK(E, c) ==
    /\ LiveEnd(E, c.end)
    /\ c.owner = IF c.rights = "Send" THEN E[c.end[1]].owner ELSE E[c.end[1]].consumer

(* A consumer that saw Empty is owed its read event once there is something *)
(* to read, and a producer that saw Full its write event once there is room. *)
ToldRead(r, W, x) == x.len > 0 /\ LiveEvent(r, x.rd) => x.rd \in W
(* A producer of an endpoint with room has been told.                       *)
ToldWrite(r, W, x) == x.len < x.size /\ LiveEvent(r, x.wr) => x.wr \in W

(* Endpoints, capabilities, events and what their owners were told fit      *)
(* together.                                                                *)
Linked(r, R, W, E, C, S, T) ==
    /\ E \in [1 .. MaxEnds -> EndSlots] /\ C \in [1 .. MaxCaps -> CapSlots]
    /\ \A i \in 1 .. MaxEnds : E[i].owner # None => EndOK(r, R, E[i])
    /\ \A i \in 1 .. MaxCaps : C[i].owner # None => CapOK(E, C[i])
    /\ \A p \in S : LiveEnd(E, p) /\ ToldRead(r, W, E[p[1]])
    /\ \A p \in T : LiveEnd(E, p) /\ ToldWrite(r, W, E[p[1]])

(* The inductive invariant of the composed registries.                      *)
IpcInv == EInv /\ Linked(reg, running, owed, ends, caps, settled, stalled)

(* Endpoint and capability handles are pairs of a slot and a generation.    *)
LEMMA EndPairs ==
  /\ \A p \in EndHandles : p = <<p[1], p[2]>> /\ p[1] \in 1 .. MaxEnds /\ p[2] \in Nat
  /\ \A k \in CapHandles : k = <<k[1], k[2]>> /\ k[1] \in 1 .. MaxCaps /\ k[2] \in Nat
BY DEF EndHandles, CapHandles

(* A handle once given out stays known, and does not come back to life.     *)
LEMMA StillKnown ==
  ASSUME NEW r \in Registries, NEW q \in Registries, Later(r, q), NEW e, Known(r, e)
  PROVE  Known(q, e) /\ (LiveEvent(q, e) => LiveEvent(r, e))
<1>1. e[1] \in 1 .. MaxEvents /\ e \in Handles /\ e[2] \in Nat
  BY Zenon, Pairs DEF Known
<1>2. q.events[e[1]].gen \in Nat /\ r.events[e[1]].gen \in Nat
  BY Zenon, <1>1, SlotFields
<1>3. /\ q.events[e[1]].gen >= r.events[e[1]].gen
      /\ q.events[e[1]].gen = r.events[e[1]].gen /\ r.events[e[1]].owner # None => q.events[e[1]].owner # None
  BY Zenon, <1>1 DEF Later
<1> QED BY <1>1, <1>2, <1>3 DEF Known, LiveEvent

(* What is owed and still there is still owed, but for the reported event.  *)
Carried(q, W, V, z) == \A e \in W : LiveEvent(q, e) /\ e # z => e \in V

(* No endpoint that is still settled or stalled has the reported event.     *)
Spared(E, X, Y, z) == (\A p \in X : E[p[1]].rd # z) /\ (\A p \in Y : E[p[1]].wr # z)

(* A step of the events keeps the links; z is the event that it reports.    *)
LEMMA EventsPass ==
  ASSUME NEW r \in Registries, NEW q \in Registries, Later(r, q),
         NEW R, NEW Q, R \subseteq Q, NEW W, NEW V, NEW E, NEW C, NEW S, NEW T, NEW X, NEW Y,
         Linked(r, R, W, E, C, S, T), X \subseteq S, Y \subseteq T,
         NEW z, Carried(q, W, V, z), Spared(E, X, Y, z)
  PROVE  Linked(q, Q, V, E, C, X, Y)
<1>1. ASSUME NEW i \in 1 .. MaxEnds, E[i].owner # None PROVE EndOK(q, Q, E[i])
  <2>1. EndOK(r, R, E[i])
    BY Zenon, <1>1 DEF Linked
  <2> QED BY Zenon, <2>1, StillKnown DEF EndOK
<1>2. ASSUME NEW p \in X PROVE LiveEnd(E, p) /\ ToldRead(q, V, E[p[1]])
  <2>1. LiveEnd(E, p) /\ ToldRead(r, W, E[p[1]]) /\ E[p[1]].rd # z
    BY Zenon DEF Linked, Spared
  <2>2. p[1] \in 1 .. MaxEnds /\ E[p[1]].owner # None
    BY Zenon, <2>1, EndPairs DEF LiveEnd
  <2>3. Known(r, E[p[1]].rd)
    BY Zenon, <2>2 DEF Linked, EndOK
  <2>4. LiveEvent(q, E[p[1]].rd) => LiveEvent(r, E[p[1]].rd)
    BY <2>3, StillKnown
  <2> QED BY Zenon, <2>1, <2>4 DEF ToldRead, Carried
<1>3. ASSUME NEW p \in Y PROVE LiveEnd(E, p) /\ ToldWrite(q, V, E[p[1]])
  <2>1. LiveEnd(E, p) /\ ToldWrite(r, W, E[p[1]]) /\ E[p[1]].wr # z
    BY Zenon DEF Linked, Spared
  <2>2. p[1] \in 1 .. MaxEnds /\ E[p[1]].owner # None
    BY Zenon, <2>1, EndPairs DEF LiveEnd
  <2>3. Known(r, E[p[1]].wr)
    BY Zenon, <2>2 DEF Linked, EndOK
  <2>4. LiveEvent(q, E[p[1]].wr) => LiveEvent(r, E[p[1]].wr)
    BY Zenon, <2>3, StillKnown
  <2> QED BY Zenon, <2>1, <2>4 DEF ToldWrite, Carried
<1> QED BY Zenon, <1>1, <1>2, <1>3 DEF Linked

(* Arithmetic of the ring.                                                  *)
LEMMA Around ==
  ASSUME NEW n \in Nat \ {0}, NEW a \in 0 .. n - 1, NEW b \in 0 .. n
  PROVE  /\ a + b < n => (a + b) % n = a + b
         /\ a + b >= n => (a + b) % n = a + b - n
<1>1. CASE a + b < n
  <2>1. \A c \in 0 .. n - 1 : c % n = c
    OBVIOUS
  <2>2. a + b \in 0 .. n - 1
    BY <1>1
  <2> QED BY <1>1, <2>1, <2>2
<1>2. CASE a + b >= n
  <2>1. \A c \in n .. 2 * n - 1 : c % n = c - n
    OBVIOUS
  <2>2. a + b \in n .. 2 * n - 1
    BY <1>2
  <2> QED BY <1>2, <2>1, <2>2
<1> QED BY Zenon, <1>1, <1>2

(* A message put at the tail leaves those before it in their place.         *)
LEMMA RingPut ==
  ASSUME NEW n \in Nat \ {0}, NEW h \in 0 .. n - 1, NEW l \in 0 .. n - 1, NEW t \in 0 .. n - 1, NEW m \in Nat,
         NEW f, DOMAIN f = 0 .. n - 1,
         Holds(n, h, l, t, m, f),
         NEW g, g = [f EXCEPT ![t] = m + 1]
  PROVE  Holds(n, h, l + 1, (t + 1) % n, m + 1, g)
<1>0. (h + l) % n = t /\ \A j \in 0 .. l - 1 : f[(h + j) % n] = m - l + j + 1
  BY Zenon DEF Holds
<1>1. \A j \in 0 .. n : /\ h + j < n => (h + j) % n = h + j
                        /\ h + j >= n => (h + j) % n = h + j - n
  BY Zenon, Around
<1>2. /\ h + l < n => t = h + l
      /\ h + l >= n => t = h + l - n
  BY <1>0, <1>1
<1>3. /\ t + 1 < n => (t + 1) % n = t + 1
      /\ t + 1 >= n => (t + 1) % n = t + 1 - n
  <2>1. 1 \in 0 .. n
    OBVIOUS
  <2> QED BY Zenon, <2>1, Around
<1>4. (h + (l + 1)) % n = (t + 1) % n
  <2>1. l + 1 \in 0 .. n
    OBVIOUS
  <2>2. /\ h + (l + 1) < n => (h + (l + 1)) % n = h + (l + 1)
        /\ h + (l + 1) >= n => (h + (l + 1)) % n = h + (l + 1) - n
    BY Zenon, <1>1, <2>1
  <2> QED BY <1>2, <1>3, <2>2
<1>5. ASSUME NEW j \in 0 .. l PROVE g[(h + j) % n] = (m + 1) - (l + 1) + j + 1
  <2>1. CASE j = l
    <3>1. g[t] = m + 1
      BY Zenon
    <3>2. (m + 1) - (l + 1) + l + 1 = m + 1
      OBVIOUS
    <3> QED BY Zenon, <1>0, <2>1, <3>1, <3>2
  <2>2. CASE j # l
    <3>1. j \in 0 .. l - 1
      BY <2>2
    <3>2. (h + j) % n # t /\ (h + j) % n \in 0 .. n - 1
      BY <1>1, <1>2, <3>1
    <3>3. g[(h + j) % n] = f[(h + j) % n]
      BY Zenon, <3>2
    <3>4. f[(h + j) % n] = m - l + j + 1
      BY Zenon, <1>0, <3>1
    <3>5. m - l + j + 1 = (m + 1) - (l + 1) + j + 1
      OBVIOUS
    <3> QED BY Zenon, <3>3, <3>4, <3>5
  <2> QED BY Zenon, <2>1, <2>2
<1>6. (l + 1) - 1 = l
  OBVIOUS
<1> QED BY <1>4, <1>5, <1>6, Zenon DEF Holds

(* The head moves past the oldest message.                                  *)
LEMMA RingTake ==
  ASSUME NEW n \in Nat \ {0}, NEW h \in 0 .. n - 1, NEW l \in 1 .. n, NEW t, NEW m \in Nat, NEW f,
         Holds(n, h, l, t, m, f)
  PROVE  Holds(n, (h + 1) % n, l - 1, t, m, f)
<1>0. (h + l) % n = t /\ \A j \in 0 .. l - 1 : f[(h + j) % n] = m - l + j + 1
  BY Zenon DEF Holds
<1> DEFINE k == (h + 1) % n
<1>1. \A j \in 0 .. n : /\ h + j < n => (h + j) % n = h + j
                        /\ h + j >= n => (h + j) % n = h + j - n
  BY Zenon, Around
<1>2. /\ h + 1 < n => k = h + 1
      /\ h + 1 >= n => k = h + 1 - n
  <2>1. 1 \in 0 .. n
    OBVIOUS
  <2> QED BY Zenon, <1>1, <2>1
<1>3. k \in 0 .. n - 1
  BY <1>2
<1> HIDE DEF k
<1>4. \A j \in 0 .. n : /\ k + j < n => (k + j) % n = k + j
                        /\ k + j >= n => (k + j) % n = k + j - n
  BY Zenon, <1>3, Around
<1>5. \A j \in 0 .. l - 1 : (k + j) % n = (h + (j + 1)) % n
  <2> TAKE j \in 0 .. l - 1
  <2>1. j \in 0 .. n /\ j + 1 \in 0 .. n
    OBVIOUS
  <2>2. /\ h + (j + 1) < n => (h + (j + 1)) % n = h + (j + 1)
        /\ h + (j + 1) >= n => (h + (j + 1)) % n = h + (j + 1) - n
    BY Zenon, <1>1, <2>1
  <2>3. /\ k + j < n => (k + j) % n = k + j
        /\ k + j >= n => (k + j) % n = k + j - n
    BY Zenon, <1>4, <2>1
  <2> QED BY <1>2, <1>3, <2>2, <2>3
<1>6. (k + (l - 1)) % n = t
  <2>1. l - 1 \in 0 .. l - 1 /\ (l - 1) + 1 = l
    OBVIOUS
  <2> QED BY Zenon, <1>0, <1>5, <2>1
<1>7. ASSUME NEW j \in 0 .. l - 2 PROVE f[(k + j) % n] = m - (l - 1) + j + 1
  <2>1. j + 1 \in 0 .. l - 1 /\ j \in 0 .. l - 1
    OBVIOUS
  <2>2. f[(h + (j + 1)) % n] = m - l + (j + 1) + 1
    BY Zenon, <1>0, <2>1
  <2>3. m - l + (j + 1) + 1 = m - (l - 1) + j + 1
    OBVIOUS
  <2> QED BY Zenon, <1>5, <2>1, <2>2, <2>3
<1>8. (l - 1) - 1 = l - 2
  OBVIOUS
<1> QED BY <1>6, <1>7, <1>8, Zenon DEF Holds, k

(* What Fifo says, with the types that the constants give.                  *)
LEMMA FifoFacts ==
  ASSUME NEW x, Fifo(x)
  PROVE  /\ x.size \in Sizes /\ x.size \in Nat \ {0} /\ MaxSent \in Nat
         /\ x.ring \in [0 .. x.size - 1 -> 0 .. MaxSent]
         /\ x.head \in 0 .. x.size - 1 /\ x.tail \in 0 .. x.size - 1
         /\ x.len \in 0 .. x.size /\ x.sent \in 0 .. MaxSent
         /\ Holds(x.size, x.head, x.len, x.tail, x.sent, x.ring)
<1>1. /\ x.size \in Sizes
      /\ x.ring \in [0 .. x.size - 1 -> 0 .. MaxSent]
      /\ x.head \in 0 .. x.size - 1 /\ x.tail \in 0 .. x.size - 1
      /\ x.len \in 0 .. x.size /\ x.sent \in 0 .. MaxSent
      /\ Holds(x.size, x.head, x.len, x.tail, x.sent, x.ring)
  BY Zenon DEF Fifo
<1>2. x.size \in Nat \ {0} /\ MaxSent \in Nat
  BY Zenon, <1>1, IpcAssumption
<1> QED BY <1>1, <1>2, Zenon

(* The types of an endpoint slot.                                           *)
LEMMA EndFields ==
  ASSUME NEW x \in EndSlots
  PROVE  /\ x.gen \in Nat /\ x.owner \in Services \cup {None} /\ x.consumer \in Services \cup {None}
         /\ x.size \in Nat /\ x.rd \in Handles \cup {None} /\ x.wr \in Handles \cup {None}
         /\ x.ring \in UNION {[0 .. n - 1 -> 0 .. MaxSent] : n \in Sizes \cup {0}}
         /\ x.head \in Nat /\ x.tail \in Nat /\ x.len \in Nat /\ x.sent \in Nat
         /\ x = [gen |-> x.gen, owner |-> x.owner, consumer |-> x.consumer, size |-> x.size, rd |-> x.rd,
                 wr |-> x.wr, ring |-> x.ring, head |-> x.head, tail |-> x.tail, len |-> x.len, sent |-> x.sent]
BY Zenon DEF EndSlots

(* enqueue writes at the tail and moves it on.                              *)
LEMMA EnqueuedFields ==
  ASSUME NEW x \in EndSlots, Fifo(x), x.len < x.size, x.sent < MaxSent,
         NEW y, y = Enqueued(x)
  PROVE  /\ y \in EndSlots
         /\ y.gen = x.gen /\ y.owner = x.owner /\ y.consumer = x.consumer /\ y.size = x.size
         /\ y.rd = x.rd /\ y.wr = x.wr /\ y.len = x.len + 1 /\ y.sent = x.sent + 1 /\ y.head = x.head
         /\ y.tail = (x.tail + 1) % x.size
         /\ y.ring = [x.ring EXCEPT ![x.tail] = x.sent + 1]
<1> DEFINE g == [x.ring EXCEPT ![x.tail] = x.sent + 1]
           t == (x.tail + 1) % x.size
<1>1. y = [x EXCEPT !.ring = g, !.tail = t, !.len = x.len + 1, !.sent = x.sent + 1]
  BY Zenon DEF Enqueued
<1>2. x.size \in Sizes /\ x.size \in Nat \ {0} /\ x.tail \in 0 .. x.size - 1 /\ x.sent + 1 \in 0 .. MaxSent
  <2>1. x.sent \in 0 .. MaxSent /\ MaxSent \in Nat
    BY Zenon, FifoFacts
  <2> QED BY <2>1, FifoFacts
<1>3. g \in [0 .. x.size - 1 -> 0 .. MaxSent]
  BY Zenon, <1>2, FifoFacts
<1>4. g \in UNION {[0 .. n - 1 -> 0 .. MaxSent] : n \in Sizes \cup {0}}
  BY Zenon, <1>2, <1>3
<1>5. t \in Nat
  BY <1>2
<1> HIDE DEF g, t
<1>6. y = [gen |-> x.gen, owner |-> x.owner, consumer |-> x.consumer, size |-> x.size, rd |-> x.rd,
                 wr |-> x.wr, ring |-> g, head |-> x.head, tail |-> t, len |-> x.len + 1, sent |-> x.sent + 1]
  <2>1. x = [gen |-> x.gen, owner |-> x.owner, consumer |-> x.consumer, size |-> x.size, rd |-> x.rd,
                 wr |-> x.wr, ring |-> x.ring, head |-> x.head, tail |-> x.tail, len |-> x.len, sent |-> x.sent]
    BY Zenon, EndFields
  <2> QED BY Zenon, <1>1, <2>1
<1>7. y \in EndSlots
  BY <1>4, <1>5, <1>6, EndFields DEF EndSlots
<1> QED BY <1>6, <1>7 DEF g, t

(* enqueue keeps the ring in order.                                         *)
LEMMA EnqueuedFifo ==
  ASSUME NEW x \in EndSlots, Fifo(x), x.len < x.size, x.sent < MaxSent,
         NEW y, y = Enqueued(x)
  PROVE  Fifo(y)
<1> DEFINE n == x.size
           h == x.head
           l == x.len
           t == x.tail
           m == x.sent
           f == x.ring
           g == y.ring
<1>1. /\ y.size = n /\ y.len = l + 1 /\ y.sent = m + 1 /\ y.head = h
      /\ y.tail = (t + 1) % n /\ g = [f EXCEPT ![t] = m + 1]
  BY Zenon, EnqueuedFields
<1>2. /\ n \in Sizes /\ n \in Nat \ {0} /\ MaxSent \in Nat
      /\ f \in [0 .. n - 1 -> 0 .. MaxSent]
      /\ h \in 0 .. n - 1 /\ t \in 0 .. n - 1
      /\ l \in 0 .. n /\ m \in 0 .. MaxSent
      /\ Holds(n, h, l, t, m, f)
  BY Zenon, FifoFacts
<1>3. l < n /\ m < MaxSent
  BY Zenon
<1> HIDE DEF n, h, l, t, m, f, g
<1>4. l \in 0 .. n - 1 /\ m \in Nat /\ m + 1 \in 0 .. MaxSent /\ l + 1 \in 0 .. n
  BY <1>2, <1>3
<1>5. DOMAIN f = 0 .. n - 1 /\ g \in [0 .. n - 1 -> 0 .. MaxSent]
  BY Zenon, <1>1, <1>2, <1>4
<1>6. Holds(n, h, l + 1, (t + 1) % n, m + 1, g)
  BY Zenon, <1>1, <1>2, <1>4, <1>5, RingPut
<1>7. (t + 1) % n \in 0 .. n - 1
  BY <1>2
<1> QED BY <1>1, <1>2, <1>4, <1>5, <1>6, <1>7, Zenon DEF Fifo, g

(* dequeue moves the head on.                                               *)
LEMMA DequeuedFields ==
  ASSUME NEW x \in EndSlots, Fifo(x), x.len > 0,
         NEW y, y = Dequeued(x)
  PROVE  /\ y \in EndSlots
         /\ y.gen = x.gen /\ y.owner = x.owner /\ y.consumer = x.consumer /\ y.size = x.size
         /\ y.rd = x.rd /\ y.wr = x.wr /\ y.len = x.len - 1 /\ y.sent = x.sent /\ y.tail = x.tail
         /\ y.head = (x.head + 1) % x.size /\ y.ring = x.ring
<1> DEFINE h == (x.head + 1) % x.size
           l == x.len - 1
<1>1. y = [x EXCEPT !.head = h, !.len = l]
  BY Zenon DEF Dequeued
<1>2. h \in Nat /\ l \in Nat
  <2>1. x.size \in Nat \ {0} /\ x.head \in 0 .. x.size - 1 /\ x.len \in 0 .. x.size
    BY Zenon, FifoFacts
  <2> QED BY <2>1
<1> HIDE DEF h, l
<1>6. y = [gen |-> x.gen, owner |-> x.owner, consumer |-> x.consumer, size |-> x.size, rd |-> x.rd,
                 wr |-> x.wr, ring |-> x.ring, head |-> h, tail |-> x.tail, len |-> l, sent |-> x.sent]
  <2>1. x = [gen |-> x.gen, owner |-> x.owner, consumer |-> x.consumer, size |-> x.size, rd |-> x.rd,
                 wr |-> x.wr, ring |-> x.ring, head |-> x.head, tail |-> x.tail, len |-> x.len, sent |-> x.sent]
    BY Zenon, EndFields
  <2> QED BY Zenon, <1>1, <2>1
<1>7. y \in EndSlots
  BY <1>2, <1>6, EndFields DEF EndSlots
<1> QED BY <1>6, <1>7 DEF h, l

(* dequeue keeps the ring in order.                                         *)
LEMMA DequeuedFifo ==
  ASSUME NEW x \in EndSlots, Fifo(x), x.len > 0,
         NEW y, y = Dequeued(x)
  PROVE  Fifo(y)
<1> DEFINE n == x.size
           h == x.head
           l == x.len
           t == x.tail
           m == x.sent
           f == x.ring
<1>1. /\ y.size = n /\ y.len = l - 1 /\ y.sent = m /\ y.head = (h + 1) % n
      /\ y.tail = t /\ y.ring = f
  BY Zenon, DequeuedFields
<1>2. /\ n \in Sizes /\ n \in Nat \ {0} /\ MaxSent \in Nat
      /\ f \in [0 .. n - 1 -> 0 .. MaxSent]
      /\ h \in 0 .. n - 1 /\ t \in 0 .. n - 1
      /\ l \in 0 .. n /\ m \in 0 .. MaxSent
      /\ Holds(n, h, l, t, m, f)
  BY Zenon, FifoFacts
<1>3. l > 0
  BY Zenon
<1> HIDE DEF n, h, l, t, m, f
<1>4. l \in 1 .. n /\ m \in Nat /\ l - 1 \in 0 .. n
  BY <1>2, <1>3
<1>6. Holds(n, (h + 1) % n, l - 1, t, m, f)
  BY Zenon, <1>2, <1>4, RingTake
<1>7. (h + 1) % n \in 0 .. n - 1
  BY <1>2
<1> QED BY <1>1, <1>2, <1>4, <1>6, <1>7, Zenon DEF Fifo

(* Generations and owners that stay as they are make a later registry.      *)
LEMMA SteadyLater ==
  ASSUME NEW r \in Registries, NEW q \in Registries,
         \A i \in 1 .. MaxEvents : q.events[i].gen = r.events[i].gen /\ q.events[i].owner = r.events[i].owner
  PROVE  Later(r, q)
<1>1. \A i \in 1 .. MaxEvents : r.events[i].gen \in Nat
  BY Zenon, SlotFields
<1> QED BY <1>1 DEF Later

(* What is live in q was live in r, under the same owner, and is not in E.  *)
Outlives(r, E, q) ==
    \A e \in Handles : LiveEvent(q, e) =>
        LiveEvent(r, e) /\ e \notin E /\ q.events[e[1]].owner = r.events[e[1]].owner

(* So does the destruction of events, which also ends the destroyed ones.   *)
LEMMA DestroyedLater ==
  ASSUME NEW r \in Registries, NEW E, NEW q, EventsDestroyed(r, E, q)
  PROVE  q \in Registries /\ Later(r, q) /\ Outlives(r, E, q)
<1>1. \A i \in 1 .. MaxEvents : r.events[i].gen \in Nat
  BY Zenon, SlotFields
<1>2. q \in Registries
  BY Zenon DEF EventsDestroyed
<1>3. \A i \in 1 .. MaxEvents :
         IF <<i, r.events[i].gen>> \in E
         THEN q.events[i].gen = r.events[i].gen + 1 /\ q.events[i].owner = None
              /\ q.events[i].signaled = FALSE
         ELSE q.events[i] = r.events[i]
  BY Zenon DEF EventsDestroyed
<1>4. Later(r, q)
  <2>1. ASSUME NEW i \in 1 .. MaxEvents
        PROVE  /\ q.events[i].gen >= r.events[i].gen
               /\ q.events[i].gen = r.events[i].gen /\ r.events[i].owner # None => q.events[i].owner # None
    <3>1. CASE <<i, r.events[i].gen>> \in E
      <4>1. q.events[i].gen = r.events[i].gen + 1
        BY Zenon, <1>3, <3>1
      <4>2. r.events[i].gen \in Nat
        BY Zenon, <1>1
      <4> QED BY <4>1, <4>2
    <3>2. CASE <<i, r.events[i].gen>> \notin E
      <4>1. q.events[i] = r.events[i]
        BY Zenon, <1>3, <3>2
      <4>2. r.events[i].gen \in Nat
        BY Zenon, <1>1
      <4> QED BY <4>1, <4>2
    <3> QED BY Zenon, <3>1, <3>2
  <2> QED BY <2>1, Zenon DEF Later
<1>5. ASSUME NEW e \in Handles, LiveEvent(q, e)
      PROVE  LiveEvent(r, e) /\ e \notin E /\ q.events[e[1]].owner = r.events[e[1]].owner
  <2>1. e = <<e[1], e[2]>> /\ e[1] \in 1 .. MaxEvents
    BY Zenon, Pairs
  <2>2. q.events[e[1]].owner # None /\ q.events[e[1]].gen = e[2]
    BY Zenon, <1>5 DEF LiveEvent
  <2>3. <<e[1], r.events[e[1]].gen>> \notin E /\ q.events[e[1]] = r.events[e[1]]
    BY Zenon, <1>3, <2>1, <2>2
  <2>4. r.events[e[1]].gen = e[2] /\ r.events[e[1]].owner # None
    BY Zenon, <2>2, <2>3
  <2>5. e \notin E
    BY Zenon, <2>1, <2>3, <2>4
  <2> QED BY Zenon, <2>3, <2>4, <2>5 DEF LiveEvent
<1> QED BY Zenon, <1>2, <1>4, <1>5 DEF Outlives

(* An endpoint's events are handles.                                        *)
LEMMA EndsKnow ==
  ASSUME NEW r, NEW R, NEW W, NEW E, NEW C, NEW S, NEW T, Linked(r, R, W, E, C, S, T)
  PROVE  Spared(E, S, T, None)
<1>1. ASSUME NEW p \in S \cup T PROVE E[p[1]].rd # None /\ E[p[1]].wr # None
  <2>1. p[1] \in 1 .. MaxEnds /\ E[p[1]].owner # None
    BY Zenon, EndPairs DEF Linked, LiveEnd
  <2>2. E[p[1]].rd \in Handles /\ E[p[1]].wr \in Handles
    BY Zenon, <2>1 DEF Linked, EndOK, Known
  <2> QED BY Zenon, <2>2, Pairs
<1> QED BY Zenon, <1>1 DEF Spared

(* A step that leaves the events as they are keeps the links.               *)
LEMMA QuietPass ==
  ASSUME IpcInv, EInv', reg'.events = reg.events, running \subseteq running', owed \subseteq owed',
         UNCHANGED ipcVars
  PROVE  IpcInv'
<1>1. /\ reg \in Registries /\ reg' \in Registries /\ Later(reg, reg')
  <2>1. reg \in Registries /\ reg' \in Registries
    BY Zenon DEF IpcInv, EInv, TypeOK
  <2> QED BY Zenon, <2>1, SteadyLater
<1>2. Linked(reg, running, owed, ends, caps, settled, stalled)
  BY Zenon DEF IpcInv
<1>3. Spared(ends, settled, stalled, None)
  BY Zenon, <1>2, EndsKnow
<1>4. Carried(reg', owed, owed', None)
  BY Zenon DEF Carried
<1>5. Linked(reg', running', owed', ends, caps, settled, stalled)
  BY Zenon, <1>1, <1>2, <1>3, <1>4, EventsPass
<1> QED BY Zenon, <1>5 DEF IpcInv, ipcVars

(* What a call on sets does to events: nothing, unless it destroys one.     *)
LEMMA SetCallQuiet ==
  ASSUME EInv, NEW o \in Services, SetCall(o)
  PROVE  \/ reg'.events = reg.events /\ running' = running /\ owed' = owed
         \/ \E e : reg' = DestroyEvents(reg, {e}) /\ owed' = owed \ {e} /\ running' = running
<1>0. reg \in Registries
  BY Zenon, Parts
<1> DEFINE Quiet == reg'.events = reg.events /\ running' = running /\ owed' = owed
<1>1. ASSUME CreateSet(o) PROVE Quiet
  <2> DEFINE i == First(Vacant(reg.sets))
  <2>1. Vacant(reg.sets) # {} /\ reg' = NewSet(reg, i, o) /\ running' = running /\ owed' = owed
    BY Zenon, <1>1 DEF CreateSet
  <2>3. i \in Vacant(reg.sets)
    <3>1. DOMAIN reg.sets \subseteq Nat
      <4>1. DOMAIN reg.sets = 1 .. MaxSets
        BY Zenon, <1>0, RegistryFields
      <4> QED BY <4>1, BoundsAssumption
    <3>2. Vacant(reg.sets) \in SUBSET Nat
      BY Zenon, <3>1 DEF Vacant
    <3> QED BY Zenon, <2>1, <3>2, FirstIn
  <2> HIDE DEF i
  <2>4. i \in 1 .. MaxSets
    BY Zenon, <1>0, <2>3, RegistryFields DEF Vacant
  <2>5. reg'.events = reg.events
    BY Zenon, <1>0, <2>1, <2>4, NewSetFields
  <2> QED BY Zenon, <2>1, <2>5
<1>2. ASSUME NEW s, DestroySet(o, s) PROVE Quiet
  <2>1. reg' = DestroySets(reg, {s}) /\ running' = running /\ owed' = owed
    BY Zenon, <1>2 DEF DestroySet
  <2>2. SetsDestroyed(reg, {s}, reg')
    BY Zenon, <1>0, <2>1, DestroySetsFields
  <2> QED BY Zenon, <2>1, <2>2 DEF SetsDestroyed
<1>3. ASSUME NEW s, Cancel(o, s) PROVE Quiet
  <2>0. PICK b \in BOOLEAN : b = FALSE
    BY Zenon
  <2> DEFINE q == [reg EXCEPT !.sets[s[1]].waiting = b]
  <2>1. s \in SetsOf(reg, o) /\ reg' = Wake(q, {s}) /\ running' = running /\ owed' = owed
    BY Zenon, <1>3, <2>0 DEF Cancel
  <2>2. s \in SetHandles
    BY Zenon, <1>0, <2>1, OwnedIn
  <2>3. IsPublished(reg, s, b, q)
    BY Zenon, <1>0, <2>2, WaitingFields
  <2> HIDE DEF q
  <2>4. q \in Registries /\ q.events = reg.events
    BY Zenon, <2>3 DEF IsPublished
  <2>5. reg'.events = q.events
    BY Zenon, <2>1, <2>4, WakeFields
  <2> QED BY Zenon, <2>1, <2>4, <2>5
<1>4. ASSUME NEW s, NEW due \in BOOLEAN, Wait(o, s, due) PROVE Quiet
  BY Zenon, <1>4 DEF Wait
<1>5. ASSUME NEW s, NEW e, Add(o, s, e) PROVE Quiet
  <2>1. e \in EventsOf(reg, o) /\ s \in SetsOf(reg, o) /\ reg' = AddMember(reg, s, e) /\ running' = running /\ owed' = owed
    BY Zenon, <1>5 DEF Add, Changeable
  <2>2. s \in SetHandles /\ e \in Handles
    BY Zenon, <1>0, <2>1, OwnedIn
  <2> QED BY <1>0, <2>1, <2>2, AddMemberFields
<1>6. ASSUME NEW s, NEW e, Remove(o, s, e) PROVE Quiet
  <2>1. s \in SetsOf(reg, o) /\ e \in Members(reg, s) /\ reg' = RemoveMember(reg, s, e) /\ running' = running /\ owed' = owed
    BY Zenon, <1>6 DEF Remove, Changeable
  <2>2. s \in SetHandles
    BY Zenon, <1>0, <2>1, OwnedIn
  <2>3. e \in Handles
    BY Zenon, <1>0, <2>1, <2>2, Pairs, MembersIn, InSetHandle
  <2>4. reg'.events = reg.events
    <3>1. reg' = RemoveMember(reg, s, e)
      BY Zenon, <2>1
    <3>2. IsRemoved(reg, s, e, reg')
      BY Zenon, <1>0, <2>2, <2>3, <3>1, RemoveMemberFields
    <3> QED BY Zenon, <3>2 DEF IsRemoved
  <2> QED BY <2>1, <2>4
<1>7. ASSUME NEW e, Destroy(o, e) PROVE reg' = DestroyEvents(reg, {e}) /\ owed' = owed \ {e} /\ running' = running
  BY Zenon, <1>7 DEF Destroy
<1> HIDE DEF Quiet
<1>8. Quiet \/ \E e : reg' = DestroyEvents(reg, {e}) /\ owed' = owed \ {e} /\ running' = running
  BY <1>1, <1>2, <1>3, <1>4, <1>5, <1>6, <1>7, Zenon DEF SetCall
<1> QED BY Zenon, <1>8 DEF Quiet

(* An endpoint's event that its owner destroys is owed no more.             *)
LEMMA DestroyPass ==
  ASSUME IpcInv, EInv', NEW e, reg' = DestroyEvents(reg, {e}), owed' = owed \ {e}, running' = running,
         UNCHANGED ipcVars
  PROVE  IpcInv'
<1>1. reg \in Registries /\ owed \in SUBSET Handles
  BY Zenon, Parts DEF IpcInv
<1> DEFINE D == {e}
<1>2. EventsDestroyed(reg, D, reg')
  BY Zenon, <1>1, DestroyEventsFields
<1>8. owed' = owed \ D
  BY Zenon
<1> HIDE DEF D
<1>3. /\ reg' \in Registries /\ Later(reg, reg')
      /\ \A f \in Handles : LiveEvent(reg', f) =>
            LiveEvent(reg, f) /\ f \notin D /\ reg'.events[f[1]].owner = reg.events[f[1]].owner
  <2>1. reg' \in Registries /\ Later(reg, reg') /\ Outlives(reg, D, reg')
    BY Zenon, <1>1, <1>2, DestroyedLater
  <2> QED BY Zenon, <2>1 DEF Outlives
<1>4. Linked(reg, running, owed, ends, caps, settled, stalled)
  BY Zenon DEF IpcInv
<1>5. Spared(ends, settled, stalled, None)
  BY Zenon, <1>4, EndsKnow
<1>6. Carried(reg', owed, owed', None)
  BY Zenon, <1>1, <1>3, <1>8 DEF Carried
<1>7. Linked(reg', running', owed', ends, caps, settled, stalled)
  BY Zenon, <1>1, <1>3, <1>4, <1>5, <1>6, EventsPass
<1> QED BY Zenon, <1>7 DEF IpcInv, ipcVars

(* The steps of a wait that report nothing leave the events as they are.    *)
LEMMA WaitQuiet ==
  ASSUME EInv, WaitScan \/ WaitTimeout \/ WaitPublish \/ WaitRegister \/ WaitRecheck
  PROVE  reg'.events = reg.events /\ running' = running /\ owed' = owed
<1>0. reg \in Registries
  BY Zenon, Parts
<1>1. ASSUME NEW b \in BOOLEAN, op.pc = "scan", reg' = [reg EXCEPT !.sets[op.set[1]].waiting = b]
      PROVE reg'.events = reg.events
  <2>1. op.set \in SetHandles
    BY Zenon, <1>1, Parts, Standing
  <2>2. IsPublished(reg, op.set, b, reg')
    BY Zenon, <1>0, <1>1, <2>1, WaitingFields
  <2> QED BY Zenon, <2>2 DEF IsPublished
<1>2. CASE WaitScan
  BY Zenon, <1>2 DEF WaitScan
<1>3. CASE WaitTimeout
  <2>1. PICK b \in BOOLEAN : b = FALSE
    BY Zenon
  <2>2. op.pc = "scan" /\ reg' = [reg EXCEPT !.sets[op.set[1]].waiting = b] /\ running' = running /\ owed' = owed
    BY Zenon, <1>3, <2>1 DEF WaitTimeout
  <2> QED BY Zenon, <1>1, <2>2
<1>4. CASE WaitPublish
  <2>1. PICK b \in BOOLEAN : b = TRUE
    BY Zenon
  <2>2. op.pc = "scan" /\ reg' = [reg EXCEPT !.sets[op.set[1]].waiting = b] /\ running' = running /\ owed' = owed
    BY Zenon, <1>4, <2>1 DEF WaitPublish
  <2> QED BY Zenon, <1>1, <2>2
<1>5. CASE WaitRegister
  <2>1. op.pc = "register" /\ reg' = [reg EXCEPT !.asleep[op.owner] = op.set] /\ running' = running /\ owed' = owed
    BY Zenon, <1>5 DEF WaitRegister
  <2>2. op.owner \in Services /\ op.set \in SetHandles \cup {None}
    BY Zenon, Parts, CallFields
  <2>3. reg'.events = reg.events /\ reg'.sets = reg.sets /\ reg'.hw = reg.hw
    <3>1. IsAsleep(reg, op.owner, op.set, reg')
      BY Zenon, <1>0, <2>1, <2>2, AsleepFields
    <3> QED BY Zenon, <3>1 DEF IsAsleep
  <2> QED BY Zenon, <2>1, <2>3
<1>6. CASE WaitRecheck
  <2>1. (reg' = reg \/ reg' = Wake(reg, {op.set})) /\ running' = running /\ owed' = owed
    BY Zenon, <1>6 DEF WaitRecheck, Recheck
  <2> QED BY <1>0, <2>1, WakeFields
<1> QED BY Zenon, <1>2, <1>3, <1>4, <1>5, <1>6

(* An interrupt handler leaves the events as they are, and owes more.       *)
LEMMA InterruptQuiet ==
  ASSUME EInv, NEW h \in Sources, Interrupt(h)
  PROVE  reg'.events = reg.events /\ running' = running /\ owed \subseteq owed'
<1>0. reg \in Registries
  BY Zenon, Parts
<1>1. CASE IsrEnter(h)
  BY Zenon, <1>1 DEF IsrEnter
<1>2. CASE IsrPend(h)
  <2>1. reg' = [reg EXCEPT !.hw[h].pending = TRUE] /\ running' = running /\ owed \subseteq owed'
    BY Zenon, <1>2 DEF IsrPend
  <2>2. reg'.events = reg.events
    <3>1. Pends(reg, h, reg')
      BY Zenon, <2>1 DEF Pends
    <3>2. IsPended(reg, h, reg')
      BY Zenon, <1>0, <3>1, PendingTables
    <3> QED BY Zenon, <3>2 DEF IsPended
  <2> QED BY Zenon, <2>1, <2>2
<1>3. CASE IsrLoad(h)
  BY Zenon, <1>3 DEF IsrLoad
<1>4. CASE IsrWake(h)
  <2>1. reg' = Wake(reg, {isr[h].set}) /\ running' = running /\ owed' = owed
    BY Zenon, <1>4 DEF IsrWake
  <2> QED BY Zenon, <1>0, <2>1, WakeFields
<1> QED BY Zenon, <1>1, <1>2, <1>3, <1>4 DEF Interrupt

(* A step of the event registry preserves the invariant.                    *)
LEMMA EventStepLinks ==
  ASSUME IpcInv, EInv', EventStep
  PROVE  IpcInv'
<1>0. EInv /\ UNCHANGED ipcVars
  BY Zenon DEF IpcInv, EventStep
<1>1. ASSUME NEW o \in Services, SetCall(o) PROVE IpcInv'
  <2>1. CASE reg'.events = reg.events /\ running' = running /\ owed' = owed
    BY Zenon, <1>0, <2>1, QuietPass
  <2>2. CASE \E e : reg' = DestroyEvents(reg, {e}) /\ owed' = owed \ {e} /\ running' = running
    BY Zenon, <1>0, <2>2, DestroyPass
  <2> QED BY Zenon, <1>0, <1>1, <2>1, <2>2, SetCallQuiet
<1>2. ASSUME NEW o \in Services, TimerWake(o) PROVE IpcInv'
  <2>1. reg' = [reg EXCEPT !.asleep[o] = None] /\ running' = running /\ owed' = owed
    BY Zenon, <1>2 DEF TimerWake
  <2>2. reg'.events = reg.events /\ reg'.sets = reg.sets /\ reg'.hw = reg.hw
    <3>1. IsAsleep(reg, o, None, reg')
      BY Zenon, <1>0, <2>1, Parts, AsleepFields
    <3> QED BY Zenon, <3>1 DEF IsAsleep
  <2> QED BY Zenon, <1>0, <2>1, <2>2, QuietPass
<1>3. ASSUME NEW o \in Services, StartService(o) PROVE IpcInv'
  <2>1. reg' = reg /\ running \subseteq running' /\ owed' = owed
    BY Zenon, <1>3 DEF StartService
  <2> QED BY Zenon, <1>0, <2>1, QuietPass
<1>4. ASSUME WaitScan \/ WaitTimeout \/ WaitPublish \/ WaitRegister \/ WaitRecheck PROVE IpcInv'
  <2>1. reg'.events = reg.events /\ running' = running /\ owed' = owed
    BY Zenon, <1>0, <1>4, WaitQuiet
  <2> QED BY Zenon, <1>0, <2>1, QuietPass
<1>5. ASSUME NEW h \in Sources, Interrupt(h) PROVE IpcInv'
  <2>1. reg'.events = reg.events /\ running' = running /\ owed \subseteq owed'
    BY Zenon, <1>0, <1>5, InterruptQuiet
  <2> QED BY Zenon, <1>0, <2>1, QuietPass
<1> QED BY Zenon, <1>1, <1>2, <1>3, <1>4, <1>5 DEF EventStep

(* A report: the endpoints of the reported event look at their queue again. *)
LEMMA ReportLinks ==
  ASSUME IpcInv, EInv', Report
  PROVE  IpcInv'
<1> DEFINE z == reg.sets[op.set[1]].members[op.i]
<1>1. /\ op.pc = "consume" /\ reg' = Consumed(reg, op.set, z) /\ owed' = owed \ {z} /\ running' = running
      /\ settled' = {p \in settled : ends[p[1]].rd # z} /\ stalled' = {p \in stalled : ends[p[1]].wr # z}
      /\ UNCHANGED <<ends, caps>>
  BY Zenon DEF Report, WaitConsume, Awaited
<1>2. reg \in Registries /\ EInv /\ Linked(reg, running, owed, ends, caps, settled, stalled)
  BY Zenon, Parts DEF IpcInv
<1>3. op.set \in SetHandles
  BY Zenon, <1>1, <1>2, Parts, Standing
<1>4. op.i \in DOMAIN reg.sets[op.set[1]].members
  BY Zenon, <1>1, <1>2, Parts DEF Good, CallOK
<1>5. z \in Handles
  BY Zenon, <1>1, <1>2, <1>4, Parts, Standing
<1> HIDE DEF z
<1>6. IsConsumed(reg, op.set, z, reg')
  BY Zenon, <1>1, <1>2, <1>3, <1>5, ConsumedFields
<1>7. /\ reg' \in Registries
      /\ \A i \in 1 .. MaxEvents : reg'.events[i].gen = reg.events[i].gen /\ reg'.events[i].owner = reg.events[i].owner
  BY Zenon, <1>6 DEF IsConsumed
<1>8. Later(reg, reg')
  BY Zenon, <1>2, <1>7, SteadyLater
<1>9. Spared(ends, settled', stalled', z) /\ settled' \subseteq settled /\ stalled' \subseteq stalled
  BY Zenon, <1>1 DEF Spared
<1>10. Carried(reg', owed, owed', z)
  BY Zenon, <1>1 DEF Carried
<1>11. Linked(reg', running', owed', ends, caps, settled', stalled')
  BY Zenon, <1>1, <1>2, <1>7, <1>8, <1>9, <1>10, EventsPass
<1> QED BY Zenon, <1>1, <1>11 DEF IpcInv

(* The sets of live handles, slot by slot.                                  *)
LEMMA EndsLive ==
  ASSUME ends \in [1 .. MaxEnds -> EndSlots]
  PROVE  /\ \A p : p \in LiveEnds <=> LiveEnd(ends, p)
         /\ LiveEnds \subseteq EndHandles
<1>1. \A i \in 1 .. MaxEnds : <<i, ends[i].gen>> \in EndHandles
  BY Zenon, EndFields DEF EndHandles
<1>2. ASSUME NEW p \in LiveEnds PROVE LiveEnd(ends, p)
  <2>1. PICK i \in 1 .. MaxEnds : ends[i].owner # None /\ p = <<i, ends[i].gen>>
    BY Zenon DEF LiveEnds
  <2>2. p[1] = i /\ p[2] = ends[i].gen
    BY Zenon, <2>1
  <2> QED BY Zenon, <1>1, <2>1, <2>2 DEF LiveEnd
<1>3. ASSUME NEW p, LiveEnd(ends, p) PROVE p \in LiveEnds
  <2>1. p = <<p[1], p[2]>> /\ p[1] \in 1 .. MaxEnds /\ ends[p[1]].gen = p[2] /\ ends[p[1]].owner # None
    BY Zenon, <1>3, EndPairs DEF LiveEnd
  <2>2. p = <<p[1], ends[p[1]].gen>>
    BY Zenon, <2>1
  <2> QED BY Zenon, <2>1, <2>2 DEF LiveEnds
<1> QED BY Zenon, <1>2, <1>3 DEF LiveEnd

(* A capability slot, field by field.                                       *)
LEMMA CapFields ==
  ASSUME NEW c \in CapSlots
  PROVE  /\ c.gen \in Nat /\ c.owner \in Services \cup {None} /\ c.end \in EndHandles \cup {None} /\ c.rights \in Rights
         /\ c = [gen |-> c.gen, owner |-> c.owner, end |-> c.end, rights |-> c.rights]
BY Zenon DEF CapSlots

(* What a granted capability says of the endpoint behind it.                *)
LEMMA GrantFacts ==
  ASSUME IpcInv, NEW o, NEW right, NEW k \in Grants(o, right)
  PROVE  /\ caps[k[1]].end \in LiveEnds /\ LiveEnd(ends, caps[k[1]].end)
         /\ caps[k[1]].end[1] \in 1 .. MaxEnds
         /\ ends[caps[k[1]].end[1]].owner # None
         /\ ends[caps[k[1]].end[1]] \in EndSlots
         /\ EndOK(reg, running, ends[caps[k[1]].end[1]])
<1>1. caps[k[1]].end \in LiveEnds
  BY Zenon DEF Grants
<1>2. ends \in [1 .. MaxEnds -> EndSlots]
  BY Zenon DEF IpcInv, Linked
<1>3. LiveEnd(ends, caps[k[1]].end)
  BY Zenon, <1>1, <1>2, EndsLive
<1> DEFINE p == caps[k[1]].end
<1>4. p[1] \in 1 .. MaxEnds /\ ends[p[1]].owner # None
  BY Zenon, <1>3, EndPairs DEF LiveEnd
<1>5. EndOK(reg, running, ends[p[1]])
  BY Zenon, <1>4 DEF IpcInv, Linked
<1> QED BY Zenon, <1>1, <1>2, <1>3, <1>4, <1>5

(* One endpoint moves on; its identity stays, and its promises hold.        *)
LEMMA LinkSwap ==
  ASSUME NEW r, NEW R, NEW W, NEW E, NEW C, NEW S, NEW T, Linked(r, R, W, E, C, S, T),
         NEW i \in 1 .. MaxEnds, E[i].owner # None, NEW y \in EndSlots, Fifo(y),
         y.gen = E[i].gen, y.owner = E[i].owner, y.consumer = E[i].consumer, y.rd = E[i].rd, y.wr = E[i].wr,
         ToldRead(r, W, E[i]) => ToldRead(r, W, y), ToldWrite(r, W, E[i]) => ToldWrite(r, W, y),
         NEW F, F = [E EXCEPT ![i] = y]
  PROVE  Linked(r, R, W, F, C, S, T)
<1>0. /\ E \in [1 .. MaxEnds -> EndSlots] /\ C \in [1 .. MaxCaps -> CapSlots]
      /\ \A j \in 1 .. MaxEnds : E[j].owner # None => EndOK(r, R, E[j])
      /\ \A j \in 1 .. MaxCaps : C[j].owner # None => CapOK(E, C[j])
      /\ \A p \in S : LiveEnd(E, p) /\ ToldRead(r, W, E[p[1]])
      /\ \A p \in T : LiveEnd(E, p) /\ ToldWrite(r, W, E[p[1]])
  BY Zenon DEF Linked
<1>1. F \in [1 .. MaxEnds -> EndSlots] /\ F[i] = y /\ \A j \in 1 .. MaxEnds : j # i => F[j] = E[j]
  BY Zenon, <1>0
<1>2. \A j \in 1 .. MaxEnds : F[j].gen = E[j].gen /\ F[j].owner = E[j].owner /\ F[j].consumer = E[j].consumer
  BY Zenon, <1>1
<1>3. \A p : LiveEnd(E, p) => LiveEnd(F, p) /\ p[1] \in 1 .. MaxEnds
  BY Zenon, <1>2, EndPairs DEF LiveEnd
<1>4. ASSUME NEW j \in 1 .. MaxEnds, F[j].owner # None PROVE EndOK(r, R, F[j])
  <2>1. EndOK(r, R, E[j])
    BY Zenon, <1>0, <1>2, <1>4
  <2>2. CASE j # i
    BY Zenon, <1>1, <2>1, <2>2
  <2>3. CASE j = i
    <3>1. F[j] = y
      BY Zenon, <1>1, <2>3
    <3>2. EndOK(r, R, y)
      BY Zenon, <2>1, <2>3 DEF EndOK
    <3> QED BY Zenon, <3>1, <3>2
  <2> QED BY Zenon, <2>2, <2>3
<1>5. ASSUME NEW j \in 1 .. MaxCaps, C[j].owner # None PROVE CapOK(F, C[j])
  <2>1. CapOK(E, C[j])
    BY Zenon, <1>0, <1>5
  <2>2. LiveEnd(E, C[j].end)
    BY Zenon, <2>1 DEF CapOK
  <2>3. LiveEnd(F, C[j].end) /\ C[j].end[1] \in 1 .. MaxEnds
    BY Zenon, <1>3, <2>2
  <2> QED BY Zenon, <1>2, <2>1, <2>3 DEF CapOK
<1>6. ASSUME NEW p \in S PROVE LiveEnd(F, p) /\ ToldRead(r, W, F[p[1]])
  <2>1. LiveEnd(E, p) /\ ToldRead(r, W, E[p[1]])
    BY Zenon, <1>0
  <2>2. p[1] \in 1 .. MaxEnds /\ LiveEnd(F, p)
    BY Zenon, <1>3, <2>1
  <2>3. CASE p[1] = i
    BY Zenon, <1>1, <2>1, <2>2, <2>3
  <2>4. CASE p[1] # i
    BY Zenon, <1>1, <2>1, <2>2, <2>4
  <2> QED BY Zenon, <2>3, <2>4
<1>7. ASSUME NEW p \in T PROVE LiveEnd(F, p) /\ ToldWrite(r, W, F[p[1]])
  <2>1. LiveEnd(E, p) /\ ToldWrite(r, W, E[p[1]])
    BY Zenon, <1>0
  <2>2. p[1] \in 1 .. MaxEnds /\ LiveEnd(F, p)
    BY Zenon, <1>3, <2>1
  <2>3. CASE p[1] = i
    BY Zenon, <1>1, <2>1, <2>2, <2>3
  <2>4. CASE p[1] # i
    BY Zenon, <1>1, <2>1, <2>2, <2>4
  <2> QED BY Zenon, <2>3, <2>4
<1> QED BY <1>0, <1>1, <1>4, <1>5, <1>6, <1>7, Zenon DEF Linked

(* A signal changes neither generations nor owners.                         *)
LEMMA SignalSteady ==
  ASSUME NEW r \in Registries, NEW e \in Handles, NEW q, q = SignalEvent(r, e)
  PROVE  /\ q \in Registries
         /\ \A i \in 1 .. MaxEvents : q.events[i].gen = r.events[i].gen /\ q.events[i].owner = r.events[i].owner
<1>0. IsSignaled(r, e, q)
  BY Zenon, SignalEventFields
<1>1. q \in Registries
  BY Zenon, <1>0 DEF IsSignaled
<1>2. ASSUME NEW i \in 1 .. MaxEvents
      PROVE  q.events[i].gen = r.events[i].gen /\ q.events[i].owner = r.events[i].owner
  BY Zenon, <1>0 DEF IsSignaled
<1> QED BY Zenon, <1>1, <1>2

(* A signal, if the event is there, makes it owed.                          *)
LEMMA SignaledLater ==
  ASSUME NEW r \in Registries, NEW e \in Handles, NEW W, NEW V, V = W \cup ({e} \cap LiveEvents(r)),
         NEW q, q = Signaled(r, e)
  PROVE  /\ q \in Registries /\ Later(r, q) /\ Carried(q, W, V, None)
         /\ LiveEvent(q, e) => e \in V
<1>1. q \in Registries /\ \A i \in 1 .. MaxEvents : q.events[i].gen = r.events[i].gen /\ q.events[i].owner = r.events[i].owner
  <2>1. CASE e \in LiveEvents(r)
    <3>1. q = SignalEvent(r, e)
      BY Zenon, <2>1 DEF Signaled
    <3> QED BY Zenon, <3>1, SignalSteady
  <2>2. CASE e \notin LiveEvents(r)
    BY Zenon, <2>2 DEF Signaled
  <2> QED BY Zenon, <2>1, <2>2
<1>2. Later(r, q)
  BY Zenon, <1>1, SteadyLater
<1>3. e[1] \in 1 .. MaxEvents
  BY Zenon, Pairs
<1>4. ASSUME LiveEvent(q, e) PROVE e \in V
  <2>1. LiveEvent(r, e)
    BY Zenon, <1>1, <1>3, <1>4 DEF LiveEvent
  <2>2. e \in LiveEvents(r)
    BY Zenon, <2>1, LiveIn
  <2> QED BY Zenon, <2>2
<1> QED BY Zenon, <1>1, <1>2, <1>4 DEF Carried

(* A put makes the read event owed, and takes away no room that was told.   *)
LEMMA PutTold ==
  ASSUME NEW r, NEW W, NEW x, NEW y, x.len \in Nat, x.size \in Nat, y.len = x.len + 1, y.size = x.size,
         y.rd = x.rd, y.wr = x.wr, LiveEvent(r, x.rd) => x.rd \in W
  PROVE  ToldRead(r, W, y) /\ (ToldWrite(r, W, x) => ToldWrite(r, W, y))
BY DEF ToldRead, ToldWrite

(* A take makes the write event owed, and adds nothing to be read.          *)
LEMMA TakeTold ==
  ASSUME NEW r, NEW W, NEW x, NEW y, x.len \in Nat, y.len = x.len - 1, y.size = x.size,
         y.rd = x.rd, y.wr = x.wr, LiveEvent(r, x.wr) => x.wr \in W
  PROVE  ToldWrite(r, W, y) /\ (ToldRead(r, W, x) => ToldRead(r, W, y))
BY DEF ToldRead, ToldWrite

(* A message is sent: the queue grows and the read event is signaled.       *)
LEMMA SendLinks ==
  ASSUME IpcInv, EInv', NEW o \in Services, NEW k, Send(o, k)
  PROVE  IpcInv'
<1> DEFINE i == caps[k[1]].end[1]
           x == ends[i]
           y == Enqueued(x)
<1>1. /\ k \in Grants(o, "Send") /\ x.len < x.size /\ x.sent < MaxSent
      /\ ends' = [ends EXCEPT ![i] = y] /\ reg' = Signaled(reg, x.rd)
      /\ owed' = owed \cup ({x.rd} \cap LiveEvents(reg))
      /\ UNCHANGED <<running, caps, settled, stalled>>
  BY Zenon DEF Send
<1>2. i \in 1 .. MaxEnds /\ x.owner # None /\ x \in EndSlots /\ EndOK(reg, running, x)
  BY Zenon, <1>1, GrantFacts
<1>3. Linked(reg, running, owed, ends, caps, settled, stalled) /\ reg \in Registries
  BY Zenon, Parts DEF IpcInv
<1>4. Fifo(x) /\ x.rd \in Handles
  BY Zenon, <1>2 DEF EndOK, Known
<1>5. /\ reg' \in Registries /\ Later(reg, reg') /\ Carried(reg', owed, owed', None)
      /\ LiveEvent(reg', x.rd) => x.rd \in owed'
  BY Zenon, <1>1, <1>3, <1>4, SignaledLater
<1>6. Spared(ends, settled, stalled, None)
  BY Zenon, <1>3, EndsKnow
<1>7. Linked(reg', running, owed', ends, caps, settled, stalled)
  BY Zenon, <1>3, <1>5, <1>6, EventsPass
<1>8. /\ y \in EndSlots
      /\ y.gen = x.gen /\ y.owner = x.owner /\ y.consumer = x.consumer /\ y.size = x.size
      /\ y.rd = x.rd /\ y.wr = x.wr /\ y.len = x.len + 1
  BY Zenon, <1>1, <1>2, <1>4, EnqueuedFields
<1>9. Fifo(y)
  BY Zenon, <1>1, <1>2, <1>4, EnqueuedFifo
<1>10. ToldRead(reg', owed', y) /\ (ToldWrite(reg', owed', x) => ToldWrite(reg', owed', y))
  <2>1. x.len \in Nat /\ x.size \in Nat
    BY Zenon, <1>2, EndFields
  <2> HIDE DEF x, y
  <2> QED BY Zenon, <1>5, <1>8, <2>1, PutTold
<1> HIDE DEF y
<1>11. Linked(reg', running, owed', ends', caps, settled, stalled)
  BY Zenon, <1>1, <1>2, <1>7, <1>8, <1>9, <1>10, LinkSwap
<1> QED BY Zenon, <1>1, <1>11 DEF IpcInv

(* A message is received: the queue shrinks, the write event is signaled.   *)
LEMMA ReceiveLinks ==
  ASSUME IpcInv, EInv', NEW o \in Services, NEW k, Receive(o, k)
  PROVE  IpcInv'
<1> DEFINE i == caps[k[1]].end[1]
           x == ends[i]
           y == Dequeued(x)
<1>1. /\ k \in Grants(o, "Receive") /\ x.len > 0
      /\ ends' = [ends EXCEPT ![i] = y] /\ reg' = Signaled(reg, x.wr)
      /\ owed' = owed \cup ({x.wr} \cap LiveEvents(reg))
      /\ UNCHANGED <<running, caps, settled, stalled>>
  BY Zenon DEF Receive
<1>2. i \in 1 .. MaxEnds /\ x.owner # None /\ x \in EndSlots /\ EndOK(reg, running, x)
  BY Zenon, <1>1, GrantFacts
<1>3. Linked(reg, running, owed, ends, caps, settled, stalled) /\ reg \in Registries
  BY Zenon, Parts DEF IpcInv
<1>4. Fifo(x) /\ x.wr \in Handles
  BY Zenon, <1>2 DEF EndOK, Known
<1>5. /\ reg' \in Registries /\ Later(reg, reg') /\ Carried(reg', owed, owed', None)
      /\ LiveEvent(reg', x.wr) => x.wr \in owed'
  BY Zenon, <1>1, <1>3, <1>4, SignaledLater
<1>6. Spared(ends, settled, stalled, None)
  BY Zenon, <1>3, EndsKnow
<1>7. Linked(reg', running, owed', ends, caps, settled, stalled)
  BY Zenon, <1>3, <1>5, <1>6, EventsPass
<1>8. /\ y \in EndSlots
      /\ y.gen = x.gen /\ y.owner = x.owner /\ y.consumer = x.consumer /\ y.size = x.size
      /\ y.rd = x.rd /\ y.wr = x.wr /\ y.len = x.len - 1
  BY Zenon, <1>1, <1>2, <1>4, DequeuedFields
<1>9. Fifo(y)
  BY Zenon, <1>1, <1>2, <1>4, DequeuedFifo
<1>10. ToldWrite(reg', owed', y) /\ (ToldRead(reg', owed', x) => ToldRead(reg', owed', y))
  <2>1. x.len \in Nat
    BY Zenon, <1>2, EndFields
  <2> HIDE DEF x, y
  <2> QED BY Zenon, <1>5, <1>8, <2>1, TakeTold
<1> HIDE DEF y
<1>11. Linked(reg', running, owed', ends', caps, settled, stalled)
  BY Zenon, <1>1, <1>2, <1>7, <1>8, <1>9, <1>10, LinkSwap
<1> QED BY Zenon, <1>1, <1>11 DEF IpcInv

(* Full: the producer has seen that there is no room.                       *)
LEMMA SendFullLinks ==
  ASSUME IpcInv, EInv', NEW o \in Services, NEW k, SendFull(o, k)
  PROVE  IpcInv'
<1> DEFINE p == caps[k[1]].end
           x == ends[p[1]]
<1>1. /\ k \in Grants(o, "Send") /\ x.len >= x.size /\ stalled' = stalled \cup {p}
      /\ UNCHANGED <<reg, running, owed, ends, caps, settled>>
  BY Zenon DEF SendFull, vars
<1>2. LiveEnd(ends, p) /\ x \in EndSlots
  BY Zenon, <1>1, GrantFacts
<1>3. ToldWrite(reg, owed, x)
  <2>1. x.len \in Nat /\ x.size \in Nat
    BY Zenon, <1>2, EndFields
  <2> HIDE DEF x
  <2>2. ~(x.len < x.size)
    BY <1>1, <2>1
  <2> QED BY <2>2, Zenon DEF ToldWrite
<1>4. Linked(reg, running, owed, ends, caps, settled, stalled)
  BY Zenon DEF IpcInv
<1> HIDE DEF p
<1>5. Linked(reg, running, owed, ends, caps, settled, stalled')
  BY Zenon, <1>1, <1>2, <1>3, <1>4 DEF Linked
<1> QED BY Zenon, <1>1, <1>5 DEF IpcInv

(* Empty: the consumer has seen that there is nothing to read.              *)
LEMMA ReceiveEmptyLinks ==
  ASSUME IpcInv, EInv', NEW o \in Services, NEW k, ReceiveEmpty(o, k)
  PROVE  IpcInv'
<1> DEFINE p == caps[k[1]].end
           x == ends[p[1]]
<1>1. /\ k \in Grants(o, "Receive") /\ x.len = 0 /\ settled' = settled \cup {p}
      /\ UNCHANGED <<reg, running, owed, ends, caps, stalled>>
  BY Zenon DEF ReceiveEmpty, vars
<1>2. LiveEnd(ends, p)
  BY Zenon, <1>1, GrantFacts
<1>3. ToldRead(reg, owed, x)
  BY <1>1 DEF ToldRead
<1>4. Linked(reg, running, owed, ends, caps, settled, stalled)
  BY Zenon DEF IpcInv
<1> HIDE DEF p
<1>5. Linked(reg, running, owed, ends, caps, settled', stalled)
  BY Zenon, <1>1, <1>2, <1>3, <1>4 DEF Linked
<1> QED BY Zenon, <1>1, <1>5 DEF IpcInv

(* A vacated slot is a slot.                                                *)
LEMMA VacantSlots ==
  ASSUME NEW g \in Nat
  PROVE  /\ VacantEnd(g) \in EndSlots /\ VacantEnd(g).owner = None /\ VacantEnd(g).gen = g
         /\ VacantCap(g) \in CapSlots /\ VacantCap(g).owner = None /\ VacantCap(g).gen = g
<1>1. << >> \in UNION {[0 .. n - 1 -> 0 .. MaxSent] : n \in Sizes \cup {0}}
  <2>1. << >> \in [0 .. 0 - 1 -> 0 .. MaxSent]
    <3>1. 0 .. 0 - 1 = {} /\ 1 .. 0 = {}
      OBVIOUS
    <3>2. << >> = [j \in {} |-> 0]
      OBVIOUS
    <3> QED BY Zenon, <3>1, <3>2
  <2> QED BY Zenon, <2>1
<1>2. VacantEnd(g) \in EndSlots
  BY Zenon, <1>1 DEF VacantEnd, EndSlots
<1>3. VacantCap(g) \in CapSlots
  BY Zenon DEF VacantCap, CapSlots, Rights
<1> QED BY Zenon, <1>2, <1>3 DEF VacantEnd, VacantCap

(* The endpoints of P and the capabilities of K are dropped; P holds those  *)
(* of the services of O, and K the capabilities on P.                       *)
Dropped(E, C, O, P, K, F, D) ==
    /\ \A j \in 1 .. MaxEnds : E[j].owner # None /\ (E[j].owner \in O \/ E[j].consumer \in O) => <<j, E[j].gen>> \in P
    /\ \A j \in 1 .. MaxCaps : C[j].owner # None /\ C[j].end \in P => <<j, C[j].gen>> \in K
    /\ F = [i \in 1 .. MaxEnds |-> IF <<i, E[i].gen>> \in P THEN VacantEnd(E[i].gen + 1) ELSE E[i]]
    /\ D = [i \in 1 .. MaxCaps |-> IF <<i, C[i].gen>> \in K THEN VacantCap(C[i].gen + 1) ELSE C[i]]

(* What is dropped leaves no link behind.                                   *)
LEMMA LinkDrop ==
  ASSUME NEW r, NEW R, NEW W, NEW E, NEW C, NEW S, NEW T, Linked(r, R, W, E, C, S, T),
         NEW O, NEW P, NEW K,
         NEW F, NEW D, Dropped(E, C, O, P, K, F, D)
  PROVE  Linked(r, R \ O, W, F, D, S \ P, T \ P)
<1>0. /\ E \in [1 .. MaxEnds -> EndSlots] /\ C \in [1 .. MaxCaps -> CapSlots]
      /\ \A j \in 1 .. MaxEnds : E[j].owner # None => EndOK(r, R, E[j])
      /\ \A j \in 1 .. MaxCaps : C[j].owner # None => CapOK(E, C[j])
      /\ \A p \in S : LiveEnd(E, p) /\ ToldRead(r, W, E[p[1]])
      /\ \A p \in T : LiveEnd(E, p) /\ ToldWrite(r, W, E[p[1]])
  BY Zenon DEF Linked
<1>9. /\ \A j \in 1 .. MaxEnds : E[j].owner # None /\ (E[j].owner \in O \/ E[j].consumer \in O) => <<j, E[j].gen>> \in P
      /\ \A j \in 1 .. MaxCaps : C[j].owner # None /\ C[j].end \in P => <<j, C[j].gen>> \in K
  BY Zenon DEF Dropped
<1>10. /\ F = [i \in 1 .. MaxEnds |-> IF <<i, E[i].gen>> \in P THEN VacantEnd(E[i].gen + 1) ELSE E[i]]
       /\ D = [i \in 1 .. MaxCaps |-> IF <<i, C[i].gen>> \in K THEN VacantCap(C[i].gen + 1) ELSE C[i]]
  BY Zenon DEF Dropped
<1>1. ASSUME NEW j \in 1 .. MaxEnds
      PROVE  /\ F[j] \in EndSlots
             /\ <<j, E[j].gen>> \in P => F[j].owner = None
             /\ <<j, E[j].gen>> \notin P => F[j] = E[j]
  <2>1. E[j] \in EndSlots /\ E[j].gen + 1 \in Nat
    BY <1>0, EndFields
  <2>2. VacantEnd(E[j].gen + 1) \in EndSlots /\ VacantEnd(E[j].gen + 1).owner = None
    BY Zenon, <2>1, VacantSlots
  <2> QED BY Zenon, <1>10, <2>1, <2>2
<1>2. ASSUME NEW j \in 1 .. MaxCaps
      PROVE  /\ D[j] \in CapSlots
             /\ <<j, C[j].gen>> \in K => D[j].owner = None
             /\ <<j, C[j].gen>> \notin K => D[j] = C[j]
  <2>1. C[j] \in CapSlots /\ C[j].gen + 1 \in Nat
    BY <1>0, CapFields
  <2>2. VacantCap(C[j].gen + 1) \in CapSlots /\ VacantCap(C[j].gen + 1).owner = None
    BY Zenon, <2>1, VacantSlots
  <2> QED BY Zenon, <1>10, <2>1, <2>2
<1>3. F \in [1 .. MaxEnds -> EndSlots] /\ D \in [1 .. MaxCaps -> CapSlots]
  <2>2. F = [j \in 1 .. MaxEnds |-> F[j]] /\ D = [j \in 1 .. MaxCaps |-> D[j]]
    BY Zenon, <1>10
  <2> QED BY Zenon, <1>1, <1>2, <2>2
<1>4. ASSUME NEW p, LiveEnd(E, p), p \notin P PROVE LiveEnd(F, p) /\ F[p[1]] = E[p[1]]
  <2>1. p = <<p[1], p[2]>> /\ p[1] \in 1 .. MaxEnds /\ E[p[1]].gen = p[2]
    BY Zenon, <1>4, EndPairs DEF LiveEnd
  <2>2. <<p[1], E[p[1]].gen>> \notin P
    BY Zenon, <1>4, <2>1
  <2>3. F[p[1]] = E[p[1]]
    BY Zenon, <1>1, <2>1, <2>2
  <2> QED BY Zenon, <1>4, <2>3 DEF LiveEnd
<1>5. ASSUME NEW j \in 1 .. MaxEnds, F[j].owner # None PROVE EndOK(r, R \ O, F[j])
  <2>1. <<j, E[j].gen>> \notin P /\ F[j] = E[j]
    BY Zenon, <1>1, <1>5
  <2>2. E[j].owner \notin O /\ E[j].consumer \notin O
    BY Zenon, <1>5, <1>9, <2>1
  <2>3. EndOK(r, R, E[j])
    BY Zenon, <1>0, <1>5, <2>1
  <2>4. EndOK(r, R \ O, E[j])
    BY Zenon, <2>2, <2>3 DEF EndOK
  <2> QED BY Zenon, <2>1, <2>4
<1>6. ASSUME NEW j \in 1 .. MaxCaps, D[j].owner # None PROVE CapOK(F, D[j])
  <2>1. <<j, C[j].gen>> \notin K /\ D[j] = C[j]
    BY Zenon, <1>2, <1>6
  <2>2. C[j].end \notin P
    BY Zenon, <1>6, <1>9, <2>1
  <2>3. CapOK(E, C[j])
    BY Zenon, <1>0, <1>6, <2>1
  <2>4. LiveEnd(F, C[j].end) /\ F[C[j].end[1]] = E[C[j].end[1]]
    BY Zenon, <1>4, <2>2, <2>3 DEF CapOK
  <2>5. CapOK(F, C[j])
    BY Zenon, <2>3, <2>4 DEF CapOK
  <2> QED BY Zenon, <2>1, <2>5
<1>7. ASSUME NEW p \in S \ P PROVE LiveEnd(F, p) /\ ToldRead(r, W, F[p[1]])
  BY Zenon, <1>0, <1>4
<1>8. ASSUME NEW p \in T \ P PROVE LiveEnd(F, p) /\ ToldWrite(r, W, F[p[1]])
  BY Zenon, <1>0, <1>4
<1> QED BY <1>3, <1>5, <1>6, <1>7, <1>8, Zenon DEF Linked

(* Every capability on a dropped endpoint is revoked.                       *)
LEMMA RevokedCaps ==
  ASSUME NEW P, NEW O, caps \in [1 .. MaxCaps -> CapSlots]
  PROVE  \A j \in 1 .. MaxCaps : caps[j].owner # None /\ caps[j].end \in P => <<j, caps[j].gen>> \in RevokedBy(P, O)
<1>1. ASSUME NEW j \in 1 .. MaxCaps, caps[j].owner # None, caps[j].end \in P PROVE <<j, caps[j].gen>> \in RevokedBy(P, O)
  <2> DEFINE k == <<j, caps[j].gen>>
  <2>1. k \in LiveCaps
    BY Zenon, <1>1 DEF LiveCaps
  <2>2. k[1] = j
    BY Zenon
  <2> HIDE DEF k
  <2>3. k \in RevokedBy(P, O)
    BY Zenon, <1>1, <2>1, <2>2 DEF RevokedBy
  <2> QED BY Zenon, <2>3 DEF k
<1> QED BY Zenon, <1>1

(* An endpoint is destroyed.                                                *)
LEMMA DestroyEndpointLinks ==
  ASSUME IpcInv, EInv', NEW p \in LiveEnds, DestroyEndpoint(p)
  PROVE  IpcInv'
<1> DEFINE P == {p}
           B == EndEvents(P)
           K == RevokedBy(P, {})
<1>1. /\ reg' = DestroyEvents(reg, B) /\ owed' = owed \ B /\ running' = running
      /\ ends' = [i \in 1 .. MaxEnds |-> IF <<i, ends[i].gen>> \in P THEN VacantEnd(ends[i].gen + 1) ELSE ends[i]]
      /\ caps' = [i \in 1 .. MaxCaps |-> IF <<i, caps[i].gen>> \in K THEN VacantCap(caps[i].gen + 1) ELSE caps[i]]
      /\ settled' = settled \ P /\ stalled' = stalled \ P
  BY Zenon DEF DestroyEndpoint, DropEnds, DropCaps
<1>2. Linked(reg, running, owed, ends, caps, settled, stalled) /\ reg \in Registries /\ owed \in SUBSET Handles
  BY Zenon, Parts DEF IpcInv
<1>3. \A j \in 1 .. MaxCaps : caps[j].owner # None /\ caps[j].end \in P => <<j, caps[j].gen>> \in K
  <2>1. caps \in [1 .. MaxCaps -> CapSlots]
    BY Zenon, <1>2 DEF Linked
  <2> QED BY Zenon, <2>1, RevokedCaps
<1> HIDE DEF P, B, K
<1>4. EventsDestroyed(reg, B, reg')
  BY Zenon, <1>1, <1>2, DestroyEventsFields
<1>5. /\ reg' \in Registries /\ Later(reg, reg')
      /\ \A e \in Handles : LiveEvent(reg', e) =>
            LiveEvent(reg, e) /\ e \notin B /\ reg'.events[e[1]].owner = reg.events[e[1]].owner
  <2>1. reg' \in Registries /\ Later(reg, reg') /\ Outlives(reg, B, reg')
    BY Zenon, <1>2, <1>4, DestroyedLater
  <2> QED BY Zenon, <2>1 DEF Outlives
<1>6. Carried(reg', owed, owed', None)
  BY Zenon, <1>1, <1>2, <1>5 DEF Carried
<1>7. Spared(ends, settled, stalled, None)
  BY Zenon, <1>2, EndsKnow
<1>8. Linked(reg', running, owed', ends, caps, settled, stalled)
  BY Zenon, <1>2, <1>5, <1>6, <1>7, EventsPass
<1>9. PICK O : O = {}
  BY Zenon
<1>10. \A j \in 1 .. MaxEnds : ends[j].owner # None /\ (ends[j].owner \in O \/ ends[j].consumer \in O) => <<j, ends[j].gen>> \in P
  BY Zenon, <1>9
<1>13. Dropped(ends, caps, O, P, K, ends', caps')
  BY <1>1, <1>3, <1>10, Zenon DEF Dropped
<1>11. Linked(reg', running \ O, owed', ends', caps', settled \ P, stalled \ P)
  BY Zenon, <1>8, <1>13, LinkDrop
<1>12. running \ O = running'
  BY Zenon, <1>1, <1>9
<1> QED BY Zenon, <1>1, <1>11, <1>12 DEF IpcInv

(* Later is transitive.                                                     *)
LEMMA LaterTwice ==
  ASSUME NEW r \in Registries, NEW q \in Registries, NEW t \in Registries, Later(r, q), Later(q, t)
  PROVE  Later(r, t)
<1>1. ASSUME NEW i \in 1 .. MaxEvents
      PROVE  /\ t.events[i].gen >= r.events[i].gen
             /\ t.events[i].gen = r.events[i].gen /\ r.events[i].owner # None => t.events[i].owner # None
  <2>1. r.events[i].gen \in Nat /\ q.events[i].gen \in Nat /\ t.events[i].gen \in Nat
    BY Zenon, SlotFields
  <2>2. /\ q.events[i].gen >= r.events[i].gen
        /\ q.events[i].gen = r.events[i].gen /\ r.events[i].owner # None => q.events[i].owner # None
    BY Zenon DEF Later
  <2>3. /\ t.events[i].gen >= q.events[i].gen
        /\ t.events[i].gen = q.events[i].gen /\ q.events[i].owner # None => t.events[i].owner # None
    BY Zenon DEF Later
  <2> QED BY <2>1, <2>2, <2>3
<1> QED BY <1>1, Zenon DEF Later

(* A stopped service leaves none of its events, and none of B.              *)
LEMMA StopLater ==
  ASSUME NEW r \in Registries, NEW o \in Services, NEW B,
         NEW q, q = DestroyService(DestroyEvents([r EXCEPT !.asleep[o] = None], B), o)
  PROVE  /\ q \in Registries /\ Later(r, q)
         /\ \A e \in Handles : LiveEvent(q, e) => e \notin B \cup EventsOf(r, o)
<1> DEFINE a == [r EXCEPT !.asleep[o] = None]
           b == DestroyEvents(a, B)
           G == EventsOf(b, o)
           c == DestroyEvents(b, G)
           S == SetsOf(c, o)
<1>1. q = DestroySets(c, S)
  BY Zenon DEF DestroyService
<1>2. a \in Registries /\ a.events = r.events
  <2>1. a = [r EXCEPT !.asleep[o] = None] /\ None \in SetHandles \cup {None}
    BY Zenon
  <2> HIDE DEF a
  <2>2. a \in Registries /\ a.events = r.events /\ a.sets = r.sets /\ a.hw = r.hw
    <3>1. IsAsleep(r, o, None, a)
      BY Zenon, <2>1, AsleepFields
    <3> QED BY Zenon, <3>1 DEF IsAsleep
  <2> QED BY Zenon, <2>2
<1> HIDE DEF a
<1>3. EventsDestroyed(a, B, b)
  BY Zenon, <1>2, DestroyEventsFields
<1> HIDE DEF b
<1>4. /\ b \in Registries /\ Later(a, b)
      /\ \A e \in Handles : LiveEvent(b, e) => LiveEvent(a, e) /\ e \notin B /\ b.events[e[1]].owner = a.events[e[1]].owner
  <2>1. b \in Registries /\ Later(a, b) /\ Outlives(a, B, b)
    BY Zenon, <1>2, <1>3, DestroyedLater
  <2> QED BY Zenon, <2>1 DEF Outlives
<1>5. EventsDestroyed(b, G, c)
  BY Zenon, <1>4, DestroyEventsFields
<1>6. \A e \in Handles : e \in G <=> LiveEvent(b, e) /\ b.events[e[1]].owner = o
  BY Zenon, <1>4, OwnedIn
<1> HIDE DEF c, G
<1>7. /\ c \in Registries /\ Later(b, c)
      /\ \A e \in Handles : LiveEvent(c, e) => LiveEvent(b, e) /\ e \notin G /\ c.events[e[1]].owner = b.events[e[1]].owner
  <2>1. c \in Registries /\ Later(b, c) /\ Outlives(b, G, c)
    BY Zenon, <1>4, <1>5, DestroyedLater
  <2> QED BY Zenon, <2>1 DEF Outlives
<1>8. q \in Registries /\ q.events = c.events
  <2>1. SetsDestroyed(c, S, q)
    BY Zenon, <1>1, <1>7, DestroySetsFields
  <2> QED BY Zenon, <2>1 DEF SetsDestroyed
<1> HIDE DEF S
<1>9. Later(r, a) /\ Later(c, q)
  BY Zenon, <1>2, <1>7, <1>8, SteadyLater
<1>10. Later(r, q)
  <2>1. Later(r, b)
    BY Zenon, <1>2, <1>4, <1>9, LaterTwice
  <2>2. Later(r, c)
    BY Zenon, <1>4, <1>7, <2>1, LaterTwice
  <2> QED BY Zenon, <1>7, <1>8, <1>9, <2>2, LaterTwice
<1>11. ASSUME NEW e \in Handles, LiveEvent(q, e), e \in B \cup EventsOf(r, o) PROVE FALSE
  <2>1. LiveEvent(c, e)
    BY Zenon, <1>8, <1>11 DEF LiveEvent
  <2>2. LiveEvent(b, e) /\ e \notin G
    BY Zenon, <1>7, <2>1
  <2>3. e \notin B /\ b.events[e[1]].owner = a.events[e[1]].owner
    BY Zenon, <1>4, <2>2
  <2>4. e \in EventsOf(r, o)
    BY Zenon, <1>11, <2>3
  <2>5. r.events[e[1]].owner = o
    BY Zenon, <2>4, OwnedIn
  <2>6. b.events[e[1]].owner = o
    BY Zenon, <1>2, <2>3, <2>5
  <2> QED BY Zenon, <1>6, <2>2, <2>6
<1> QED BY Zenon, <1>8, <1>10, <1>11

(* A service stops: its endpoints, its capabilities and its events go.      *)
LEMMA StopIpcLinks ==
  ASSUME IpcInv, EInv', NEW o \in Services, StopIpcService(o)
  PROVE  IpcInv'
<1> DEFINE P == EndsOf(o)
           B == EndEvents(P)
           O == {o}
           K == RevokedBy(P, O)
<1>1. /\ reg' = DestroyService(DestroyEvents([reg EXCEPT !.asleep[o] = None], B), o)
      /\ owed' = owed \ (B \cup EventsOf(reg, o)) /\ running' = running \ O
      /\ ends' = [i \in 1 .. MaxEnds |-> IF <<i, ends[i].gen>> \in P THEN VacantEnd(ends[i].gen + 1) ELSE ends[i]]
      /\ caps' = [i \in 1 .. MaxCaps |-> IF <<i, caps[i].gen>> \in K THEN VacantCap(caps[i].gen + 1) ELSE caps[i]]
      /\ settled' = settled \ P /\ stalled' = stalled \ P
  BY Zenon DEF StopIpcService, DropEnds, DropCaps
<1>2. Linked(reg, running, owed, ends, caps, settled, stalled) /\ reg \in Registries /\ owed \in SUBSET Handles
  BY Zenon, Parts DEF IpcInv
<1>3. \A j \in 1 .. MaxCaps : caps[j].owner # None /\ caps[j].end \in P => <<j, caps[j].gen>> \in K
  <2>1. caps \in [1 .. MaxCaps -> CapSlots]
    BY Zenon, <1>2 DEF Linked
  <2> QED BY Zenon, <2>1, RevokedCaps
<1>4. ASSUME NEW j \in 1 .. MaxEnds, ends[j].owner # None, ends[j].owner \in O \/ ends[j].consumer \in O
      PROVE  <<j, ends[j].gen>> \in P
  <2> DEFINE p == <<j, ends[j].gen>>
  <2>1. p \in LiveEnds /\ p[1] = j
    BY Zenon, <1>4 DEF LiveEnds
  <2>2. o \in {ends[j].owner, ends[j].consumer}
    BY Zenon, <1>4
  <2> HIDE DEF p
  <2>3. p \in EndsOf(o)
    BY Zenon, <2>1, <2>2 DEF EndsOf
  <2> QED BY Zenon, <2>3 DEF p
<1> HIDE DEF P, B, K, O
<1>5. /\ reg' \in Registries /\ Later(reg, reg')
      /\ \A e \in Handles : LiveEvent(reg', e) => e \notin B \cup EventsOf(reg, o)
  BY <1>1, <1>2, StopLater
<1>6. Carried(reg', owed, owed', None)
  BY Zenon, <1>1, <1>2, <1>5 DEF Carried
<1>7. Spared(ends, settled, stalled, None)
  BY Zenon, <1>2, EndsKnow
<1>8. Linked(reg', running, owed', ends, caps, settled, stalled)
  BY Zenon, <1>2, <1>5, <1>6, <1>7, EventsPass
<1>9. Dropped(ends, caps, O, P, K, ends', caps')
  BY <1>1, <1>3, <1>4, Zenon DEF Dropped
<1>10. Linked(reg', running \ O, owed', ends', caps', settled \ P, stalled \ P)
  BY Zenon, <1>8, <1>9, LinkDrop
<1> QED BY Zenon, <1>1, <1>10 DEF IpcInv

(* A new endpoint: an empty ring between two services.                      *)
LEMMA NewEndFields ==
  ASSUME NEW g \in Nat, NEW p \in Services, NEW c \in Services, NEW n \in Sizes, NEW rd \in Handles, NEW wr \in Handles,
         NEW y, y = NewEnd(g, p, c, n, rd, wr)
  PROVE  /\ y \in EndSlots /\ Fifo(y)
         /\ y.gen = g /\ y.owner = p /\ y.consumer = c /\ y.rd = rd /\ y.wr = wr
<1>0. n \in Nat \ {0} /\ MaxSent \in Nat
  BY Zenon, IpcAssumption
<1> DEFINE f == [x \in 0 .. n - 1 |-> 0]
<1>1. f \in [0 .. n - 1 -> 0 .. MaxSent]
  BY <1>0
<1>2. y = [gen |-> g, owner |-> p, consumer |-> c, size |-> n, rd |-> rd, wr |-> wr,
           ring |-> f, head |-> 0, tail |-> 0, len |-> 0, sent |-> 0]
  BY Zenon DEF NewEnd
<1> HIDE DEF f
<1>3. y \in EndSlots
  <2>1. f \in UNION {[0 .. m - 1 -> 0 .. MaxSent] : m \in Sizes \cup {0}}
    BY Zenon, <1>1
  <2> QED BY <1>0, <1>2, <2>1 DEF EndSlots
<1>4. Holds(n, 0, 0, 0, 0, f)
  <2>1. (0 + 0) % n = 0
    BY <1>0
  <2>2. 0 .. 0 - 1 = {}
    OBVIOUS
  <2> QED BY Zenon, <2>1, <2>2 DEF Holds
<1>5. /\ y.size = n /\ y.ring = f /\ y.head = 0 /\ y.tail = 0 /\ y.len = 0 /\ y.sent = 0
      /\ y.gen = g /\ y.owner = p /\ y.consumer = c /\ y.rd = rd /\ y.wr = wr
  BY <1>2
<1>6. 0 \in 0 .. n - 1 /\ 0 \in 0 .. n /\ 0 \in 0 .. MaxSent
  BY <1>0
<1>7. Fifo(y)
  BY <1>1, <1>4, <1>5, <1>6, Zenon DEF Fifo
<1> QED BY Zenon, <1>3, <1>5, <1>7

(* A vacant slot becomes the endpoint y, and two vacant slots of            *)
(* capabilities its two ends.                                               *)
Joined(E, C, i, y, k, l, F, D) ==
    /\ i \in 1 .. MaxEnds /\ k \in 1 .. MaxCaps /\ l \in 1 .. MaxCaps /\ k # l
    /\ E[i].owner = None /\ y.owner # None /\ y.gen = E[i].gen
    /\ F = [E EXCEPT ![i] = y]
    /\ D = [C EXCEPT ![k] = Granted(C[k].gen, y.owner, <<i, E[i].gen>>, "Send"),
                     ![l] = Granted(C[l].gen, y.consumer, <<i, E[i].gen>>, "Receive")]

(* The links of a new endpoint.                                             *)
LEMMA LinkJoin ==
  ASSUME NEW r, NEW R \in SUBSET Services, NEW W, NEW E, NEW C, NEW S, NEW T, Linked(r, R, W, E, C, S, T),
         NEW i, NEW y \in EndSlots, EndOK(r, R, y), NEW k, NEW l, NEW F, NEW D, Joined(E, C, i, y, k, l, F, D)
  PROVE  Linked(r, R, W, F, D, S, T)
<1>0. /\ E \in [1 .. MaxEnds -> EndSlots] /\ C \in [1 .. MaxCaps -> CapSlots]
      /\ \A j \in 1 .. MaxEnds : E[j].owner # None => EndOK(r, R, E[j])
      /\ \A j \in 1 .. MaxCaps : C[j].owner # None => CapOK(E, C[j])
      /\ \A p \in S : LiveEnd(E, p) /\ ToldRead(r, W, E[p[1]])
      /\ \A p \in T : LiveEnd(E, p) /\ ToldWrite(r, W, E[p[1]])
  BY Zenon DEF Linked
<1> DEFINE z == <<i, E[i].gen>>
           a == Granted(C[k].gen, y.owner, z, "Send")
           b == Granted(C[l].gen, y.consumer, z, "Receive")
<1>1. /\ i \in 1 .. MaxEnds /\ k \in 1 .. MaxCaps /\ l \in 1 .. MaxCaps /\ k # l
      /\ E[i].owner = None /\ y.owner # None /\ y.gen = E[i].gen
      /\ F = [E EXCEPT ![i] = y]
      /\ D = [C EXCEPT ![k] = a, ![l] = b]
  BY Zenon DEF Joined
<1>2. z \in EndHandles /\ z[1] = i /\ z[2] = E[i].gen
  BY Zenon, <1>0, <1>1, EndFields DEF EndHandles
<1>3. y.owner \in Services /\ y.consumer \in Services
  BY Zenon DEF EndOK
<1>4. /\ a \in CapSlots /\ a.owner = y.owner /\ a.end = z /\ a.rights = "Send"
      /\ b \in CapSlots /\ b.owner = y.consumer /\ b.end = z /\ b.rights = "Receive"
  <2>1. C[k].gen \in Nat /\ C[l].gen \in Nat
    BY Zenon, <1>0, <1>1, CapFields
  <2> HIDE DEF z
  <2> QED BY Zenon, <1>2, <1>3, <2>1 DEF Granted, CapSlots, Rights
<1> HIDE DEF z, a, b
<1>5. F \in [1 .. MaxEnds -> EndSlots] /\ F[i] = y /\ \A j \in 1 .. MaxEnds : j # i => F[j] = E[j]
  BY Zenon, <1>0, <1>1
<1>6. D \in [1 .. MaxCaps -> CapSlots] /\ D[k] = a /\ D[l] = b /\ \A j \in 1 .. MaxCaps : j # k /\ j # l => D[j] = C[j]
  BY Zenon, <1>0, <1>1, <1>4
<1>7. LiveEnd(F, z) /\ F[z[1]] = y
  BY Zenon, <1>1, <1>2, <1>5 DEF LiveEnd
<1>8. ASSUME NEW p, LiveEnd(E, p) PROVE LiveEnd(F, p) /\ F[p[1]] = E[p[1]]
  <2>1. p[1] \in 1 .. MaxEnds /\ p[1] # i
    BY Zenon, <1>1, <1>8, EndPairs DEF LiveEnd
  <2>2. F[p[1]] = E[p[1]]
    BY Zenon, <1>5, <2>1
  <2> QED BY Zenon, <1>8, <2>2 DEF LiveEnd
<1>9. ASSUME NEW j \in 1 .. MaxEnds, F[j].owner # None PROVE EndOK(r, R, F[j])
  BY Zenon, <1>0, <1>5, <1>9
<1>10. ASSUME NEW j \in 1 .. MaxCaps, D[j].owner # None PROVE CapOK(F, D[j])
  <2>1. CASE j = k
    BY Zenon, <1>4, <1>6, <1>7, <2>1 DEF CapOK
  <2>2. CASE j = l
    BY Zenon, <1>4, <1>6, <1>7, <2>2 DEF CapOK
  <2>3. CASE j # k /\ j # l
    <3>1. D[j] = C[j] /\ CapOK(E, C[j])
      BY Zenon, <1>0, <1>6, <1>10, <2>3
    <3>2. LiveEnd(F, C[j].end) /\ F[C[j].end[1]] = E[C[j].end[1]]
      BY Zenon, <1>8, <3>1 DEF CapOK
    <3>3. CapOK(F, C[j])
      BY Zenon, <3>1, <3>2 DEF CapOK
    <3> QED BY Zenon, <3>1, <3>3
  <2> QED BY Zenon, <2>1, <2>2, <2>3
<1>11. ASSUME NEW p \in S PROVE LiveEnd(F, p) /\ ToldRead(r, W, F[p[1]])
  BY Zenon, <1>0, <1>8
<1>12. ASSUME NEW p \in T PROVE LiveEnd(F, p) /\ ToldWrite(r, W, F[p[1]])
  BY Zenon, <1>0, <1>8
<1> QED BY <1>5, <1>6, <1>9, <1>10, <1>11, <1>12, Zenon DEF Linked

(* An endpoint is created.                                                  *)
LEMMA ConnectLinks ==
  ASSUME IpcInv, EInv', NEW p \in Services, NEW c \in Services, NEW n \in Sizes, Connect(p, c, n)
  PROVE  IpcInv'
<1> DEFINE i == First(Vacant(ends))
           e == First(Vacant(reg.events))
           f == First(Vacant(reg.events) \ {e})
           k == First(VacantCaps)
           l == First(VacantCaps \ {k})
           rd == <<e, reg.events[e].gen>>
           wr == <<f, reg.events[f].gen>>
           y == NewEnd(ends[i].gen, p, c, n, rd, wr)
<1>1. /\ Vacant(ends) # {} /\ \E u, v \in VacantCaps : u # v
      /\ ends' = [ends EXCEPT ![i] = y]
      /\ caps' = [caps EXCEPT ![k] = Granted(caps[k].gen, p, <<i, ends[i].gen>>, "Send"),
                              ![l] = Granted(caps[l].gen, c, <<i, ends[i].gen>>, "Receive")]
      /\ UNCHANGED <<settled, stalled>>
  BY Zenon DEF Connect
<1>2. Linked(reg, running, owed, ends, caps, settled, stalled) /\ EInv /\ reg \in Registries /\ running \in SUBSET Services
  BY Zenon, Parts DEF IpcInv
<1>3. /\ e \in 1 .. MaxEvents /\ f \in 1 .. MaxEvents /\ e # f
      /\ reg.events[e].owner = None /\ reg.events[f].owner = None
      /\ reg' = NewEvent(NewEvent(reg, e, c), f, p)
      /\ op.pc = "free" /\ p \in running /\ c \in running
      /\ UNCHANGED <<running, epoch, op, isr, owed, dead>>
  BY <1>2, ConnectEvents, Zenon
<1>4. ends \in [1 .. MaxEnds -> EndSlots] /\ caps \in [1 .. MaxCaps -> CapSlots]
  BY Zenon, <1>2 DEF Linked
<1>5. i \in 1 .. MaxEnds /\ ends[i].owner = None
  <2>1. DOMAIN ends = 1 .. MaxEnds
    BY Zenon, <1>4
  <2>2. Vacant(ends) \in SUBSET Nat /\ \A j \in Vacant(ends) : j \in 1 .. MaxEnds /\ ends[j].owner = None
    BY <2>1 DEF Vacant
  <2>3. First(Vacant(ends)) \in Vacant(ends)
    BY Zenon, <1>1, <2>2, FirstIn
  <2> QED BY Zenon, <2>2, <2>3
<1>6. k \in 1 .. MaxCaps /\ l \in 1 .. MaxCaps /\ k # l
  <2>1. VacantCaps \in SUBSET Nat /\ VacantCaps \subseteq 1 .. MaxCaps
    BY DEF VacantCaps
  <2>2. k \in VacantCaps /\ l \in VacantCaps /\ l # k
    BY Zenon, <1>1, <2>1, TwoVacant
  <2> QED BY Zenon, <2>1, <2>2
<1>7. rd \in Handles /\ wr \in Handles /\ rd[1] = e /\ rd[2] = reg.events[e].gen /\ wr[1] = f /\ wr[2] = reg.events[f].gen
  BY Zenon, <1>2, <1>3, Slots
<1>8. ends[i].gen \in Nat
  BY Zenon, <1>4, <1>5, EndFields
<1> HIDE DEF i, e, f, k, l, rd, wr
<1>9. /\ y \in EndSlots /\ Fifo(y)
      /\ y.gen = ends[i].gen /\ y.owner = p /\ y.consumer = c /\ y.rd = rd /\ y.wr = wr
  BY <1>7, <1>8, NewEndFields
<1> HIDE DEF y
<1>10. /\ reg' \in Registries /\ Good(reg', running, op, isr, owed)
       /\ reg'.sets = reg.sets /\ reg'.hw = reg.hw /\ reg'.asleep = reg.asleep
       /\ \A j \in 1 .. MaxEvents :
               /\ reg'.events[j].gen = reg.events[j].gen
               /\ j # e /\ j # f => reg'.events[j] = reg.events[j]
       /\ reg'.events[e].owner = c /\ reg'.events[f].owner = p
  <2>1. /\ reg \in Registries /\ running \in SUBSET Services /\ op \in Calls /\ owed \in SUBSET Handles
        /\ Good(reg, running, op, isr, owed)
    BY Zenon, <1>2, Parts
  <2>2. reg' \in Registries /\ Good(reg', running, op, isr, owed) /\ IsJoined(reg, e, f, c, p, reg')
    <3>1. Joins(reg, running, e, f, c, p, reg')
      BY Zenon, <1>3 DEF Joins
    <3>2. op.pc = "free"
      BY Zenon, <1>3
    <3> QED BY Zenon, <2>1, <3>1, <3>2, NewEventsGood
  <2> QED BY Zenon, <2>2 DEF IsJoined
<1>11. Later(reg, reg')
  <2>1. ASSUME NEW j \in 1 .. MaxEvents
        PROVE  /\ reg'.events[j].gen >= reg.events[j].gen
               /\ reg'.events[j].gen = reg.events[j].gen /\ reg.events[j].owner # None => reg'.events[j].owner # None
    <3>1. reg.events[j].gen \in Nat
      BY Zenon, <1>2, SlotFields
    <3>2. reg'.events[j].gen = reg.events[j].gen
      BY Zenon, <1>10
    <3>3. CASE j = e \/ j = f
      BY <1>3, <3>1, <3>2, <3>3
    <3>4. CASE j # e /\ j # f
      <4>1. reg'.events[j] = reg.events[j]
        BY Zenon, <1>10, <3>4
      <4> QED BY <3>1, <4>1
    <3> QED BY Zenon, <3>3, <3>4
  <2> QED BY <2>1, Zenon DEF Later
<1>12. Known(reg', rd) /\ Known(reg', wr)
  <2>1. reg'.events[e].gen = reg.events[e].gen /\ reg'.events[f].gen = reg.events[f].gen
    BY Zenon, <1>3, <1>10
  <2>2. reg.events[e].gen \in Nat /\ reg.events[f].gen \in Nat
    BY Zenon, <1>2, <1>3, SlotFields
  <2>3. reg'.events[e].owner # None /\ reg'.events[f].owner # None
    BY Zenon, <1>10, NoneOwner
  <2> QED BY <1>7, <2>1, <2>2, <2>3 DEF Known
<1>13. Carried(reg', owed, owed', None) /\ Spared(ends, settled, stalled, None)
  <2>1. Carried(reg', owed, owed', None)
    BY Zenon, <1>3 DEF Carried
  <2> QED BY Zenon, <1>2, <2>1, EndsKnow
<1>14. Linked(reg', running, owed', ends, caps, settled, stalled)
  BY Zenon, <1>2, <1>10, <1>11, <1>13, EventsPass
<1>15. EndOK(reg', running, y)
  BY Zenon, <1>3, <1>9, <1>12 DEF EndOK
<1>16. Joined(ends, caps, i, y, k, l, ends', caps')
  <2>1. y.owner # None
    BY Zenon, <1>9, NoneOwner
  <2>2. caps' = [caps EXCEPT ![k] = Granted(caps[k].gen, y.owner, <<i, ends[i].gen>>, "Send"),
                             ![l] = Granted(caps[l].gen, y.consumer, <<i, ends[i].gen>>, "Receive")]
    BY Zenon, <1>1, <1>9
  <2> QED BY <1>1, <1>5, <1>6, <1>9, <2>1, <2>2, Zenon DEF Joined
<1>17. Linked(reg', running, owed', ends', caps', settled, stalled)
  BY Zenon, <1>2, <1>9, <1>14, <1>15, <1>16, LinkJoin
<1> QED BY Zenon, <1>1, <1>3, <1>17 DEF IpcInv

(* The registries start empty.                                              *)
LEMMA IpcInitGood == IpcInit => IpcInv
<1> SUFFICES ASSUME IpcInit PROVE IpcInv
  BY Zenon
<1>1. EInv
  BY Zenon, InitGood DEF IpcInit
<1>2. /\ ends = [i \in 1 .. MaxEnds |-> VacantEnd(1)] /\ caps = [i \in 1 .. MaxCaps |-> VacantCap(2)]
      /\ settled = {} /\ stalled = {}
  BY Zenon DEF IpcInit
<1>3. /\ VacantEnd(1) \in EndSlots /\ VacantEnd(1).owner = None
      /\ VacantCap(2) \in CapSlots /\ VacantCap(2).owner = None
  BY Zenon, VacantSlots
<1>4. ends \in [1 .. MaxEnds -> EndSlots] /\ caps \in [1 .. MaxCaps -> CapSlots]
  BY Zenon, <1>2, <1>3
<1>5. (\A i \in 1 .. MaxEnds : ends[i].owner = None) /\ (\A i \in 1 .. MaxCaps : caps[i].owner = None)
  BY Zenon, <1>2, <1>3
<1>6. Linked(reg, running, owed, ends, caps, settled, stalled)
  BY Zenon, <1>2, <1>4, <1>5 DEF Linked
<1> QED BY Zenon, <1>1, <1>6 DEF IpcInv

(* Every step of the composed registries preserves the invariant.           *)
LEMMA LinksKept == IpcInv /\ [IpcNext]_allVars => IpcInv'
<1> SUFFICES ASSUME IpcInv, [IpcNext]_allVars PROVE IpcInv'
  BY Zenon
<1>1. EInv'
  BY Zenon, IpcStepKeeps DEF IpcInv
<1>2. CASE UNCHANGED allVars
  <2>1. UNCHANGED <<reg, running, owed, ends, caps, settled, stalled>>
    BY Zenon, <1>2 DEF allVars, vars, ipcVars
  <2> QED BY Zenon, <1>1, <2>1 DEF IpcInv
<1>3. ASSUME NEW p \in Services, NEW c \in Services, NEW n \in Sizes, Connect(p, c, n) PROVE IpcInv'
  BY Zenon, <1>1, <1>3, ConnectLinks
<1>4. ASSUME NEW p \in LiveEnds, DestroyEndpoint(p) PROVE IpcInv'
  BY Zenon, <1>1, <1>4, DestroyEndpointLinks
<1>5. ASSUME NEW o \in Services, StopIpcService(o) PROVE IpcInv'
  BY Zenon, <1>1, <1>5, StopIpcLinks
<1>6. ASSUME NEW o \in Services, NEW k \in LiveCaps, Send(o, k) \/ SendFull(o, k) \/ Receive(o, k) \/ ReceiveEmpty(o, k)
      PROVE  IpcInv'
  BY Zenon, <1>1, <1>6, SendLinks, SendFullLinks, ReceiveLinks, ReceiveEmptyLinks
<1>7. CASE Report
  BY Zenon, <1>1, <1>7, ReportLinks
<1>8. CASE EventStep
  BY Zenon, <1>1, <1>8, EventStepLinks
<1> QED BY <1>2, <1>3, <1>4, <1>5, <1>6, <1>7, <1>8, Zenon DEF IpcNext, IpcCall

(* The invariant says that the queues are FIFO.                             *)
LEMMA LinkedFifo == IpcInv => QueueIsFifo
<1> SUFFICES ASSUME IpcInv, NEW p \in LiveEnds
             PROVE  LET x == ends[p[1]] IN
                    /\ x.len <= x.size
                    /\ (x.head + x.len) % x.size = x.tail
                    /\ \A j \in 0 .. x.len - 1 : x.ring[(x.head + j) % x.size] = x.sent - x.len + j + 1
  BY Zenon DEF QueueIsFifo
<1> DEFINE x == ends[p[1]]
<1>1. LiveEnd(ends, p)
  BY Zenon, EndsLive DEF IpcInv, Linked
<1>2. p[1] \in 1 .. MaxEnds /\ ends[p[1]].owner # None
  BY Zenon, <1>1, EndPairs DEF LiveEnd
<1>3. Fifo(x)
  BY Zenon, <1>2 DEF IpcInv, Linked, EndOK
<1> HIDE DEF x
<1>4. Holds(x.size, x.head, x.len, x.tail, x.sent, x.ring) /\ x.len <= x.size
  <2>1. x.size \in Nat \ {0} /\ x.len \in 0 .. x.size /\ Holds(x.size, x.head, x.len, x.tail, x.sent, x.ring)
    BY Zenon, <1>3, FifoFacts
  <2> QED BY <2>1
<1>5. /\ x.len <= x.size
      /\ (x.head + x.len) % x.size = x.tail
      /\ \A j \in 0 .. x.len - 1 : x.ring[(x.head + j) % x.size] = x.sent - x.len + j + 1
  BY <1>4, Zenon DEF Holds
<1> QED BY <1>5, Zenon DEF x

(* The invariant says that capabilities name live endpoints of their owner. *)
LEMMA LinkedCurrent == IpcInv => CapabilitiesCurrent
<1> SUFFICES ASSUME IpcInv PROVE CapabilitiesCurrent
  BY Zenon
<1>0. /\ ends \in [1 .. MaxEnds -> EndSlots] /\ caps \in [1 .. MaxCaps -> CapSlots]
      /\ \A j \in 1 .. MaxEnds : ends[j].owner # None => EndOK(reg, running, ends[j])
      /\ \A j \in 1 .. MaxCaps : caps[j].owner # None => CapOK(ends, caps[j])
  BY Zenon DEF Linked, IpcInv
<1>1. ASSUME NEW k \in LiveCaps
      PROVE  /\ caps[k[1]].end \in LiveEnds
             /\ caps[k[1]].owner = IF caps[k[1]].rights = "Send" THEN ends[caps[k[1]].end[1]].owner
                                                                 ELSE ends[caps[k[1]].end[1]].consumer
  <2>1. PICK j \in 1 .. MaxCaps : caps[j].owner # None /\ k = <<j, caps[j].gen>>
    BY Zenon DEF LiveCaps
  <2>2. k[1] = j
    BY Zenon, <2>1
  <2>3. CapOK(ends, caps[k[1]])
    BY Zenon, <1>0, <2>1, <2>2
  <2>4. LiveEnd(ends, caps[k[1]].end)
    BY Zenon, <2>3 DEF CapOK
  <2>5. caps[k[1]].end \in LiveEnds
    BY Zenon, <1>0, <2>4, EndsLive
  <2> QED BY Zenon, <2>3, <2>5 DEF CapOK
<1>2. ASSUME NEW p \in LiveEnds PROVE {ends[p[1]].owner, ends[p[1]].consumer} \subseteq running
  <2>1. LiveEnd(ends, p)
    BY Zenon, <1>0, EndsLive
  <2>2. p[1] \in 1 .. MaxEnds /\ ends[p[1]].owner # None
    BY Zenon, <2>1, EndPairs DEF LiveEnd
  <2>3. EndOK(reg, running, ends[p[1]])
    BY Zenon, <1>0, <2>2
  <2> QED BY Zenon, <2>3 DEF EndOK
<1> QED BY <1>1, <1>2, Zenon DEF CapabilitiesCurrent

(* What is owed is ready, so nobody is stranded.                            *)
LEMMA LinkedTold == IpcInv => NoStrandedMessage /\ NoStrandedProducer
<1> SUFFICES ASSUME IpcInv PROVE NoStrandedMessage /\ NoStrandedProducer
  BY Zenon
<1>1. \A e \in owed : LiveEvent(reg, e) /\ Ready(reg, e)
  BY Zenon DEF IpcInv, EInv, Good, KeptOK
<1>2. (\A p \in settled : ToldRead(reg, owed, ends[p[1]])) /\ (\A p \in stalled : ToldWrite(reg, owed, ends[p[1]]))
  BY Zenon DEF IpcInv, Linked
<1> QED BY <1>1, <1>2, Zenon DEF NoStrandedMessage, NoStrandedProducer, ToldRead, ToldWrite

(* The inductive invariant of the two registries.                           *)
THEOREM IpcInvariance == IpcSpec => []IpcInv
BY IpcInitGood, LinksKept, PTL DEF IpcSpec

(* No queue loses, repeats or reorders a message.                           *)
THEOREM QueuesAreFifo == IpcSpec => []QueueIsFifo
BY IpcInvariance, LinkedFifo, PTL

(* A capability never outlives its endpoint.                                *)
THEOREM CapabilitiesStayCurrent == IpcSpec => []CapabilitiesCurrent
BY IpcInvariance, LinkedCurrent, PTL

(* A consumer that found nothing is told of what is sent later.             *)
THEOREM MessagesNotStranded == IpcSpec => []NoStrandedMessage
BY IpcInvariance, LinkedTold, PTL

(* A producer that found no room is told of room made later.                *)
THEOREM ProducersNotStranded == IpcSpec => []NoStrandedProducer
BY IpcInvariance, LinkedTold, PTL

(* The event registry stays sound under the IPC calls.                      *)
THEOREM IpcRegistrySound == IpcSpec => []RegistrySound
<1>1. IpcInv => RegistrySound
  BY Zenon, SoundAgrees DEF IpcInv
<1> QED BY <1>1, IpcInvariance, PTL

(* No signal is lost under the IPC calls.                                   *)
THEOREM IpcSignalsKept == IpcSpec => []NoSignalLost
<1>1. IpcInv => NoSignalLost
  BY Zenon DEF IpcInv, EInv, Good, KeptOK, NoSignalLost
<1> QED BY <1>1, IpcInvariance, PTL

(* No wake is missed under the IPC calls.                                   *)
THEOREM IpcWakesNotMissed == ASSUME SharedHardware = FALSE PROVE IpcSpec => []NoMissedWake
<1>1. IpcInv => NoMissedWake
  BY Zenon, SoundWakes DEF IpcInv
<1> QED BY <1>1, IpcInvariance, PTL

(* f[i] is the sum of the first i weights.                                  *)
Sums(f, w, n) ==
    /\ f \in [0 .. n -> Nat] /\ f[0] = 0
    /\ \A i \in 1 .. n : f[i] = f[i - 1] + w[i]

(* The recursive definition of Total computes the partial sums.             *)
LEMMA TotalRecursion ==
  ASSUME NEW N \in Nat, NEW w \in [1 .. N -> Nat]
  PROVE  \E f : Sums(f, w, N) /\ Total(w, N) = f[N]
<1> DEFINE Bad == {n \in Nat : n <= N /\ ~\E g : Sums(g, w, n)}
<1>a. Sums([i \in 0 .. 0 |-> 0], w, 0)
  BY DEF Sums
<1>b. ASSUME NEW n \in Nat, n + 1 <= N, NEW g, Sums(g, w, n)
      PROVE  \E h : Sums(h, w, n + 1)
  <2> DEFINE v == g[n] + w[n + 1]
             h == [i \in 0 .. n + 1 |-> IF i = n + 1 THEN v ELSE g[i]]
  <2>0. g \in [0 .. n -> Nat] /\ g[0] = 0 /\ \A i \in 1 .. n : g[i] = g[i - 1] + w[i]
    BY Zenon, <1>b DEF Sums
  <2>1. g[n] \in Nat /\ w[n + 1] \in Nat
    BY <1>b, <2>0
  <2>2. v \in Nat
    BY <2>1
  <2>3. h \in [0 .. n + 1 -> Nat] /\ h[0] = 0 /\ h[n + 1] = v
    BY <2>0, <2>2
  <2>4. \A i \in 0 .. n : h[i] = g[i]
    OBVIOUS
  <2>5. ASSUME NEW i \in 1 .. n + 1 PROVE h[i] = h[i - 1] + w[i]
    <3>1. CASE i = n + 1
      <4>1. h[i - 1] = g[n]
        BY <3>1, <2>4
      <4> HIDE DEF h
      <4> QED BY Zenon, <3>1, <4>1, <2>3
    <3>2. CASE i # n + 1
      <4>1. i \in 1 .. n /\ i - 1 \in 0 .. n /\ i \in 0 .. n
        BY <3>2, <2>5
      <4> HIDE DEF h
      <4> QED BY Zenon, <4>1, <2>4, <2>0
    <3> QED BY Zenon, <3>1, <3>2
  <2> HIDE DEF h
  <2> QED BY Zenon, <2>3, <2>5 DEF Sums
<1>1. Bad = {}
  <2>1. SUFFICES ASSUME NEW n \in Bad, \A m \in Bad : n <= m PROVE FALSE
    <3>1. Bad \subseteq Nat
      BY Zenon
    <3> HIDE DEF Bad
    <3> QED BY Zenon, <3>1, Least
  <2>2. n \in Nat /\ n <= N /\ ~\E g : Sums(g, w, n)
    BY Zenon
  <2>3. n # 0
    BY Zenon, <1>a, <2>2
  <2>4. n - 1 \in Nat /\ n - 1 <= N
    BY <2>2, <2>3
  <2>5. n - 1 \notin Bad
    <3> HIDE DEF Bad
    <3> QED BY <2>1, <2>4, <2>2
  <2>6. PICK g : Sums(g, w, n - 1)
    BY Zenon, <2>4, <2>5
  <2>7. \E h : Sums(h, w, (n - 1) + 1)
    BY <1>b, <2>4, <2>6, <2>2
  <2>8. (n - 1) + 1 = n
    BY <2>2
  <2> QED BY Zenon, <2>7, <2>8, <2>2
<1>c. N \notin Bad
  BY <1>1, Zenon
<1>2. PICK f : Sums(f, w, N)
  BY <1>c
<1>f. f \in [0 .. N -> Nat] /\ f[0] = 0 /\ \A i \in 1 .. N : f[i] = f[i - 1] + w[i]
  BY Zenon, <1>2 DEF Sums
<1> DEFINE D(G) == [i \in 0 .. N |-> IF i = 0 THEN 0 ELSE G[i - 1] + w[i]]
<1>3. f = D(f)
  <2>2. ASSUME NEW i \in 0 .. N PROVE f[i] = D(f)[i]
    <3>1. CASE i = 0
      BY Zenon, <3>1, <1>f
    <3>2. CASE i # 0
      <4>1. i \in 1 .. N
        BY <3>2
      <4> QED BY Zenon, <4>1, <1>f
    <3> QED BY Zenon, <3>1, <3>2
  <2>4. D(f) = [i \in 0 .. N |-> D(f)[i]]
    BY Zenon
  <2> HIDE DEF D
  <2> QED BY Zenon, <1>f, <2>2, <2>4
<1> DEFINE F == CHOOSE F : F = D(F)
<1>4. F = D(F)
  BY <1>3, Zenon
<1>5. Total(w, N) = F[N]
  BY Zenon DEF Total
<1>6. \A i \in 0 .. N : F[i] = f[i]
  <2> DEFINE Off == {i \in Nat : i <= N /\ F[i] # f[i]}
  <2>1. SUFFICES ASSUME NEW n \in Off, \A m \in Off : n <= m PROVE FALSE
    <3>1. Off \subseteq Nat
      BY Zenon
    <3>2. Off = {}
      <4> HIDE DEF Off
      <4> QED BY Zenon, <3>1, Least, <2>1
    <3> HIDE DEF F
    <3>3. ASSUME NEW i \in 0 .. N, F[i] # f[i] PROVE FALSE
      <4>1. i \in Off
        BY <3>3
      <4> QED BY Zenon, <4>1, <3>2
    <3> QED BY Zenon, <3>3
  <2> HIDE DEF F
  <2>2. n \in 0 .. N /\ F[n] # f[n]
    OBVIOUS
  <2>3. n # 0
    BY Zenon, <1>4, <1>3, <2>2
  <2>4. n - 1 \in Nat /\ n - 1 <= N
    BY <2>2, <2>3
  <2>5. F[n - 1] = f[n - 1]
    <3>1. n - 1 \notin Off
      <4> HIDE DEF Off
      <4> QED BY <2>1, <2>4, <2>2
    <3> QED BY Zenon, <3>1, <2>4
  <2> QED BY Zenon, <2>5, <2>2, <2>3, <1>4, <1>3
<1>7. Total(w, N) = f[N]
  <2> HIDE DEF F
  <2> QED BY <1>5, <1>6
<1> QED BY Zenon, <1>2, <1>7

(* A total is a natural number.                                             *)
LEMMA TotalNat ==
  ASSUME NEW N \in Nat, NEW w \in [1 .. N -> Nat]
  PROVE  Total(w, N) \in Nat
<1>1. PICK f : Sums(f, w, N) /\ Total(w, N) = f[N]
  BY Zenon, TotalRecursion
<1> QED BY <1>1 DEF Sums

(* The total of a pointwise sum is the sum of the totals.                   *)
LEMMA TotalAdd ==
  ASSUME NEW N \in Nat, NEW w \in [1 .. N -> Nat], NEW u \in [1 .. N -> Nat], NEW v \in [1 .. N -> Nat],
         \A i \in 1 .. N : w[i] = u[i] + v[i]
  PROVE  Total(w, N) = Total(u, N) + Total(v, N)
<1>1. PICK f : Sums(f, w, N) /\ Total(w, N) = f[N]
  BY Zenon, TotalRecursion
<1>2. PICK g : Sums(g, u, N) /\ Total(u, N) = g[N]
  BY Zenon, TotalRecursion
<1>3. PICK h : Sums(h, v, N) /\ Total(v, N) = h[N]
  BY Zenon, TotalRecursion
<1>4. /\ f[0] = 0 /\ g[0] = 0 /\ h[0] = 0
      /\ \A i \in 0 .. N : f[i] \in Nat /\ g[i] \in Nat /\ h[i] \in Nat
      /\ \A i \in 1 .. N : f[i] = f[i - 1] + w[i] /\ g[i] = g[i - 1] + u[i] /\ h[i] = h[i - 1] + v[i]
  BY Zenon, <1>1, <1>2, <1>3 DEF Sums
<1> DEFINE Off == {i \in 0 .. N : f[i] # g[i] + h[i]}
<1>5. Off = {}
  <2>1. SUFFICES ASSUME NEW n \in Off, \A m \in Off : n <= m PROVE FALSE
    <3>1. Off \subseteq Nat
      OBVIOUS
    <3> HIDE DEF Off
    <3> QED BY Zenon, <3>1, Least
  <2>2. n \in 0 .. N /\ f[n] # g[n] + h[n]
    BY Zenon
  <2>3. n # 0
    BY <1>4, <2>2
  <2>4. n - 1 \in 0 .. N /\ n \in 1 .. N
    BY <2>2, <2>3
  <2>5. n - 1 \notin Off
    <3> HIDE DEF Off
    <3> QED BY <2>1, <2>4
  <2>6. f[n - 1] = g[n - 1] + h[n - 1]
    BY Zenon, <2>4, <2>5
  <2>7. f[n] = f[n - 1] + w[n] /\ g[n] = g[n - 1] + u[n] /\ h[n] = h[n - 1] + v[n] /\ w[n] = u[n] + v[n]
    BY Zenon, <1>4, <2>4
  <2>8. g[n - 1] \in Nat /\ h[n - 1] \in Nat /\ u[n] \in Nat /\ v[n] \in Nat
    BY Zenon, <1>4, <2>4
  <2>9. f[n] = g[n] + h[n]
    <3> HIDE DEF Off
    <3> QED BY <2>6, <2>7, <2>8
  <2> QED BY <2>2, <2>9, Zenon
<1>6. f[N] = g[N] + h[N]
  <2>1. N \in 0 .. N
    OBVIOUS
  <2>2. N \notin Off
    BY <1>5, Zenon
  <2> QED BY <2>1, <2>2, Zenon
<1> QED BY Zenon, <1>1, <1>2, <1>3, <1>6

(* The k-th weight is m and the others are 0; there is no 0th one.          *)
Alone(w, N, k, m) == w \in [1 .. N -> Nat] /\ \A i \in 1 .. N : w[i] = IF i = k THEN m ELSE 0

(* One weight alone is the total, and none at all is 0.                     *)
LEMMA TotalOne ==
  ASSUME NEW N \in Nat, NEW k \in 0 .. N, NEW m \in Nat, NEW w,
         Alone(w, N, k, m)
  PROVE  Total(w, N) = IF k = 0 THEN 0 ELSE m
<1>0. w \in [1 .. N -> Nat] /\ \A i \in 1 .. N : w[i] = IF i = k THEN m ELSE 0
  BY Zenon DEF Alone
<1>1. PICK f : Sums(f, w, N) /\ Total(w, N) = f[N]
  BY Zenon, <1>0, TotalRecursion
<1>2. f[0] = 0 /\ \A i \in 1 .. N : f[i] = f[i - 1] + w[i]
  BY Zenon, <1>1 DEF Sums
<1> DEFINE Off == {i \in 0 .. N : f[i] # IF k = 0 \/ i < k THEN 0 ELSE m}
<1>5. Off = {}
  <2>1. SUFFICES ASSUME NEW n \in Off, \A j \in Off : n <= j PROVE FALSE
    <3>1. Off \subseteq Nat
      OBVIOUS
    <3> HIDE DEF Off
    <3> QED BY Zenon, <3>1, Least
  <2>2. n \in 0 .. N /\ f[n] # IF k = 0 \/ n < k THEN 0 ELSE m
    BY Zenon
  <2>3. n # 0
    BY <1>2, <2>2
  <2>4. n - 1 \in 0 .. N /\ n \in 1 .. N
    BY <2>2, <2>3
  <2>5. n - 1 \notin Off
    <3> HIDE DEF Off
    <3> QED BY <2>1, <2>4
  <2>6. f[n - 1] = IF k = 0 \/ n - 1 < k THEN 0 ELSE m
    BY Zenon, <2>4, <2>5
  <2>7. f[n] = f[n - 1] + w[n] /\ w[n] = IF n = k THEN m ELSE 0
    BY Zenon, <1>0, <1>2, <2>4
  <2> QED BY <2>2, <2>4, <2>6, <2>7
<1>6. f[N] = IF k = 0 \/ N < k THEN 0 ELSE m
  BY <1>5
<1> QED BY <1>1, <1>6

(* The frames that each slot of endpoints holds.                            *)
HeldFrames(E) == [i \in 1 .. MaxEnds |-> IF E[i].owner # None THEN E[i].size ELSE 0]

(* The budget m counts the frames that endpoints hold, and f are left.      *)
Paid(E, m, f) == f \in Nat /\ m = Total(HeldFrames(E), MaxEnds) /\ f + m = Frames

(* The inductive invariant with the frames.                                 *)
FramesInv == IpcInv /\ Paid(ends, committed, free)

(* A slot holds a number of frames, also in what a teardown returns.        *)
LEMMA HeldType ==
  ASSUME NEW E \in [1 .. MaxEnds -> EndSlots], NEW P
  PROVE  HeldFrames(E) \in [1 .. MaxEnds -> Nat] /\ Weights(E, P) \in [1 .. MaxEnds -> Nat]
<1>1. \A i \in 1 .. MaxEnds : E[i].size \in Nat
  BY Zenon, EndFields
<1> QED BY Zenon, <1>1 DEF HeldFrames, Weights

(* Endpoints that are dropped give back exactly what they hold.             *)
LEMMA DropPaid ==
  ASSUME NEW E \in [1 .. MaxEnds -> EndSlots], NEW P, \A p \in P : LiveEnd(E, p),
         NEW m, NEW f, Paid(E, m, f), NEW F,
         F = [i \in 1 .. MaxEnds |-> IF <<i, E[i].gen>> \in P THEN VacantEnd(E[i].gen + 1) ELSE E[i]]
  PROVE  Paid(F, m - Total(Weights(E, P), MaxEnds), f + Total(Weights(E, P), MaxEnds))
<1>1. ASSUME NEW i \in 1 .. MaxEnds
      PROVE  /\ F[i] \in EndSlots
             /\ HeldFrames(E)[i] = HeldFrames(F)[i] + Weights(E, P)[i]
  <2>1. E[i] \in EndSlots /\ E[i].gen \in Nat /\ E[i].size \in Nat
    BY Zenon, EndFields
  <2>2. CASE <<i, E[i].gen>> \in P
    <3>1. F[i] = VacantEnd(E[i].gen + 1)
      BY Zenon, <2>2
    <3>2. F[i] \in EndSlots /\ F[i].owner = None
      BY <2>1, <3>1, VacantSlots
    <3>3. E[i].owner # None
      <4>1. LiveEnd(E, <<i, E[i].gen>>)
        BY Zenon, <2>2
      <4>2. <<i, E[i].gen>>[1] = i
        BY Zenon
      <4> QED BY Zenon, <4>1, <4>2 DEF LiveEnd
    <3>4. HeldFrames(E)[i] = E[i].size /\ HeldFrames(F)[i] = 0 /\ Weights(E, P)[i] = E[i].size
      BY Zenon, <2>2, <3>2, <3>3 DEF HeldFrames, Weights
    <3> QED BY <2>1, <3>2, <3>4
  <2>3. CASE <<i, E[i].gen>> \notin P
    <3>1. F[i] = E[i]
      BY Zenon, <2>3
    <3>2. HeldFrames(F)[i] = HeldFrames(E)[i] /\ Weights(E, P)[i] = 0 /\ HeldFrames(E)[i] \in Nat
      BY Zenon, <2>1, <2>3, <3>1 DEF HeldFrames, Weights
    <3> QED BY <2>1, <3>1, <3>2
  <2> QED BY Zenon, <2>2, <2>3
<1>2. F \in [1 .. MaxEnds -> EndSlots]
  BY Zenon, <1>1
<1>3. /\ HeldFrames(E) \in [1 .. MaxEnds -> Nat] /\ HeldFrames(F) \in [1 .. MaxEnds -> Nat]
      /\ Weights(E, P) \in [1 .. MaxEnds -> Nat] /\ MaxEnds \in Nat
  BY Zenon, <1>2, HeldType, IpcAssumption
<1>4. \A i \in 1 .. MaxEnds : HeldFrames(E)[i] = HeldFrames(F)[i] + Weights(E, P)[i]
  BY Zenon, <1>1
<1>5. Total(HeldFrames(E), MaxEnds) = Total(HeldFrames(F), MaxEnds) + Total(Weights(E, P), MaxEnds)
  BY Zenon, <1>3, <1>4, TotalAdd
<1>6. Total(HeldFrames(E), MaxEnds) \in Nat /\ Total(HeldFrames(F), MaxEnds) \in Nat /\ Total(Weights(E, P), MaxEnds) \in Nat
  BY Zenon, <1>3, TotalNat
<1> QED BY <1>5, <1>6, IpcAssumption DEF Paid

(* An endpoint that moves on keeps its frames.                              *)
LEMMA SwapPaid ==
  ASSUME NEW E \in [1 .. MaxEnds -> EndSlots], NEW i \in 1 .. MaxEnds, NEW y, NEW m, NEW f, Paid(E, m, f),
         y.owner = E[i].owner, y.size = E[i].size
  PROVE  Paid([E EXCEPT ![i] = y], m, f)
<1> DEFINE F == [E EXCEPT ![i] = y]
<1>1. ASSUME NEW j \in 1 .. MaxEnds PROVE F[j].owner = E[j].owner /\ F[j].size = E[j].size
  BY Zenon
<1> HIDE DEF F
<1>2. HeldFrames(F) = HeldFrames(E)
  BY Zenon, <1>1 DEF HeldFrames
<1>3. Paid(F, m, f)
  BY Zenon, <1>2 DEF Paid
<1> QED BY Zenon, <1>3 DEF F

(* A new endpoint is paid for from the frames that are left.                *)
LEMMA JoinPaid ==
  ASSUME NEW E \in [1 .. MaxEnds -> EndSlots], NEW i \in 1 .. MaxEnds, NEW y \in EndSlots, NEW m, NEW f, Paid(E, m, f),
         NEW n \in Nat, E[i].owner = None, y.owner # None, y.size = n, n <= f
  PROVE  Paid([E EXCEPT ![i] = y], m + n, f - n)
<1> DEFINE F == [E EXCEPT ![i] = y]
           u == [j \in 1 .. MaxEnds |-> IF j = i THEN n ELSE 0]
<1>1. F \in [1 .. MaxEnds -> EndSlots] /\ F[i] = y /\ \A j \in 1 .. MaxEnds : j # i => F[j] = E[j]
  BY Zenon
<1>2. u \in [1 .. MaxEnds -> Nat] /\ \A j \in 1 .. MaxEnds : u[j] = IF j = i THEN n ELSE 0
  BY Zenon
<1> HIDE DEF F, u
<1>3. /\ HeldFrames(E) \in [1 .. MaxEnds -> Nat] /\ HeldFrames(F) \in [1 .. MaxEnds -> Nat] /\ MaxEnds \in Nat
  BY Zenon, <1>1, HeldType, IpcAssumption
<1>4. ASSUME NEW j \in 1 .. MaxEnds PROVE HeldFrames(F)[j] = HeldFrames(E)[j] + u[j]
  <2>1. CASE j = i
    <3>1. HeldFrames(F)[i] = n /\ HeldFrames(E)[i] = 0 /\ u[i] = n
      BY Zenon, <1>1, <1>2 DEF HeldFrames
    <3> QED BY <2>1, <3>1
  <2>2. CASE j # i
    <3>1. HeldFrames(F)[j] = HeldFrames(E)[j] /\ u[j] = 0 /\ HeldFrames(E)[j] \in Nat
      BY Zenon, <1>1, <1>2, <1>3, <2>2 DEF HeldFrames
    <3> QED BY <3>1
  <2> QED BY Zenon, <2>1, <2>2
<1>5. Total(HeldFrames(F), MaxEnds) = Total(HeldFrames(E), MaxEnds) + Total(u, MaxEnds)
  BY Zenon, <1>2, <1>3, <1>4, TotalAdd
<1>6. Total(u, MaxEnds) = n
  <2>1. i \in 0 .. MaxEnds /\ i # 0
    BY <1>3
  <2>3. Alone(u, MaxEnds, i, n)
    BY <1>2, Zenon DEF Alone
  <2>2. Total(u, MaxEnds) = IF i = 0 THEN 0 ELSE n
    BY <1>3, <2>1, <2>3, TotalOne
  <2> QED BY Zenon, <2>1, <2>2
<1>7. Total(HeldFrames(E), MaxEnds) \in Nat
  BY Zenon, <1>3, TotalNat
<1>8. Paid(F, m + n, f - n)
  BY <1>5, <1>6, <1>7, IpcAssumption DEF Paid
<1> QED BY Zenon, <1>8 DEF F

(* The frames of all live endpoints are those that the slots hold.          *)
LEMMA HeldBacked ==
  ASSUME ends \in [1 .. MaxEnds -> EndSlots]
  PROVE  Backed(LiveEnds) = Total(HeldFrames(ends), MaxEnds)
<1>1. ASSUME NEW i \in 1 .. MaxEnds PROVE <<i, ends[i].gen>> \in LiveEnds <=> ends[i].owner # None
  <2>1. <<i, ends[i].gen>> \in EndHandles /\ <<i, ends[i].gen>>[1] = i /\ <<i, ends[i].gen>>[2] = ends[i].gen
    BY Zenon, EndFields DEF EndHandles
  <2>2. LiveEnd(ends, <<i, ends[i].gen>>) <=> ends[i].owner # None
    BY Zenon, <2>1 DEF LiveEnd
  <2> QED BY Zenon, <2>2, EndsLive
<1>2. Weights(ends, LiveEnds) = HeldFrames(ends)
  BY Zenon, <1>1 DEF Weights, HeldFrames
<1> QED BY Zenon, <1>2 DEF Backed

(* A service has only live endpoints.                                       *)
LEMMA EndsOfLive == \A o : EndsOf(o) \subseteq LiveEnds
BY Zenon DEF EndsOf

(* A teardown returns the frames of what it drops.                          *)
LEMMA DropEndsPaid ==
  ASSUME FramesInv, NEW P \in SUBSET LiveEnds, DropEnds(P)
  PROVE  Paid(ends, committed, free)'
<1>1. ends \in [1 .. MaxEnds -> EndSlots] /\ Paid(ends, committed, free)
  BY Zenon DEF FramesInv, IpcInv, Linked
<1>2. \A p \in P : LiveEnd(ends, p)
  BY Zenon, <1>1, EndsLive
<1>3. /\ ends' = [i \in 1 .. MaxEnds |-> IF <<i, ends[i].gen>> \in P THEN VacantEnd(ends[i].gen + 1) ELSE ends[i]]
      /\ committed' = committed - Total(Weights(ends, P), MaxEnds)
      /\ free' = free + Total(Weights(ends, P), MaxEnds)
  BY Zenon DEF DropEnds, Backed
<1>4. Paid(ends', committed - Total(Weights(ends, P), MaxEnds), free + Total(Weights(ends, P), MaxEnds))
  BY Zenon, <1>1, <1>2, <1>3, DropPaid
<1> QED BY Zenon, <1>3, <1>4

(* A new endpoint takes its frames from the pool.                           *)
LEMMA ConnectPaid ==
  ASSUME FramesInv, NEW p \in Services, NEW c \in Services, NEW n \in Sizes, Connect(p, c, n)
  PROVE  Paid(ends, committed, free)'
<1> DEFINE i == First(Vacant(ends))
           e == First(Vacant(reg.events))
           f == First(Vacant(reg.events) \ {e})
           rd == <<e, reg.events[e].gen>>
           wr == <<f, reg.events[f].gen>>
           y == NewEnd(ends[i].gen, p, c, n, rd, wr)
<1>1. /\ Vacant(ends) # {} /\ n <= free
      /\ ends' = [ends EXCEPT ![i] = y]
      /\ committed' = committed + n /\ free' = free - n
  BY Zenon DEF Connect
<1>2. EInv /\ ends \in [1 .. MaxEnds -> EndSlots] /\ Paid(ends, committed, free) /\ reg \in Registries
  BY Zenon, Parts DEF FramesInv, IpcInv, Linked
<1>3. /\ e \in 1 .. MaxEvents /\ f \in 1 .. MaxEvents
  BY <1>2, ConnectEvents, Zenon
<1>5. i \in 1 .. MaxEnds /\ ends[i].owner = None
  <2>1. DOMAIN ends = 1 .. MaxEnds
    BY Zenon, <1>2
  <2>2. Vacant(ends) \in SUBSET Nat /\ \A j \in Vacant(ends) : j \in 1 .. MaxEnds /\ ends[j].owner = None
    BY <2>1 DEF Vacant
  <2>3. First(Vacant(ends)) \in Vacant(ends)
    BY Zenon, <1>1, <2>2, FirstIn
  <2> QED BY Zenon, <2>2, <2>3
<1>6. rd \in Handles /\ wr \in Handles
  BY Zenon, <1>2, <1>3, Slots
<1>7. ends[i].gen \in Nat
  BY Zenon, <1>2, <1>5, EndFields
<1> HIDE DEF i, e, f, rd, wr
<1>8. y \in EndSlots /\ y.owner = p
  BY <1>6, <1>7, NewEndFields
<1>9. y.size = n /\ n \in Nat
  BY Zenon, IpcAssumption DEF NewEnd
<1>10. y.owner # None
  BY Zenon, <1>8, NoneOwner
<1> HIDE DEF y
<1>11. Paid([ends EXCEPT ![i] = y], committed + n, free - n)
  BY Zenon, <1>1, <1>2, <1>5, <1>8, <1>9, <1>10, JoinPaid
<1> QED BY Zenon, <1>1, <1>11

(* A message moves through frames that the endpoint has.                    *)
LEMMA SendPaid ==
  ASSUME FramesInv, NEW o \in Services, NEW k, Send(o, k) \/ Receive(o, k)
  PROVE  Paid(ends, committed, free)'
<1>0. IpcInv /\ ends \in [1 .. MaxEnds -> EndSlots] /\ Paid(ends, committed, free)
  BY Zenon DEF FramesInv, IpcInv, Linked
<1> DEFINE i == caps[k[1]].end[1]
           x == ends[i]
<1>1. CASE Send(o, k)
  <2> DEFINE y == Enqueued(x)
  <2>1. /\ k \in Grants(o, "Send") /\ x.len < x.size /\ x.sent < MaxSent
        /\ ends' = [ends EXCEPT ![i] = y] /\ UNCHANGED <<committed, free>>
    BY Zenon, <1>1 DEF Send
  <2>2. i \in 1 .. MaxEnds /\ x \in EndSlots /\ Fifo(x)
    BY Zenon, <1>0, <2>1, GrantFacts DEF EndOK
  <2>3. y.owner = x.owner /\ y.size = x.size
    BY Zenon, <2>1, <2>2, EnqueuedFields
  <2> HIDE DEF y
  <2>4. Paid([ends EXCEPT ![i] = y], committed, free)
    BY Zenon, <1>0, <2>2, <2>3, SwapPaid
  <2> QED BY Zenon, <2>1, <2>4
<1>2. CASE Receive(o, k)
  <2> DEFINE y == Dequeued(x)
  <2>1. /\ k \in Grants(o, "Receive") /\ x.len > 0
        /\ ends' = [ends EXCEPT ![i] = y] /\ UNCHANGED <<committed, free>>
    BY Zenon, <1>2 DEF Receive
  <2>2. i \in 1 .. MaxEnds /\ x \in EndSlots /\ Fifo(x)
    BY Zenon, <1>0, <2>1, GrantFacts DEF EndOK
  <2>3. y.owner = x.owner /\ y.size = x.size
    BY Zenon, <2>1, <2>2, DequeuedFields
  <2> HIDE DEF y
  <2>4. Paid([ends EXCEPT ![i] = y], committed, free)
    BY Zenon, <1>0, <2>2, <2>3, SwapPaid
  <2> QED BY Zenon, <2>1, <2>4
<1> QED BY Zenon, <1>1, <1>2

(* At first all frames are in the pool.                                     *)
LEMMA FramesInit == IpcInit => FramesInv
<1> SUFFICES ASSUME IpcInit PROVE FramesInv
  BY Zenon
<1>1. IpcInv
  BY Zenon, IpcInitGood
<1>2. ends = [i \in 1 .. MaxEnds |-> VacantEnd(1)] /\ committed = 0 /\ free = Frames
  BY Zenon DEF IpcInit
<1>3. VacantEnd(1).owner = None
  BY Zenon, VacantSlots
<1>4. HeldFrames(ends) \in [1 .. MaxEnds -> Nat] /\ \A i \in 1 .. MaxEnds : HeldFrames(ends)[i] = IF i = 0 THEN 0 ELSE 0
  BY Zenon, <1>2, <1>3 DEF HeldFrames
<1>5. Alone(HeldFrames(ends), MaxEnds, 0, 0)
  BY <1>4, Zenon DEF Alone
<1>6. MaxEnds \in Nat /\ 0 \in 0 .. MaxEnds /\ 0 \in Nat /\ Frames \in Nat
  BY IpcAssumption
<1>7. Total(HeldFrames(ends), MaxEnds) = 0
  <2>1. Total(HeldFrames(ends), MaxEnds) = IF 0 = 0 THEN 0 ELSE 0
    BY Zenon, <1>5, <1>6, TotalOne
  <2> QED BY Zenon, <2>1
<1>8. Paid(ends, committed, free)
  BY <1>2, <1>6, <1>7 DEF Paid
<1> QED BY Zenon, <1>1, <1>8 DEF FramesInv

(* Every step of the composed registries keeps the account of frames.       *)
LEMMA FramesKept == FramesInv /\ [IpcNext]_allVars => FramesInv'
<1> SUFFICES ASSUME FramesInv, [IpcNext]_allVars PROVE FramesInv'
  BY Zenon
<1>1. IpcInv'
  BY Zenon, LinksKept DEF FramesInv
<1> SUFFICES Paid(ends, committed, free)'
  BY Zenon, <1>1 DEF FramesInv
<1>0. Paid(ends, committed, free)
  BY Zenon DEF FramesInv
<1>u. ASSUME UNCHANGED <<ends, committed, free>> PROVE Paid(ends, committed, free)'
  BY Zenon, <1>0, <1>u
<1>2. CASE UNCHANGED allVars
  BY Zenon, <1>u, <1>2 DEF allVars, ipcVars
<1>3. ASSUME NEW p \in Services, NEW c \in Services, NEW n \in Sizes, Connect(p, c, n)
      PROVE  Paid(ends, committed, free)'
  BY Zenon, <1>3, ConnectPaid
<1>4. ASSUME NEW p \in LiveEnds, DestroyEndpoint(p) PROVE Paid(ends, committed, free)'
  <2>1. {p} \in SUBSET LiveEnds /\ DropEnds({p})
    BY Zenon, <1>4 DEF DestroyEndpoint
  <2> QED BY Zenon, <2>1, DropEndsPaid
<1>5. ASSUME NEW o \in Services, StopIpcService(o) PROVE Paid(ends, committed, free)'
  <2>1. DropEnds(EndsOf(o)) /\ EndsOf(o) \in SUBSET LiveEnds
    BY Zenon, <1>5, EndsOfLive DEF StopIpcService
  <2> QED BY Zenon, <2>1, DropEndsPaid
<1>6. ASSUME NEW o \in Services, NEW k \in LiveCaps, Send(o, k) \/ SendFull(o, k) \/ Receive(o, k) \/ ReceiveEmpty(o, k)
      PROVE  Paid(ends, committed, free)'
  <2>1. CASE Send(o, k) \/ Receive(o, k)
    BY Zenon, <2>1, SendPaid
  <2>2. CASE SendFull(o, k)
    BY Zenon, <1>u, <2>2 DEF SendFull
  <2>3. CASE ReceiveEmpty(o, k)
    BY Zenon, <1>u, <2>3 DEF ReceiveEmpty
  <2> QED BY Zenon, <1>6, <2>1, <2>2, <2>3
<1>7. CASE Report
  BY Zenon, <1>u, <1>7 DEF Report
<1>8. CASE EventStep
  BY Zenon, <1>u, <1>8 DEF EventStep, ipcVars
<1> QED BY <1>2, <1>3, <1>4, <1>5, <1>6, <1>7, <1>8, Zenon DEF IpcNext, IpcCall

(* FramesInv is an invariant of the composed registries.                    *)
THEOREM FramesInvariance == IpcSpec => []FramesInv
BY FramesInit, FramesKept, PTL DEF IpcSpec

(* The committed budget is what live endpoints hold, and with the free      *)
(* frames it makes up the pool: no creation or teardown, by a service or    *)
(* for one that stops, leaks frames or returns them twice.                  *)
THEOREM FramesStayConserved == IpcSpec => []FramesConserved
<1>1. FramesInv => FramesConserved
  <2> SUFFICES ASSUME FramesInv PROVE FramesConserved
    BY Zenon
  <2>1. ends \in [1 .. MaxEnds -> EndSlots] /\ Paid(ends, committed, free)
    BY Zenon DEF FramesInv, IpcInv, Linked
  <2> QED BY Zenon, <2>1, HeldBacked DEF FramesConserved, Paid
<1> QED BY <1>1, FramesInvariance, PTL

(* Every variable of the composed registries keeps its type; the budget and *)
(* the pool stay within the frames that there are.                          *)
THEOREM IpcTyped == IpcSpec => []IpcTypeOK
<1>1. FramesInv => IpcTypeOK
  <2> SUFFICES ASSUME FramesInv PROVE IpcTypeOK
    BY Zenon
  <2>1. EInv /\ Linked(reg, running, owed, ends, caps, settled, stalled) /\ Paid(ends, committed, free)
    BY Zenon DEF FramesInv, IpcInv
  <2>2. /\ ends \in [1 .. MaxEnds -> EndSlots] /\ caps \in [1 .. MaxCaps -> CapSlots]
        /\ settled \subseteq EndHandles /\ stalled \subseteq EndHandles
    BY Zenon, <2>1 DEF Linked, LiveEnd
  <2>3. TypeOK
    BY Zenon, <2>1 DEF EInv
  <2>4. committed \in 0 .. Frames /\ free \in 0 .. Frames
    <3>1. HeldFrames(ends) \in [1 .. MaxEnds -> Nat] /\ MaxEnds \in Nat /\ Frames \in Nat
      BY Zenon, <2>2, HeldType, IpcAssumption
    <3>2. Total(HeldFrames(ends), MaxEnds) \in Nat
      BY Zenon, <3>1, TotalNat
    <3> QED BY <2>1, <3>1, <3>2 DEF Paid
  <2> QED BY Zenon, <2>2, <2>3, <2>4 DEF IpcTypeOK
<1> QED BY <1>1, FramesInvariance, PTL

=============================================================================
