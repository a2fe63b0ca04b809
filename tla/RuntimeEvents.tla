---------------------------- MODULE RuntimeEvents ----------------------------
(***************************************************************************)
(* The event registry of Core (src/runtime_events.rs) with the service     *)
(* calls that use it (event_call in src/service_runtime.rs): events, event *)
(* sets, the router from hardware sources to events, and the wait of a     *)
(* service on a set.                                                       *)
(*                                                                         *)
(* All calls run under the service runtime lock, one at a time.  Interrupt *)
(* handlers do not take the lock: signal_hardware_event stores a pending   *)
(* flag and wakes the set bound to the source, between any two steps of a  *)
(* call.  The steps of a wait are therefore separate actions; the other    *)
(* calls touch the router with a single store each.                        *)
(*                                                                         *)
(* A handle is <<index, generation>>.  The registry is one record, so that *)
(* an operation is a function from registry to registry which other        *)
(* modules can compose.  A call that is refused changes nothing and is no  *)
(* step.                                                                   *)
(***************************************************************************)
EXTENDS Naturals, Sequences

CONSTANTS
    Services,      \* service handles that own events and sets
    Driver,        \* the service that owns the hardware events (Input)
    NumSources,    \* HardwareEventSource: Network, Keyboard, Pointer
    MaxEvents,     \* bound: event slots the heap has room for
    MaxSets,       \* bound: set slots the heap has room for
    MaxGen,        \* bound: no slot is used beyond this generation
    MaxEpoch,      \* bound: service epochs, one per graph restart
    SharedHardware,\* BOOLEAN: a hardware event may be in two sets at once
    None           \* vacant slot, raw handle 0, task not registered

ASSUME DriverAssumption == Driver \in Services
ASSUME BoundsAssumption == /\ NumSources \in Nat /\ MaxEvents \in Nat /\ MaxSets \in Nat
                           /\ MaxGen \in Nat /\ MaxEpoch \in Nat
                           /\ NumSources <= MaxEvents
ASSUME NoHandleAssumption == None \notin Services /\ None \notin Nat \X Nat
ASSUME SharedAssumption == SharedHardware \in BOOLEAN

Sources == 1 .. NumSources

VARIABLES
    reg,      \* the registry, the hardware router and who sleeps on what
    running,  \* services whose record is Running and whose task exists
    epoch,    \* service_epoch, the generation seed of the registry
    op,       \* the wait_any call in progress under the lock
    isr,      \* source -> step of the interrupt handler that signals it
    owed,     \* history: events signaled and not yet reported to their owner
    dead      \* history: handles of destroyed events and of earlier epochs

vars == <<reg, running, epoch, op, isr, owed, dead>>

Handles == (1 .. MaxEvents) \X Nat
SetHandles == (1 .. MaxSets) \X Nat

EventSlots == [gen : Nat, owner : Services \cup {None}, signaled : BOOLEAN]
SetSlots == [gen : Nat, owner : Services \cup {None}, members : Seq(Handles),
             waiting : BOOLEAN, invalidated : BOOLEAN]
Routes == [event : Handles \cup {None}, set : SetHandles \cup {None}, pending : BOOLEAN]

Registries == [events : [1 .. MaxEvents -> EventSlots],
               sets   : [1 .. MaxSets -> SetSlots],
               hw     : [Sources -> Routes],
               asleep : [Services -> SetHandles \cup {None}]]

Calls == [pc : {"free", "scan", "consume", "register", "recheck"},
          owner : Services, set : SetHandles \cup {None}, due : BOOLEAN, i : Nat]

Interrupts == [pc : {"off", "pend", "load"}, set : {None}] \cup [pc : {"wake"}, set : SetHandles]

TypeOK ==
    /\ reg \in Registries
    /\ running \subseteq Services
    /\ epoch \in Nat
    /\ op \in Calls
    /\ isr \in [Sources -> Interrupts]
    /\ owed \subseteq Handles /\ dead \subseteq Handles

-----------------------------------------------------------------------------
(* Look-ups.                                                               *)

(* The generation check of event_index and set_index.                      *)
LiveEvent(r, e) == r.events[e[1]].gen = e[2] /\ r.events[e[1]].owner # None
LiveSet(r, s) == r.sets[s[1]].gen = s[2] /\ r.sets[s[1]].owner # None

LiveEvents(r) == {<<i, r.events[i].gen>> : i \in {j \in 1 .. MaxEvents : r.events[j].owner # None}}
LiveSets(r) == {<<i, r.sets[i].gen>> : i \in {j \in 1 .. MaxSets : r.sets[j].owner # None}}

EventsOf(r, o) == {e \in LiveEvents(r) : r.events[e[1]].owner = o}
SetsOf(r, o) == {s \in LiveSets(r) : r.sets[s[1]].owner = o}

Members(r, s) == {r.sets[s[1]].members[k] : k \in DOMAIN r.sets[s[1]].members}

(* hardware_event_is_pending, or the flag of the record itself.            *)
Ready(r, e) == \/ LiveEvent(r, e) /\ r.events[e[1]].signaled
               \/ \E h \in Sources : r.hw[h].event = e /\ r.hw[h].pending

(* for_each_waiter: the published sets that contain the event.             *)
Waiters(r, e) == {s \in LiveSets(r) : r.sets[s[1]].waiting /\ e \in Members(r, s)}

IsHardware(r, e) == \E h \in Sources : r.hw[h].event = e

-----------------------------------------------------------------------------
(* Operations on the registry.                                             *)

(* wake_event_set: Scheduler.tla models what the wake does to the tasks.   *)
Wake(r, S) == [r EXCEPT !.asleep = [o \in Services |-> IF @[o] \in S THEN None ELSE @[o]]]

(* retain: what is left of a list of members when some are taken out.      *)
Without(q, E) ==
    LET F[i \in 0 .. Len(q)] == IF i = 0 THEN << >>
                                ELSE IF q[i] \in E THEN F[i - 1] ELSE Append(F[i - 1], q[i])
    IN  F[Len(q)]

Vacant(f) == {i \in DOMAIN f : f[i].owner = None /\ f[i].gen <= MaxGen}
First(I) == CHOOSE i \in I : \A j \in I : i <= j

(* allocate_event_slot takes the first vacant slot.                        *)
NewEvent(r, i, o) ==
    [r EXCEPT !.events[i] = [gen |-> @.gen, owner |-> o, signaled |-> FALSE]]

NewSet(r, i, o) ==
    [r EXCEPT !.sets[i] = [gen |-> @.gen, owner |-> o, members |-> << >>,
                           waiting |-> FALSE, invalidated |-> FALSE]]

(* bind_all_hardware_wait_sets overwrites the set bound to the source.     *)
AddMember(r, s, e) ==
    [r EXCEPT !.sets[s[1]].members = Append(@, e),
              !.hw = [h \in Sources |-> IF @[h].event = e THEN [@[h] EXCEPT !.set = s] ELSE @[h]]]

(* unbind_all_hardware_wait_sets compares and exchanges.                   *)
Unbind(r, E, S) ==
    [r EXCEPT !.hw = [h \in Sources |-> IF @[h].event \in E /\ @[h].set \in S
                                        THEN [@[h] EXCEPT !.set = None] ELSE @[h]]]

RemoveMemberMutant(r, s, e) ==
    [r EXCEPT !.sets[s[1]].members = Without(@, {e})]

RemoveMember(r, s, e) ==
    Unbind([r EXCEPT !.sets[s[1]].members = Without(@, {e})], {e}, {s})

SignalEvent(r, e) == Wake([r EXCEPT !.events[e[1]].signaled = TRUE], Waiters(r, e))

(* A route that names one of the events is cleared.                        *)
ClearRoutes(r, E) ==
    [r EXCEPT !.hw = [h \in Sources |-> IF @[h].event \in E
                                        THEN [event |-> None, set |-> None, pending |-> FALSE]
                                        ELSE @[h]]]

ForgetEventsMutant(r, E) ==
    [r EXCEPT !.events = [i \in 1 .. MaxEvents |->
        IF <<i, @[i].gen>> \in E
        THEN [gen |-> @[i].gen + 1, owner |-> None, signaled |-> FALSE] ELSE @[i]]]

(* The part of destroy_event that a set sees whose member is destroyed.    *)
Invalidated(x, E) ==
    [x EXCEPT !.invalidated = TRUE, !.waiting = FALSE, !.members = Without(x.members, E)]

ForgetEvents(r, E) ==
    [r EXCEPT
        !.events = [i \in 1 .. MaxEvents |->
            IF <<i, @[i].gen>> \in E
            THEN [gen |-> @[i].gen + 1, owner |-> None, signaled |-> FALSE] ELSE @[i]],
        !.sets = [i \in 1 .. MaxSets |->
            IF @[i].owner # None /\ \E k \in DOMAIN @[i].members : @[i].members[k] \in E
            THEN Invalidated(@[i], E) ELSE @[i]]]

DestroyEventsMutant(r, E) == ClearRoutes(ForgetEvents(r, E), E)

(* destroy_event: wake the waiters, vacate the slot, invalidate the sets   *)
(* that contain it, clear the route.                                       *)
DestroyEvents(r, E) ==
    ClearRoutes(ForgetEvents(Wake(r, UNION {Waiters(r, e) : e \in E}), E), E)

(* destroy_set: wake the waiter, unbind the routes, vacate the slot.       *)
DestroySets(r, S) ==
    [Unbind(Wake(r, {s \in S : r.sets[s[1]].waiting}), UNION {Members(r, s) : s \in S}, S)
     EXCEPT !.sets = [i \in 1 .. MaxSets |->
        IF <<i, @[i].gen>> \in S
        THEN [gen |-> @[i].gen + 1, owner |-> None, members |-> << >>,
              waiting |-> FALSE, invalidated |-> FALSE]
        ELSE @[i]]]

(* destroy_service: first its events, then its sets.                       *)
DestroyService(r, o) ==
    LET q == DestroyEvents(r, EventsOf(r, o)) IN DestroySets(q, SetsOf(q, o))

(* initialize_dynamic_ipc: a registry seeded with the service epoch, and   *)
(* one bound event per hardware source.                                    *)
NewRegistry(seed) ==
    [events |-> [i \in 1 .. MaxEvents |->
                    [gen |-> seed, owner |-> IF i \in Sources THEN Driver ELSE None,
                     signaled |-> FALSE]],
     sets   |-> [i \in 1 .. MaxSets |->
                    [gen |-> seed, owner |-> None, members |-> << >>,
                     waiting |-> FALSE, invalidated |-> FALSE]],
     hw     |-> [h \in Sources |-> [event |-> <<h, seed>>, set |-> None, pending |-> FALSE]],
     asleep |-> [o \in Services |-> None]]

-----------------------------------------------------------------------------
Init ==
    /\ epoch = 1
    /\ reg = NewRegistry(1)
    /\ running = Services
    /\ op = [pc |-> "free", owner |-> Driver, set |-> None, due |-> FALSE, i |-> 1]
    /\ isr = [h \in Sources |-> [pc |-> "off", set |-> None]]
    /\ owed = {} /\ dead = {}

(* A service that runs enters the kernel with the runtime lock.            *)
Caller(o) == op.pc = "free" /\ o \in running /\ reg.asleep[o] = None

CreateEvent(o) ==
    /\ Caller(o)
    /\ Vacant(reg.events) # {}
    /\ reg' = NewEvent(reg, First(Vacant(reg.events)), o)
    /\ UNCHANGED <<running, epoch, op, isr, owed, dead>>

CreateSet(o) ==
    /\ Caller(o)
    /\ Vacant(reg.sets) # {}
    /\ reg' = NewSet(reg, First(Vacant(reg.sets)), o)
    /\ UNCHANGED <<running, epoch, op, isr, owed, dead>>

(* Membership is frozen while a waiter is published (Busy), and for good   *)
(* once an event of the set was destroyed (Stale).                         *)
Changeable(o, s) ==
    /\ s \in SetsOf(reg, o)
    /\ ~reg.sets[s[1]].waiting
    /\ ~reg.sets[s[1]].invalidated

Add(o, s, e) ==
    /\ Caller(o)
    /\ e \in EventsOf(reg, o)
    /\ Changeable(o, s)
    /\ e \notin Members(reg, s)
    /\ SharedHardware \/ ~IsHardware(reg, e) \/ \A t \in LiveSets(reg) : e \notin Members(reg, t)
    /\ reg' = AddMember(reg, s, e)
    /\ UNCHANGED <<running, epoch, op, isr, owed, dead>>

Remove(o, s, e) ==
    /\ Caller(o)
    /\ Changeable(o, s)
    /\ e \in Members(reg, s)
    /\ reg' = RemoveMember(reg, s, e)
    /\ UNCHANGED <<running, epoch, op, isr, owed, dead>>

(* A service signals an event of its own; signal_dynamic_event_waiters     *)
(* then wakes the same sets once more.                                     *)
Signal(o, e) ==
    /\ Caller(o)
    /\ e \in EventsOf(reg, o)
    /\ reg' = SignalEvent(reg, e)
    /\ owed' = owed \cup {e}
    /\ UNCHANGED <<running, epoch, op, isr, dead>>

(* signal_irq: a peer's send or receive signals the event of an endpoint.  *)
(* Any event may be an endpoint's, the network event included.             *)
SignalIrq(o, e) ==
    /\ Caller(o)
    /\ e \in LiveEvents(reg)
    /\ reg' = SignalEvent(reg, e)
    /\ owed' = owed \cup {e}
    /\ UNCHANGED <<running, epoch, op, isr, dead>>

(* destroy_event, by the owner or, for the events of an endpoint, by Core  *)
(* on behalf of a peer while the owner may be asleep.                      *)
Destroy(o, e) ==
    /\ Caller(o)
    /\ e \in LiveEvents(reg)
    /\ reg' = DestroyEvents(reg, {e})
    /\ owed' = owed \ {e}
    /\ dead' = dead \cup {e}
    /\ UNCHANGED <<running, epoch, op, isr>>

DestroySet(o, s) ==
    /\ Caller(o)
    /\ s \in SetsOf(reg, o)
    /\ reg' = DestroySets(reg, {s})
    /\ UNCHANGED <<running, epoch, op, isr, owed, dead>>

(* cancel_wait unpublishes the waiter and wakes the set.                   *)
Cancel(o, s) ==
    /\ Caller(o)
    /\ s \in SetsOf(reg, o)
    /\ reg.sets[s[1]].waiting
    /\ reg' = Wake([reg EXCEPT !.sets[s[1]].waiting = FALSE], {s})
    /\ UNCHANGED <<running, epoch, op, isr, owed, dead>>

-----------------------------------------------------------------------------
(* wait_any, then prepare_dynamic_event_wait.                              *)

(* due: the deadline is the present tick.  A deadline in the past is       *)
(* refused before anything changes.                                        *)
Wait(o, s, due) ==
    /\ Caller(o)
    /\ s \in SetsOf(reg, o)
    /\ ~reg.sets[s[1]].invalidated
    /\ op' = [pc |-> "scan", owner |-> o, set |-> s, due |-> due, i |-> 1]
    /\ UNCHANGED <<reg, running, epoch, isr, owed, dead>>

Awaited == reg.sets[op.set[1]].members
Free == [op EXCEPT !.pc = "free", !.set = None, !.i = 1]

(* One member is looked at; the first ready one ends the scan.             *)
WaitScan ==
    /\ op.pc = "scan"
    /\ op.i \in DOMAIN Awaited
    /\ op' = IF Ready(reg, Awaited[op.i]) THEN [op EXCEPT !.pc = "consume"]
                                          ELSE [op EXCEPT !.i = @ + 1]
    /\ UNCHANGED <<reg, running, epoch, isr, owed, dead>>

ConsumedMutant(r, s, e) ==
    [r EXCEPT !.events[e[1]].signaled = FALSE,
              !.sets[s[1]].waiting = FALSE,
              !.hw = [h \in Sources |-> [@[h] EXCEPT !.pending = FALSE]]]

(* The flag and the pending flags of the routes are cleared and the event  *)
(* is reported.                                                            *)
Consumed(r, s, e) ==
    [r EXCEPT !.events[e[1]].signaled = FALSE,
              !.sets[s[1]].waiting = FALSE,
              !.hw = [h \in Sources |-> IF @[h].event = e THEN [@[h] EXCEPT !.pending = FALSE]
                                                          ELSE @[h]]]

WaitConsume ==
    /\ op.pc = "consume"
    /\ reg' = Consumed(reg, op.set, Awaited[op.i])
    /\ owed' = owed \ {Awaited[op.i]}
    /\ op' = Free
    /\ UNCHANGED <<running, epoch, isr, dead>>

WaitTimeout ==
    /\ op.pc = "scan"
    /\ op.i \notin DOMAIN Awaited
    /\ op.due
    /\ reg' = [reg EXCEPT !.sets[op.set[1]].waiting = FALSE]
    /\ op' = Free
    /\ UNCHANGED <<running, epoch, isr, owed, dead>>

WaitPublish ==
    /\ op.pc = "scan"
    /\ op.i \notin DOMAIN Awaited
    /\ ~op.due
    /\ reg' = [reg EXCEPT !.sets[op.set[1]].waiting = TRUE]
    /\ op' = [op EXCEPT !.pc = "register", !.i = 1]
    /\ UNCHANGED <<running, epoch, isr, owed, dead>>

(* The scheduler records the set as the task's wait object.                *)
WaitRegister ==
    /\ op.pc = "register"
    /\ reg' = [reg EXCEPT !.asleep[op.owner] = op.set]
    /\ op' = [op EXCEPT !.pc = "recheck"]
    /\ UNCHANGED <<running, epoch, isr, owed, dead>>

RecheckMutant == reg' = reg /\ op' = [op EXCEPT !.i = @ + 1]

(* has_ready_event after the registration: what arrived since the scan     *)
(* wakes the set.                                                          *)
Recheck ==
    IF Ready(reg, Awaited[op.i]) THEN reg' = Wake(reg, {op.set}) /\ op' = Free
                                 ELSE reg' = reg /\ op' = [op EXCEPT !.i = @ + 1]

WaitRecheck ==
    /\ op.pc = "recheck"
    /\ \/ op.i \in DOMAIN Awaited /\ Recheck
       \/ op.i \notin DOMAIN Awaited /\ op' = Free /\ UNCHANGED reg
    /\ UNCHANGED <<running, epoch, isr, owed, dead>>

(* wake_due: any sleeper may have a deadline.  The set stays published.    *)
TimerWake(o) ==
    /\ reg.asleep[o] # None
    /\ op.pc \notin {"register", "recheck"} \/ op.owner # o
    /\ reg' = [reg EXCEPT !.asleep[o] = None]
    /\ UNCHANGED <<running, epoch, op, isr, owed, dead>>

-----------------------------------------------------------------------------
(* signal_hardware_event, in an interrupt handler without the lock.        *)

IsrEnter(h) ==
    /\ isr[h].pc = "off"
    /\ reg.hw[h].event # None
    /\ isr' = [isr EXCEPT ![h].pc = "pend"]
    /\ UNCHANGED <<reg, running, epoch, op, owed, dead>>

IsrPend(h) ==
    /\ isr[h].pc = "pend"
    /\ reg' = [reg EXCEPT !.hw[h].pending = TRUE]
    /\ isr' = [isr EXCEPT ![h].pc = "load"]
    /\ owed' = owed \cup ({reg.hw[h].event} \ {None})
    /\ UNCHANGED <<running, epoch, op, dead>>

IsrLoadMutant(h) ==
    /\ isr[h].pc = "load"
    /\ isr' = [isr EXCEPT ![h] = [pc |-> "wake", set |-> reg.hw[h].set]]
    /\ UNCHANGED <<reg, running, epoch, op, owed, dead>>

IsrLoad(h) ==
    /\ isr[h].pc = "load"
    /\ isr' = [isr EXCEPT ![h] = IF reg.hw[h].set = None
                                 THEN [pc |-> "off", set |-> None]
                                 ELSE [pc |-> "wake", set |-> reg.hw[h].set]]
    /\ UNCHANGED <<reg, running, epoch, op, owed, dead>>

IsrWake(h) ==
    /\ isr[h].pc = "wake"
    /\ reg' = Wake(reg, {isr[h].set})
    /\ isr' = [isr EXCEPT ![h] = [pc |-> "off", set |-> None]]
    /\ UNCHANGED <<running, epoch, op, owed, dead>>

-----------------------------------------------------------------------------
(* reclaim_service_execution_slot: one service is stopped, its task no     *)
(* longer runs, and everything it owns is destroyed.                       *)
StopService(o) ==
    /\ op.pc = "free"
    /\ o \in running
    /\ running' = running \ {o}
    /\ reg' = DestroyService([reg EXCEPT !.asleep[o] = None], o)
    /\ owed' = owed \ EventsOf(reg, o)
    /\ dead' = dead \cup EventsOf(reg, o)
    /\ UNCHANGED <<epoch, op, isr>>

StartService(o) ==
    /\ op.pc = "free"
    /\ o \notin running
    /\ running' = running \cup {o}
    /\ UNCHANGED <<reg, epoch, op, isr, owed, dead>>

(* A graph restart stops every task, drops the registry and builds one     *)
(* seeded with the next epoch (reclaim_resources, initialize_dynamic_ipc). *)
Restart ==
    /\ op.pc = "free"
    /\ epoch < MaxEpoch
    /\ epoch' = epoch + 1
    /\ reg' = NewRegistry(epoch + 1)
    /\ running' = Services
    /\ owed' = {}
    /\ dead' = dead \cup LiveEvents(reg)
    /\ UNCHANGED <<op, isr>>

-----------------------------------------------------------------------------
EventCall(o) ==
    \/ CreateEvent(o) \/ CreateSet(o)
    \/ \E s \in LiveSets(reg) :
        \/ DestroySet(o, s) \/ Cancel(o, s)
        \/ \E due \in BOOLEAN : Wait(o, s, due)
        \/ \E e \in LiveEvents(reg) : Add(o, s, e)
        \/ \E e \in Members(reg, s) : Remove(o, s, e)
    \/ \E e \in LiveEvents(reg) : Signal(o, e) \/ SignalIrq(o, e) \/ Destroy(o, e)

WaitStep == WaitScan \/ WaitConsume \/ WaitTimeout \/ WaitPublish \/ WaitRegister \/ WaitRecheck

Interrupt(h) == IsrEnter(h) \/ IsrPend(h) \/ IsrLoad(h) \/ IsrWake(h)

Next ==
    \/ \E o \in Services : EventCall(o) \/ TimerWake(o) \/ StopService(o) \/ StartService(o)
    \/ WaitStep
    \/ \E h \in Sources : Interrupt(h)
    \/ Restart

Spec == Init /\ [][Next]_vars

-----------------------------------------------------------------------------
(* Properties.                                                             *)

(* Sets contain only live events of their own owner, and nothing is owned  *)
(* by a stopped service: every way an event can die, its owner's destroy,  *)
(* an endpoint's or a service's teardown, leaves no dangling member.       *)
MembersLive ==
    /\ \A s \in LiveSets(reg) : \A e \in Members(reg, s) :
            e \in EventsOf(reg, reg.sets[s[1]].owner)
    /\ \A o \in Services \ running : EventsOf(reg, o) = {} /\ SetsOf(reg, o) = {}

(* The router never points at a dead event or at a set that does not       *)
(* contain its event, so an interrupt wakes only the set that waits for    *)
(* it: destroy, remove and restart unbind what they take away.             *)
RoutesAreMembers ==
    \A h \in Sources :
        /\ reg.hw[h].event # None => LiveEvent(reg, reg.hw[h].event)
        /\ reg.hw[h].set # None => /\ reg.hw[h].set \in LiveSets(reg)
                                   /\ reg.hw[h].event \in Members(reg, reg.hw[h].set)

(* A service sleeps only on a live set of its own that is published and    *)
(* valid: every later signal or destruction finds it (for_each_waiter      *)
(* skips sets whose waiting flag is down).                                 *)
SleepersPublished ==
    \A o \in Services : reg.asleep[o] # None =>
        /\ o \in running
        /\ reg.asleep[o] \in SetsOf(reg, o)
        /\ reg.sets[reg.asleep[o][1]].waiting /\ ~reg.sets[reg.asleep[o][1]].invalidated

(* The registry, the router and the sleepers agree with one another,       *)
(* whatever was destroyed, stopped or rebuilt in between.                  *)
RegistrySound == MembersLive /\ RoutesAreMembers /\ SleepersPublished

(* An interrupt handler is going to wake the set.                          *)
WakeComing(s) ==
    \E h \in Sources : \/ isr[h].pc = "load" /\ reg.hw[h].set = s
                       \/ isr[h].pc = "wake" /\ isr[h].set = s

(* No service sleeps on a set with a ready member, except while the wake   *)
(* is on its way: the wait rechecks its members after the registration,    *)
(* and the handler stores pending before it loads the bound set.           *)
NoMissedWake ==
    \A o \in Services : \A s \in LiveSets(reg) :
        /\ reg.asleep[o] = s
        /\ \E e \in Members(reg, s) : Ready(reg, e)
        => WakeComing(s) \/ (op.pc = "recheck" /\ op.owner = o)

(* A signal stays readable until a wait reports it: no reset, consume or   *)
(* rebind of another event or of an earlier signal clears it.              *)
NoSignalLost == \A e \in owed : LiveEvent(reg, e) /\ Ready(reg, e)

(* A handle that was destroyed, or that belongs to an earlier epoch, never *)
(* names a live event again.                                               *)
StaleHandlesRejected == \A e \in dead : ~LiveEvent(reg, e)
=============================================================================
