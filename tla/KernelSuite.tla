---------------------------- MODULE KernelSuite -----------------------------
\* Core, one component per behaviour: the initial state picks a component and
\* only that one takes steps, so one run covers each of them on its own small
\* instance.
EXTENDS Integers, Sequences, FiniteSets

CONSTANT None   \* no slot, no task, no handle

VARIABLES part,   \* the component that runs in this behaviour
          ru_state, ru_deadline, ru_waitObject, ru_ctxSaved, ru_user, ru_cpu, ru_frame, ru_cr3, ru_lock,
          ru_ready, ru_held, ru_freed, ru_fresh, ru_want, ru_timed,
          up_state, up_deadline, up_waitObject, up_ctxSaved, up_user, up_cpu, up_frame, up_cr3, up_lock,
          up_ready, up_held, up_freed, up_fresh, up_want, up_timed,
          ev_reg, ev_running, ev_epoch, ev_op, ev_isr, ev_owed, ev_dead,
          ip_reg, ip_running, ip_epoch, ip_op, ip_isr, ip_owed, ip_dead, ip_ends, ip_caps, ip_committed,
          ip_free, ip_settled, ip_stalled,
          sr_registry, sr_handles, sr_task, sr_process, sr_supervisor, sr_recovery, sr_epoch,
          sr_pendingRestart, sr_pendingDynamicStart, sr_pendingDynamicRestart, sr_orphans,
          sr_phase, sr_cursor, sr_calls, sr_faults,
          pr_manager, pr_slots, pr_pending, pr_loading, pr_exchange, pr_request, pr_response, pr_inbox,
          pr_lastId, pr_accepted, pr_leaked, pr_calls, pr_restarts,
          hs_service_epoch, hs_operations, hs_command, hs_response, hs_outcomes

\* The task scheduler with two CPUs and two slots, each slot used twice.
Reuse == INSTANCE Scheduler WITH
    state <- ru_state, deadline <- ru_deadline, waitObject <- ru_waitObject,
    ctxSaved <- ru_ctxSaved, user <- ru_user, cpu <- ru_cpu, frame <- ru_frame,
    cr3 <- ru_cr3, lock <- ru_lock, ready <- ru_ready, held <- ru_held, freed <- ru_freed,
    fresh <- ru_fresh, want <- ru_want, timed <- ru_timed, NumSlots <- 2, Cpus <- {1, 2},
    Bsp <- 1, Objects <- {}, MaxDelay <- 1, MaxGeneration <- 2, GenerationMask <- 1000,
    QemuProof <- FALSE

\* The task scheduler with one CPU and three slots: what SMP interleavings
\* break holds on a uniprocessor.
Up == INSTANCE Scheduler WITH
    state <- up_state, deadline <- up_deadline, waitObject <- up_waitObject,
    ctxSaved <- up_ctxSaved, user <- up_user, cpu <- up_cpu, frame <- up_frame,
    cr3 <- up_cr3, lock <- up_lock, ready <- up_ready, held <- up_held, freed <- up_freed,
    fresh <- up_fresh, want <- up_want, timed <- up_timed, NumSlots <- 3, Cpus <- {1},
    Bsp <- 1, Objects <- {"o"}, MaxDelay <- 1, MaxGeneration <- 1, GenerationMask <- 1000,
    QemuProof <- FALSE

\* The event registry: two services, a hardware event and one more, one set, a
\* slot reused twice and one graph restart.
Events == INSTANCE RuntimeEvents WITH
    reg <- ev_reg, running <- ev_running, epoch <- ev_epoch, op <- ev_op, isr <- ev_isr,
    owed <- ev_owed, dead <- ev_dead, Services <- {"a", "b"}, Driver <- "a",
    NumSources <- 1, MaxEvents <- 2, MaxSets <- 1, MaxGen <- 2, MaxEpoch <- 2,
    SharedHardware <- FALSE

\* The IPC registry: two endpoints between two services, created, destroyed and
\* reused, and services that stop and start again.
Ipc == INSTANCE RuntimeIpc WITH
    reg <- ip_reg, running <- ip_running, epoch <- ip_epoch, op <- ip_op, isr <- ip_isr,
    owed <- ip_owed, dead <- ip_dead, ends <- ip_ends, caps <- ip_caps,
    committed <- ip_committed, free <- ip_free, settled <- ip_settled,
    stalled <- ip_stalled, Services <- {"a", "b"}, Driver <- "a", NumSources <- 0,
    MaxEvents <- 4, MaxSets <- 0, MaxGen <- 2, MaxEpoch <- 1, SharedHardware <- FALSE,
    MaxEnds <- 2, MaxCaps <- 4, Sizes <- {1, 2}, Frames <- 3, MaxSent <- 0

\* Three boot services, of which 2 (Flow) calls the manager and 3 is a package
\* image; both need 1 (Storage). One package service.
Services == INSTANCE ServiceRuntime WITH
    registry <- sr_registry, handles <- sr_handles, task <- sr_task, process <- sr_process,
    supervisor <- sr_supervisor, recovery <- sr_recovery, epoch <- sr_epoch,
    pendingRestart <- sr_pendingRestart, pendingDynamicStart <- sr_pendingDynamicStart,
    pendingDynamicRestart <- sr_pendingDynamicRestart, orphans <- sr_orphans,
    phase <- sr_phase, cursor <- sr_cursor, calls <- sr_calls, faults <- sr_faults,
    Builtins <- 3, Dynamics <- 1, Caller <- 2, DependsOn <- <<{}, {1}, {1}>>,
    PackageBacked <- {3}, MAX_RESTARTS <- 3, MaxCalls <- 3, MaxFaults <- 2

\* Two program slots and two programs, two package exchanges for a load, one
\* graph restart.
Programs == INSTANCE Programs WITH
    manager <- pr_manager, slots <- pr_slots, pending <- pr_pending, loading <- pr_loading,
    exchange <- pr_exchange, request <- pr_request, response <- pr_response,
    inbox <- pr_inbox, lastId <- pr_lastId, accepted <- pr_accepted, leaked <- pr_leaked,
    calls <- pr_calls, restarts <- pr_restarts, Names <- {"a", "b"}, ProgramSlots <- 1..2,
    Exchanges <- 2, MaxCalls <- 3, MaxRestarts <- 1, OverlappingStarts <- FALSE

\* Two operation slots, one restart, every slot reused once.
Health == INSTANCE HealthService WITH
    service_epoch <- hs_service_epoch, operations <- hs_operations, command <- hs_command,
    response <- hs_response, outcomes <- hs_outcomes, MAX_OPERATIONS <- 2,
    Requests <- {1, 2}, MaxEpoch <- 2, MaxGeneration <- 1

ReuseVars == <<ru_state, ru_deadline, ru_waitObject, ru_ctxSaved, ru_user, ru_cpu, ru_frame, ru_cr3, ru_lock,
    ru_ready, ru_held, ru_freed, ru_fresh, ru_want, ru_timed>>
UpVars == <<up_state, up_deadline, up_waitObject, up_ctxSaved, up_user, up_cpu, up_frame, up_cr3, up_lock,
    up_ready, up_held, up_freed, up_fresh, up_want, up_timed>>
EventsVars == <<ev_reg, ev_running, ev_epoch, ev_op, ev_isr, ev_owed, ev_dead>>
IpcVars == <<ip_reg, ip_running, ip_epoch, ip_op, ip_isr, ip_owed, ip_dead, ip_ends, ip_caps, ip_committed,
    ip_free, ip_settled, ip_stalled>>
ServicesVars == <<sr_registry, sr_handles, sr_task, sr_process, sr_supervisor, sr_recovery, sr_epoch,
    sr_pendingRestart, sr_pendingDynamicStart, sr_pendingDynamicRestart, sr_orphans, sr_phase,
    sr_cursor, sr_calls, sr_faults>>
ProgramsVars == <<pr_manager, pr_slots, pr_pending, pr_loading, pr_exchange, pr_request, pr_response, pr_inbox,
    pr_lastId, pr_accepted, pr_leaked, pr_calls, pr_restarts>>
HealthVars == <<hs_service_epoch, hs_operations, hs_command, hs_response, hs_outcomes>>
vars == <<part, ReuseVars, UpVars, EventsVars, IpcVars, ServicesVars, ProgramsVars, HealthVars>>

\* A component that does not run in the behaviour has no state.
ReuseAbsent == ru_state = 0 /\ ru_deadline = 0 /\ ru_waitObject = 0 /\ ru_ctxSaved = 0
               /\ ru_user = 0 /\ ru_cpu = 0 /\ ru_frame = 0 /\ ru_cr3 = 0
               /\ ru_lock = 0 /\ ru_ready = 0 /\ ru_held = 0 /\ ru_freed = 0
               /\ ru_fresh = 0 /\ ru_want = 0 /\ ru_timed = 0
UpAbsent == up_state = 0 /\ up_deadline = 0 /\ up_waitObject = 0 /\ up_ctxSaved = 0 /\ up_user = 0
            /\ up_cpu = 0 /\ up_frame = 0 /\ up_cr3 = 0 /\ up_lock = 0 /\ up_ready = 0
            /\ up_held = 0 /\ up_freed = 0 /\ up_fresh = 0 /\ up_want = 0
            /\ up_timed = 0
EventsAbsent == ev_reg = 0 /\ ev_running = 0 /\ ev_epoch = 0 /\ ev_op = 0 /\ ev_isr = 0
                /\ ev_owed = 0 /\ ev_dead = 0
IpcAbsent == ip_reg = 0 /\ ip_running = 0 /\ ip_epoch = 0 /\ ip_op = 0 /\ ip_isr = 0 /\ ip_owed = 0
             /\ ip_dead = 0 /\ ip_ends = 0 /\ ip_caps = 0 /\ ip_committed = 0
             /\ ip_free = 0 /\ ip_settled = 0 /\ ip_stalled = 0
ProgramsAbsent == pr_manager = 0 /\ pr_slots = 0 /\ pr_pending = 0 /\ pr_loading = 0
                  /\ pr_exchange = 0 /\ pr_request = 0 /\ pr_response = 0
                  /\ pr_inbox = 0 /\ pr_lastId = 0 /\ pr_accepted = 0
                  /\ pr_leaked = 0 /\ pr_calls = 0 /\ pr_restarts = 0
HealthAbsent == hs_service_epoch = 0 /\ hs_operations = 0 /\ hs_command = 0 /\ hs_response = 0
                /\ hs_outcomes = 0

Init ==
  /\ part \in {"Reuse", "Up", "Events", "Ipc", "Services", "Programs", "Health"}
  /\ IF part = "Reuse" THEN Reuse!Init ELSE ReuseAbsent
  /\ IF part = "Up" THEN Up!Init ELSE UpAbsent
  /\ IF part = "Events" THEN Events!Init ELSE EventsAbsent
  /\ IF part = "Ipc" THEN Ipc!IpcInit ELSE IpcAbsent
  /\ Services!Init
  /\ IF part = "Programs" THEN Programs!Init ELSE ProgramsAbsent
  /\ IF part = "Health" THEN Health!Init ELSE HealthAbsent

ReuseNext == /\ part = "Reuse" /\ Reuse!Next
             /\ UNCHANGED <<part, UpVars, EventsVars, IpcVars, ServicesVars, ProgramsVars, HealthVars>>
UpNext == /\ part = "Up" /\ Up!Next
          /\ UNCHANGED <<part, ReuseVars, EventsVars, IpcVars, ServicesVars, ProgramsVars, HealthVars>>
EventsNext == /\ part = "Events" /\ Events!Next
              /\ UNCHANGED <<part, ReuseVars, UpVars, IpcVars, ServicesVars, ProgramsVars, HealthVars>>
IpcNext == /\ part = "Ipc" /\ Ipc!IpcNext
           /\ UNCHANGED <<part, ReuseVars, UpVars, EventsVars, ServicesVars, ProgramsVars, HealthVars>>
ServicesNext == /\ part = "Services" /\ Services!Next
                /\ UNCHANGED <<part, ReuseVars, UpVars, EventsVars, IpcVars, ProgramsVars, HealthVars>>
ProgramsNext == /\ part = "Programs" /\ Programs!Next
                /\ UNCHANGED <<part, ReuseVars, UpVars, EventsVars, IpcVars, ServicesVars, HealthVars>>
HealthNext == /\ part = "Health" /\ Health!Next
              /\ UNCHANGED <<part, ReuseVars, UpVars, EventsVars, IpcVars, ServicesVars, ProgramsVars>>

Next ==
  \/ ReuseNext
  \/ UpNext
  \/ EventsNext
  \/ IpcNext
  \/ ServicesNext
  \/ ProgramsNext
  \/ HealthNext

Spec ==
  /\ Init /\ [][Next]_vars

\* A task registered for a set is still registered when the set is signaled.
NoLostEventWake == part = "Up" => Up!NoLostEventWake

\* The committed budget is what live endpoints hold, and with the free frames
\* it makes up the pool.
FramesConserved == part = "Ipc" => Ipc!FramesConserved

\* Registry, supervisor, tasks and the pending work of supervise() tell one
\* story.
LifecycleAgrees == Services!LifecycleAgrees



\* A health operation has one outcome, in the epoch that accepted it.
OneOutcome == part = "Health" => Health!OneOutcome

\* A task runs on one CPU at a time and from the context it was last saved
\* with, also in a slot that another task had before it. With one CPU nothing
\* stops the machine, and no CPU has the root of a reclaimed task loaded: what
\* a stop racing another CPU can break.
TasksSound ==
  /\ part = "Reuse" => Reuse!ExclusiveExecution /\ Reuse!ResumesLastContext
  /\ part = "Up" => Up!NeverFatal /\ Up!NoReclaimedRoot

\* Across destroyed and reused slots and a graph restart nobody sleeps through
\* a ready event, no signal is lost, and sets, router and sleepers name only
\* what is live.
EventsSound ==
  /\ part = "Events" => Events!RegistrySound /\ Events!NoMissedWake /\ Events!NoSignalLost
=============================================================================
