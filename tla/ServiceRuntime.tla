--------------------------- MODULE ServiceRuntime ---------------------------
\* The lifecycle of Core's service graph: the runtime service registry
\* (runtime_services.rs), the manager calls that admit Start, Stop, Restart and
\* Register (service_runtime.rs), the live supervisor (supervisor.rs) and the
\* restart coordinator that replaces the whole graph.
\*
\* A service is named by its slot: 1..Builtins are the services of the boot
\* image, Builtins+1..Builtins+Dynamics the package services registered at run
\* time. A handle is a slot and a generation. The runtime lock is held by one
\* manager call or by one supervise() at a time: `phase` says where supervise()
\* is, and manager calls run only where it has released the lock. Time is left
\* out: any running service may be found silent by a poll.
EXTENDS Integers, FiniteSets, Sequences, FiniteSetsExt

CONSTANTS Builtins,      \* number of boot services
          Dynamics,      \* number of slots for package services
          Caller,        \* the boot service that holds the manager rights (Flow)
          DependsOn,     \* [1..Builtins -> SUBSET (1..Builtins)]
          PackageBacked, \* boot services whose image is a filesystem package
          MAX_RESTARTS,
          MaxCalls,      \* bound on manager calls
          MaxFaults      \* bound on faults, exits and silences

VARIABLES registry,    \* slot -> [gen, state]: the service registry
          handles,     \* slot -> generation in service_handles (0: not present)
          task,        \* slot -> scheduler state of the service's task
          process,     \* slot -> state of the service's process
          supervisor,  \* slot -> [gen, state, restarts] or NoRecord
          recovery,    \* LiveSupervisor::recovery
          epoch,       \* service_epoch
          pendingRestart, pendingDynamicStart, pendingDynamicRestart,
          orphans,     \* running processes that no slot owns
          phase,       \* where supervise() stands
          cursor,      \* its loop index, or the slot it is starting
          calls, faults

vars == <<registry, handles, task, process, supervisor, recovery, epoch,
          pendingRestart, pendingDynamicStart, pendingDynamicRestart,
          orphans, phase, cursor, calls, faults>>

Boot == 1..Builtins
Slots == 1..(Builtins + Dynamics)
NoRecord == [gen |-> 0, state |-> "None", restarts |-> 0]
NoHandle == <<0, 0>>
Handle(s) == <<s, registry[s].gen>>

States == {"Vacant", "Stopped", "Starting", "Running", "Stopping", "Failed"}
Phases == {"idle", "exchange", "reap", "decide", "quiesce", "halted"}

TypeOK ==
  /\ registry \in [Slots -> [gen : Nat, state : States]]
  /\ handles \in [Slots -> Nat]
  /\ task \in [Slots -> {"none", "live", "stopping", "completed"}]
  /\ process \in [Slots -> {"none", "Running", "Exited", "Faulted"}]
  /\ supervisor \in [Slots -> [gen : Nat, restarts : 0..MAX_RESTARTS,
                               state : {"None", "Running", "Stopped", "Unhealthy"}]]
  /\ recovery \in BOOLEAN
  /\ pendingRestart \subseteq Boot \X Nat
  /\ pendingDynamicStart \in {NoHandle} \cup (Slots \X Nat)
  /\ pendingDynamicRestart \in {NoHandle} \cup (Slots \X Nat)
  /\ phase \in Phases /\ cursor \in 0..(Builtins + Dynamics + 1)

-----------------------------------------------------------------------------
\* The registry.

Current(h) == /\ h[1] \in Slots /\ registry[h[1]].gen = h[2]
              /\ registry[h[1]].state # "Vacant"

SetState(reg, s, st) == [reg EXCEPT ![s].state = st]

Dependents(s) == {d \in Boot : s \in DependsOn[d]}

\* lifecycle_status: what the manager answers before anything changes.
LifecycleStatus(op, h) ==
  IF ~Current(h) THEN "Stale"
  ELSE LET st == registry[h[1]].state
           want == IF op = "Start" THEN "Stopped" ELSE "Running"
       IN IF st # want
          THEN IF st \in {"Starting", "Stopping"} THEN "Busy" ELSE "InvalidState"
          ELSE IF \/ /\ op = "Start" /\ h[1] \in Boot
                     /\ \E d \in DependsOn[h[1]] : registry[d].state # "Running"
                  \/ /\ op = "Stop"
                     /\ \E d \in Dependents(h[1]) : registry[d].state # "Stopped"
               THEN "Dependency" ELSE "Ok"

\* restart_closure: the service and the running services that need it.
RECURSIVE Closure(_)
Closure(S) ==
  LET more == {d \in Boot \ S : registry[d].state = "Running" /\ DependsOn[d] \cap S # {}}
  IN IF more = {} THEN S ELSE Closure(S \cup more)

\* The member that is stopped first: one that no other member needs.
StoppedFirst(S) == {r \in S : Dependents(r) \cap S = {}}

\* stop(): refused while a running service needs this one.
StopEntryMutant(reg, h) == reg
StopEntry(reg, h) ==
  IF /\ reg[h[1]].gen = h[2]
     /\ ~\E d \in Dependents(h[1]) : reg[d].state = "Running"
  THEN SetState(reg, h[1], "Stopped") ELSE reg

-----------------------------------------------------------------------------
\* The supervisor's records.

Ensure(rec, g) == CASE rec.state = "None" \/ rec.gen = g -> rec
                    [] rec.state = "Stopped" /\ rec.gen # g -> NoRecord
                    [] OTHER -> [rec EXCEPT !.state = "Refused"]

RegisterMutant(rec, g) == [gen |-> g, restarts |-> Ensure(rec, g).restarts,
                           state |-> IF rec.state = "Stopped" THEN "Stopped" ELSE "Running"]
Register(rec, g) == [gen |-> g, state |-> "Running", restarts |-> Ensure(rec, g).restarts]

Unregister(sup, h) == IF sup[h[1]].gen = h[2] THEN [sup EXCEPT ![h[1]] = NoRecord] ELSE sup

-----------------------------------------------------------------------------
Init ==
  /\ registry = [s \in Slots |-> IF s \in Boot THEN [gen |-> 1, state |-> "Running"]
                                 ELSE [gen |-> 1, state |-> "Vacant"]]
  /\ handles = [s \in Slots |-> IF s \in Boot THEN 1 ELSE 0]
  /\ task = [s \in Slots |-> IF s \in Boot THEN "live" ELSE "none"]
  /\ process = [s \in Slots |-> IF s \in Boot THEN "Running" ELSE "none"]
  /\ supervisor = [s \in Slots |-> IF s \in Boot THEN Register(NoRecord, 1) ELSE NoRecord]
  /\ recovery = FALSE /\ epoch = 1
  /\ pendingRestart = {} /\ pendingDynamicStart = NoHandle /\ pendingDynamicRestart = NoHandle
  /\ orphans = 0 /\ phase = "idle" /\ cursor = 0 /\ calls = 0 /\ faults = 0

pendings == <<pendingRestart, pendingDynamicStart, pendingDynamicRestart>>

-----------------------------------------------------------------------------
\* Manager calls. They need the lock, a running caller, and no restart.

CallAllowed ==
  /\ phase \in {"idle", "exchange"} /\ calls < MaxCalls
  /\ registry[Caller].state = "Running" /\ process[Caller] = "Running"
  /\ task[Caller] \in {"live", "stopping"}
  /\ calls' = calls + 1

\* request_stop on the scheduler: a running task stops at its next switch, a
\* waiting one at once; one already stopping or completed is left as it is.
StopRequested(t, before, after) ==
  IF before[t] = "live" THEN after[t] \in {"stopping", "completed"} ELSE after[t] = before[t]

\* ManagerOperation::Register: a package service in the first vacant slot.
ManagerRegister ==
  /\ CallAllowed
  /\ \E s \in Slots \ Boot :
       /\ registry[s].state = "Vacant"
       /\ \A r \in Slots : r < s => registry[r].state # "Vacant"
       /\ registry' = [registry EXCEPT ![s] = [gen |-> epoch, state |-> "Stopped"]]
  /\ UNCHANGED <<handles, task, process, supervisor, recovery, epoch, pendings, phase, cursor, faults, orphans>>

\* Start of a package service: admitted for the supervisor to carry out.
ManagerStartDynamic(s) ==
  /\ s \notin Boot /\ CallAllowed /\ LifecycleStatus("Start", Handle(s)) = "Ok"
  /\ LET slotReady == \A r \in Slots : r < s => handles[r] # 0
         busy == pendingDynamicStart # NoHandle \/ pendingDynamicRestart # NoHandle
     IN
     /\ handles' = IF slotReady THEN [handles EXCEPT ![s] = registry[s].gen] ELSE handles
     /\ IF busy \/ ~slotReady
        THEN UNCHANGED <<registry, pendingDynamicStart>>
        ELSE /\ registry' = SetState(registry, s, "Starting")
             /\ pendingDynamicStart' = Handle(s)
  /\ UNCHANGED <<task, process, supervisor, recovery, epoch, pendingRestart,
                 pendingDynamicRestart, phase, cursor, faults, orphans>>

\* Start of a stopped boot service: its image is reset and its task spawned, or,
\* for a package image, a graph restart is asked for.
ManagerStart(s) ==
  /\ s \in Boot /\ CallAllowed /\ LifecycleStatus("Start", Handle(s)) = "Ok"
  /\ IF s \in PackageBacked
     THEN /\ IF pendingRestart # {}
             THEN UNCHANGED <<registry, pendingRestart>>
             ELSE /\ registry' = SetState(registry, s, "Starting")
                  /\ pendingRestart' = {Handle(s)}
          /\ UNCHANGED <<task, supervisor>>
     ELSE \/ /\ Ensure(supervisor[s], registry[s].gen).state # "Refused" /\ task[s] = "none"
             /\ task' = [task EXCEPT ![s] = "live"]
             /\ supervisor' = [supervisor EXCEPT ![s] = Register(@, registry[s].gen)]
             /\ registry' = SetState(registry, s, "Running")
             /\ UNCHANGED pendingRestart
          \/ /\ registry' = SetState(registry, s, "Failed")
             /\ UNCHANGED <<task, supervisor, pendingRestart>>
  /\ UNCHANGED <<handles, process, recovery, epoch, pendingDynamicStart,
                 pendingDynamicRestart, phase, cursor, faults, orphans>>

\* Stop: the task is asked to stop; without one the request is refused again.
ManagerStop(s) ==
  /\ CallAllowed /\ LifecycleStatus("Stop", Handle(s)) = "Ok"
  /\ IF task[s] = "none"
     THEN /\ registry' = SetState(registry, s, IF s \in Boot THEN "Failed" ELSE "Running")
          /\ UNCHANGED task
     ELSE /\ registry' = SetState(registry, s, "Stopping")
          /\ task' \in [Slots -> {"none", "live", "stopping", "completed"}]
          /\ \A r \in Slots \ {s} : task'[r] = task[r]
          /\ StopRequested(s, task, task')
  /\ UNCHANGED <<handles, process, supervisor, recovery, epoch, pendings, phase, cursor, faults, orphans>>

\* Restart of a package service: stopped now, started again once its task is gone.
ManagerRestartDynamic(s) ==
  /\ s \notin Boot /\ CallAllowed /\ LifecycleStatus("Restart", Handle(s)) = "Ok"
  /\ IF \/ pendingDynamicStart # NoHandle \/ pendingDynamicRestart # NoHandle \/ task[s] = "none"
     THEN UNCHANGED <<registry, task, pendingDynamicRestart>>
     ELSE /\ registry' = SetState(registry, s, "Stopping")
          /\ \E t \in {"stopping", "completed"} :
               task' = [task EXCEPT ![s] = IF @ = "live" THEN t ELSE @]
          /\ pendingDynamicRestart' = Handle(s)
  /\ UNCHANGED <<handles, process, supervisor, recovery, epoch, pendingRestart,
                 pendingDynamicStart, phase, cursor, faults, orphans>>

\* Restart of a boot service: the closure is marked Stopping; when another restart
\* is pending or a member has no task, only the first member is put back.
ManagerRestart(s) ==
  /\ s \in Boot /\ CallAllowed /\ LifecycleStatus("Restart", Handle(s)) = "Ok"
  /\ LET closure == Closure({s})
         marked == [r \in Slots |-> IF r \in closure THEN [registry[r] EXCEPT !.state = "Stopping"]
                                    ELSE registry[r]]
     IN \E first \in StoppedFirst(closure) :
          IF pendingRestart # {} \/ \E r \in closure : task[r] = "none"
          THEN /\ registry' = SetState(marked, first, "Running")
               /\ UNCHANGED <<task, pendingRestart>>
          ELSE /\ registry' = marked
               /\ \E stopped \in SUBSET {r \in closure : task[r] = "live"} :
                    task' = [r \in Slots |-> IF r \notin closure \/ task[r] # "live" THEN task[r]
                                             ELSE IF r \in stopped THEN "completed" ELSE "stopping"]
               /\ pendingRestart' = {Handle(r) : r \in closure}
  /\ UNCHANGED <<handles, process, supervisor, recovery, epoch, pendingDynamicStart,
                 pendingDynamicRestart, phase, cursor, faults, orphans>>

-----------------------------------------------------------------------------
\* The tasks themselves.

\* fault_process, exit_process: the process ends while its task still runs.
ProcessEnds(s) ==
  /\ faults < MaxFaults /\ phase # "halted" /\ phase \in {"idle", "exchange", "quiesce"}
  /\ task[s] \in {"live", "stopping"} /\ process[s] = "Running"
  /\ \E p \in {"Exited", "Faulted"} : process' = [process EXCEPT ![s] = p]
  /\ faults' = faults + 1
  /\ UNCHANGED <<registry, handles, task, supervisor, recovery, epoch, pendings, phase, cursor, calls, orphans>>

\* The scheduler completes a task that is stopping or whose process has ended.
TaskCompletes(s) ==
  /\ phase # "halted"
  /\ \/ task[s] = "stopping"
     \/ task[s] = "live" /\ process[s] \in {"Exited", "Faulted"}
  /\ task' = [task EXCEPT ![s] = "completed"]
  /\ UNCHANGED <<registry, handles, process, supervisor, recovery, epoch, pendings, phase, cursor,
                 calls, faults, orphans>>

-----------------------------------------------------------------------------
\* supervise().

\* A start that cannot be carried out leaves the record failed.
StartFailedMutant(s) == registry
StartFailed(s) == SetState(registry, s, "Failed")

\* A pending package start is taken first; the exchange with Storage releases the lock.
BeginDynamicStart ==
  /\ phase = "idle" /\ pendingDynamicStart # NoHandle
  /\ pendingDynamicStart' = NoHandle
  /\ LET h == pendingDynamicStart IN
     IF Current(h) /\ task[h[1]] = "none"
     THEN phase' = "exchange" /\ cursor' = h[1] /\ UNCHANGED registry
     ELSE /\ registry' = IF Current(h) THEN StartFailed(h[1]) ELSE registry
          /\ UNCHANGED <<phase, cursor>>
  /\ UNCHANGED <<handles, task, process, supervisor, recovery, epoch, pendingRestart,
                 pendingDynamicRestart, calls, faults, orphans>>

\* The image is installed and its task published, or the start has failed: before
\* its process exists, or after, when the reclaim of the running process is refused.
FinishDynamicStart ==
  /\ phase = "exchange"
  /\ \/ /\ Ensure(supervisor[cursor], handles[cursor]).state # "Refused"
        /\ task' = [task EXCEPT ![cursor] = "live"]
        /\ process' = [process EXCEPT ![cursor] = "Running"]
        /\ supervisor' = [supervisor EXCEPT ![cursor] = Register(@, handles[cursor])]
        /\ registry' = SetState(registry, cursor, "Running")
        /\ UNCHANGED orphans
     \/ /\ registry' = StartFailed(cursor)
        /\ orphans' \in {orphans, orphans + 1}
        /\ UNCHANGED <<task, process, supervisor>>
  /\ phase' = "idle" /\ cursor' = 0
  /\ UNCHANGED <<handles, recovery, epoch, pendings, calls, faults>>

BeginReap ==
  /\ phase = "idle" /\ pendingDynamicStart = NoHandle
  /\ phase' = "reap" /\ cursor' = 1
  /\ UNCHANGED <<registry, handles, task, process, supervisor, recovery, epoch, pendings, calls, faults, orphans>>

\* What the end of a task means for the registry: a failure, or the stop it was asked for.
AfterExitMutant(h, failed) == IF ~Current(h) \/ failed THEN registry ELSE StopEntry(registry, h)
AfterExit(h, failed) == IF ~Current(h) THEN registry
                        ELSE IF failed THEN SetState(registry, h[1], "Failed")
                        ELSE StopEntry(registry, h)

\* One turn of the loop over the service slots.
ReapService ==
  /\ phase = "reap" /\ cursor <= Builtins + Dynamics
  /\ LET s == cursor  h == <<s, handles[s]>>  failed == process[s] # "Running" IN
     IF task[s] # "completed"
     THEN /\ cursor' = cursor + 1
          /\ UNCHANGED <<registry, handles, task, process, supervisor, phase, pendings>>
     ELSE /\ task' = [task EXCEPT ![s] = "none"]
          /\ supervisor' = Unregister(supervisor, h)
          /\ process' = IF s \in Boot THEN process ELSE [process EXCEPT ![s] = "none"]
          /\ IF s \notin Boot /\ pendingDynamicRestart = h
             THEN LET g == registry[s].gen + 1 IN
                  /\ pendingDynamicRestart' = NoHandle
                  /\ registry' = [registry EXCEPT ![s] = [gen |-> g, state |-> "Starting"]]
                  /\ handles' = [handles EXCEPT ![s] = g]
                  /\ pendingDynamicStart' = <<s, g>>
                  /\ phase' = "idle" /\ cursor' = 0 /\ UNCHANGED pendingRestart
             ELSE /\ registry' = AfterExit(h, failed)
                  /\ cursor' = cursor + 1
                  /\ UNCHANGED <<handles, phase, pendings>>
  /\ UNCHANGED <<recovery, epoch, calls, faults, orphans>>

EndReap ==
  /\ phase = "reap" /\ cursor > Builtins + Dynamics
  /\ phase' = "decide" /\ cursor' = 0
  /\ UNCHANGED <<registry, handles, task, process, supervisor, recovery, epoch, pendings, calls, faults, orphans>>

\* RestartCoordinator::run up to the wait for the tasks: the supervisor admits the
\* restart, the epoch moves on and every task is asked to stop.
BeginRestart ==
  IF recovery \/ \E s \in Slots : supervisor[s].restarts >= MAX_RESTARTS
  THEN /\ recovery' = TRUE /\ phase' = "halted"
       /\ UNCHANGED <<task, supervisor, epoch>>
  ELSE /\ supervisor' = [s \in Slots |-> IF supervisor[s].state = "None" THEN NoRecord
                           ELSE [supervisor[s] EXCEPT !.state = "Stopped", !.restarts = @ + 1]]
       /\ epoch' = epoch + 1 /\ phase' = "quiesce"
       /\ \E stopped \in SUBSET {s \in Slots : task[s] = "live"} :
            task' = [s \in Slots |-> IF task[s] # "live" THEN task[s]
                                     ELSE IF s \in stopped THEN "completed" ELSE "stopping"]
       /\ UNCHANGED recovery

\* A restart the manager asked for waits until the tasks of its closure are gone.
DecidePendingRestart ==
  /\ phase = "decide" /\ pendingRestart # {}
  /\ CASE \E h \in pendingRestart : ~Current(h) ->
            /\ phase' = "halted" /\ pendingRestart' = {}
            /\ UNCHANGED <<task, supervisor, recovery, epoch>>
       [] /\ \A h \in pendingRestart : Current(h)
          /\ \E h \in pendingRestart : task[h[1]] # "none" ->
            /\ phase' = "idle" /\ UNCHANGED <<pendingRestart, task, supervisor, recovery, epoch>>
       [] OTHER -> pendingRestart' = {} /\ BeginRestart
  /\ UNCHANGED <<registry, handles, process, pendingDynamicStart, pendingDynamicRestart, cursor,
                 calls, faults, orphans>>

FailedBootMutant == {}
FailedBoot == {s \in Boot : registry[s].state = "Failed"}

\* A boot service that failed brings the graph down.
DecideFailedMutant ==
  /\ phase = "decide" /\ FailedBoot # {} /\ BeginRestart
  /\ UNCHANGED <<registry, handles, process, pendings, cursor, calls, faults, orphans>>
DecideFailed ==
  /\ phase = "decide" /\ pendingRestart = {} /\ FailedBoot # {} /\ BeginRestart
  /\ UNCHANGED <<registry, handles, process, pendings, cursor, calls, faults, orphans>>

\* poll: the first running record whose process has ended, or that is silent.
Watched == {s \in Slots : supervisor[s].state = "Running"}
Ended == {s \in Watched : process[s] \notin {"Running", "none"}}

DecidePoll ==
  /\ phase = "decide" /\ pendingRestart = {} /\ FailedBoot = {}
  /\ \/ /\ Ended = {} /\ phase' = "idle"
        /\ UNCHANGED <<registry, task, supervisor, recovery, epoch, faults, orphans>>
     \/ \E s \in Watched :
          /\ \A e \in Ended : s <= e
          /\ s \notin Ended => faults < MaxFaults
          /\ faults' = IF s \in Ended THEN faults ELSE faults + 1
          /\ IF s \in Boot
             THEN BeginRestart /\ UNCHANGED registry
             ELSE /\ supervisor' = [supervisor EXCEPT ![s].state = "Unhealthy"]
                  /\ registry' = IF Current(<<s, supervisor[s].gen>>)
                                 THEN SetState(registry, s, "Failed") ELSE registry
                  /\ phase' = "idle" /\ UNCHANGED <<task, recovery, epoch>>
  /\ UNCHANGED <<handles, process, pendings, cursor, calls, orphans>>

Quiesced == \A s \in Slots : task[s] \in {"none", "completed"}

\* The rest of run(): every task is gone, the graph is torn down and rebuilt from the
\* boot images under the new epoch, and its tasks are published.
RebuildGraph ==
  /\ phase = "quiesce" /\ Quiesced
  /\ registry' = [s \in Slots |-> IF s \in Boot THEN [gen |-> epoch, state |-> "Running"]
                                  ELSE [gen |-> epoch, state |-> "Vacant"]]
  /\ handles' = [s \in Slots |-> IF s \in Boot THEN epoch ELSE 0]
  /\ task' = [s \in Slots |-> IF s \in Boot THEN "live" ELSE "none"]
  /\ process' = [s \in Slots |-> IF s \in Boot THEN "Running" ELSE "none"]
  /\ supervisor' = [s \in Slots |-> IF s \in Boot THEN Register(supervisor[s], epoch) ELSE NoRecord]
  /\ phase' = "idle"
  /\ UNCHANGED <<recovery, epoch, pendings, cursor, calls, faults, orphans>>

Supervise == \/ BeginDynamicStart \/ FinishDynamicStart \/ BeginReap \/ ReapService \/ EndReap
             \/ DecidePendingRestart \/ DecideFailed \/ DecidePoll \/ RebuildGraph

Next ==
  \/ ManagerRegister
  \/ \E s \in Slots : \/ ManagerStart(s) \/ ManagerStartDynamic(s) \/ ManagerStop(s)
                      \/ ManagerRestart(s) \/ ManagerRestartDynamic(s)
                      \/ ProcessEnds(s) \/ TaskCompletes(s)
  \/ Supervise

Fairness == WF_vars(Supervise) /\ \A s \in Slots : WF_vars(TaskCompletes(s))
Spec == Init /\ [][Next]_vars /\ Fairness

-----------------------------------------------------------------------------
Serving == phase \notin {"quiesce", "halted"}

\* The registry never calls a service Running that has no task: every path that
\* clears executions[i].task also moves the registry on.
RunningHasTask == Serving => \A s \in Slots : registry[s].state = "Running" => task[s] # "none"

\* A service left in Stopping is on its way out: its task was asked to stop, or the
\* graph restart that resolves every state is pending (also after an aborted restart
\* put back only the first member of its closure).
StoppingIsResolved ==
  Serving => \A s \in Slots : registry[s].state = "Stopping" =>
    \/ task[s] \in {"stopping", "completed"}
    \/ pendingRestart # {} \/ FailedBoot # {}

\* A service in Starting is being started: it is the pending package start, the one
\* whose package is being fetched, or the graph restart it needs is pending.
StartingIsCarriedOut ==
  Serving => \A s \in Slots : registry[s].state = "Starting" =>
    \/ pendingDynamicStart = Handle(s)
    \/ phase = "exchange" /\ cursor = s
    \/ Handle(s) \in pendingRestart

\* supervise() never finds a stale handle in pending_restart (it would return
\* StaleGeneration and halt the machine), and the pending package start is current.
PendingIsCurrent ==
  Serving => /\ \A h \in pendingRestart : Current(h)
             /\ pendingDynamicStart # NoHandle =>
                  Current(pendingDynamicStart) /\ registry[pendingDynamicStart[1]].state = "Starting"

\* Every published task is watched by a running supervisor record of its own
\* generation, except a package service already declared failed; and a record exists
\* only for a slot of service_handles, so poll() indexes within its inputs.
EveryTaskWatched ==
  /\ Serving => \A s \in Slots : task[s] # "none" =>
       \/ supervisor[s].state = "Running" /\ supervisor[s].gen = handles[s]
       \/ s \notin Boot /\ registry[s].state = "Failed"
  /\ \A s \in Slots : supervisor[s].state # "None" => handles[s] # 0

\* Registry, supervisor, tasks and the pending work of supervise() tell one story at
\* every step of a stop, start, restart or failure.
LifecycleAgrees ==
  /\ RunningHasTask /\ EveryTaskWatched
  /\ StoppingIsResolved /\ StartingIsCarriedOut /\ PendingIsCurrent


\* A boot service that fails runs again: the supervisor replaces the graph, unless the
\* restart policy halts the system.
FailedRunsAgain ==
  \A s \in Boot : registry[s].state = "Failed" ~> (registry[s].state = "Running" \/ phase = "halted")

\* A service that is stopping does not stay so.
StoppingEnds ==
  \A s \in Slots : registry[s].state = "Stopping" ~> (registry[s].state # "Stopping" \/ phase = "halted")

\* "Restart attempts are capped; repeated failure becomes policy error": the graph is
\* never replaced more than MAX_RESTARTS times.
RestartsBounded == epoch - 1 <= MAX_RESTARTS

\* "a failed package lookup or image admission leaves the record failed and reclaims
\* any partially allocated process": no running process is left without an owner.
FailedAdmissionReclaims == orphans = 0
=============================================================================
