----------------------------- MODULE LiveSuite ------------------------------
\* What must eventually happen, under the fairness the schedulers give: the
\* supervisor task keeps running, a task that was asked to stop or whose
\* process has ended completes, and the service loops of Flow, Shell, User and
\* Storage are run again and again.
EXTENDS Integers, Sequences, FiniteSets

VARIABLES part,   \* the component that runs in this behaviour
          sr_registry, sr_handles, sr_task, sr_process, sr_supervisor, sr_recovery, sr_epoch,
          sr_pendingRestart, sr_pendingDynamicStart, sr_pendingDynamicRestart, sr_orphans,
          sr_phase, sr_cursor, sr_calls, sr_faults,
          pr_manager, pr_slots, pr_pending, pr_loading, pr_exchange, pr_request, pr_response, pr_inbox,
          pr_lastId, pr_accepted, pr_leaked, pr_calls, pr_restarts,
          fc_pc, fc_inq, fc_outq, fc_active_session, fc_pending, fc_completion, fc_client, fc_fetch,
          fc_promise, fc_waiting, fc_asker, fc_n, fc_answer, fc_detached, fc_misplaced

\* As in KernelSuite, with two manager calls.
Services == INSTANCE ServiceRuntime WITH
    registry <- sr_registry, handles <- sr_handles, task <- sr_task, process <- sr_process,
    supervisor <- sr_supervisor, recovery <- sr_recovery, epoch <- sr_epoch,
    pendingRestart <- sr_pendingRestart, pendingDynamicStart <- sr_pendingDynamicStart,
    pendingDynamicRestart <- sr_pendingDynamicRestart, orphans <- sr_orphans,
    phase <- sr_phase, cursor <- sr_cursor, calls <- sr_calls, faults <- sr_faults,
    Builtins <- 3, Dynamics <- 1, Caller <- 2, DependsOn <- <<{}, {1}, {1}>>,
    PackageBacked <- {3}, MAX_RESTARTS <- 3, MaxCalls <- 2, MaxFaults <- 2

\* As in KernelSuite.
Programs == INSTANCE Programs WITH
    manager <- pr_manager, slots <- pr_slots, pending <- pr_pending, loading <- pr_loading,
    exchange <- pr_exchange, request <- pr_request, response <- pr_response,
    inbox <- pr_inbox, lastId <- pr_lastId, accepted <- pr_accepted, leaked <- pr_leaked,
    calls <- pr_calls, restarts <- pr_restarts, Names <- {"a", "b"}, ProgramSlots <- 1..2,
    Exchanges <- 2, MaxCalls <- 3, MaxRestarts <- 1, OverlappingStarts <- FALSE

\* The command loop of Flow: two sessions, local, storage and fetch commands.
Fc == INSTANCE FlowCommands WITH
    pc <- fc_pc, inq <- fc_inq, outq <- fc_outq, active_session <- fc_active_session,
    pending <- fc_pending, completion <- fc_completion, client <- fc_client,
    fetch <- fc_fetch, promise <- fc_promise, waiting <- fc_waiting, asker <- fc_asker,
    n <- fc_n, answer <- fc_answer, detached <- fc_detached, misplaced <- fc_misplaced,
    Sessions <- 0..1, Ops <- {"local", "storage", "fetch"}, QueueSlots <- 1,
    MaxCommands <- 2

ServicesVars == <<sr_registry, sr_handles, sr_task, sr_process, sr_supervisor, sr_recovery, sr_epoch,
    sr_pendingRestart, sr_pendingDynamicStart, sr_pendingDynamicRestart, sr_orphans, sr_phase,
    sr_cursor, sr_calls, sr_faults>>
ProgramsVars == <<pr_manager, pr_slots, pr_pending, pr_loading, pr_exchange, pr_request, pr_response, pr_inbox,
    pr_lastId, pr_accepted, pr_leaked, pr_calls, pr_restarts>>
FcVars == <<fc_pc, fc_inq, fc_outq, fc_active_session, fc_pending, fc_completion, fc_client, fc_fetch,
    fc_promise, fc_waiting, fc_asker, fc_n, fc_answer, fc_detached, fc_misplaced>>
vars == <<part, ServicesVars, ProgramsVars, FcVars>>

Init ==
  /\ part \in {"Services", "Programs", "Fc"}
  /\ Services!Init
  /\ Programs!Init
  /\ Fc!Init

ServicesNext == /\ part = "Services" /\ Services!Next
                /\ UNCHANGED <<part, ProgramsVars, FcVars>>
ProgramsNext == /\ part = "Programs" /\ Programs!Next
                /\ UNCHANGED <<part, ServicesVars, FcVars>>
FcNext == /\ part = "Fc" /\ Fc!Next
          /\ UNCHANGED <<part, ServicesVars, ProgramsVars>>

Next == ServicesNext \/ ProgramsNext \/ FcNext

Spec ==
  /\ Init /\ [][Next]_vars
  /\ WF_vars(part = "Services" /\ Services!Supervise /\ UNCHANGED <<part, ProgramsVars, FcVars>>)
  /\ \A s \in 1..4 : WF_vars(part = "Services" /\ Services!TaskCompletes(s) /\ UNCHANGED <<part, ProgramsVars, FcVars>>)
  /\ WF_vars(part = "Programs" /\ Programs!Supervise /\ UNCHANGED <<part, ServicesVars, FcVars>>)
  /\ \A s \in 1..2 : WF_vars(part = "Programs" /\ Programs!TaskCompletes(s) /\ UNCHANGED <<part, ServicesVars, FcVars>>)
  /\ WF_vars(part = "Fc" /\ Fc!FlowStep /\ UNCHANGED <<part, ServicesVars, ProgramsVars>>)
  /\ WF_vars(part = "Fc" /\ Fc!SessionReads /\ UNCHANGED <<part, ServicesVars, ProgramsVars>>)
  /\ SF_vars(part = "Fc" /\ Fc!Drive /\ fc_client' = Fc!NoClient /\ UNCHANGED <<part, ServicesVars, ProgramsVars>>)
  /\ SF_vars(part = "Fc" /\ Fc!Fetch /\ ~fc_fetch'.on /\ UNCHANGED <<part, ServicesVars, ProgramsVars>>)
  /\ SF_vars(part = "Fc" /\ Fc!Output /\ ~fc_fetch'.cancel /\ UNCHANGED <<part, ServicesVars, ProgramsVars>>)

\* A failed boot service runs again, or the restart policy halts.
FailedRunsAgain == Services!FailedRunsAgain

\* A stopping service does not stay so.
StoppingEnds == Services!StoppingEnds


=============================================================================
