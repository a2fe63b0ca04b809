------------------------------ MODULE Scheduler ------------------------------
(***************************************************************************)
(* The SMP task scheduler of Core (src/scheduler.rs) driven by the         *)
(* interrupt path that dispatches tasks (src/arch/context.rs), at the      *)
(* granularity of single atomic loads, stores and compare-exchanges.       *)
(*                                                                         *)
(* A task slot is one atomic lifecycle word (generation, state, wake       *)
(* pending) and a few fields beside it (deadline, wait object, context     *)
(* saved, address-space root).  There is no scheduler lock: every CPU      *)
(* works on the slots from its interrupt handler, so an operation on one   *)
(* CPU interleaves with operations on the others between any two accesses. *)
(*                                                                         *)
(* Slot 1 holds the Runtime root task, a kernel task that supervises the   *)
(* services: it spawns, stops and reclaims user tasks under the service    *)
(* runtime lock and sleeps in between.  User tasks wait on event sets      *)
(* (objects) and signal them; hardware interrupts signal them too, without *)
(* the lock.                                                               *)
(***************************************************************************)
EXTENDS Naturals

CONSTANTS
    NumSlots,        \* MAX_TASKS
    Cpus,            \* the processors, MAX_CPUS of them
    Bsp,             \* the processor whose timer scans the deadlines
    Objects,         \* runtime event sets a task can wait on
    MaxDelay,        \* bound: the longest delay a deadline is armed with
    MaxGeneration,   \* bound: a slot is not spawned into beyond it
    GenerationMask,  \* the largest generation before the counter wraps
    QemuProof,       \* BOOLEAN: the build has the feature qemu-proof
    None             \* NO_DEADLINE, wait object 0, lock free, kernel root

ASSUME SlotsAssumption == NumSlots \in Nat \ {0}
ASSUME CpusAssumption == Bsp \in Cpus
ASSUME DelayAssumption == MaxDelay \in Nat \ {0}
ASSUME GenerationAssumption == /\ MaxGeneration \in Nat
                               /\ GenerationMask \in Nat
                               /\ MaxGeneration < GenerationMask
ASSUME FlagsAssumption == QemuProof \in BOOLEAN
ASSUME NoneAssumption == None \notin Nat /\ None \notin Objects /\ None \notin Cpus

Slots == 1 .. NumSlots

Delays == 0 .. MaxDelay

VARIABLES
    state,      \* slot -> its lifecycle word
    deadline,   \* slot -> ticks until wake_deadline, 0 when due, or None
    waitObject, \* slot -> wait_object
    ctxSaved,   \* slot -> context_saved
    user,       \* slot -> the slot publishes a process and its root
    cpu,        \* CPU -> where it is and which task it runs
    frame,      \* CPU -> locals of the scheduler call it is in
    cr3,        \* CPU -> the address-space root it has loaded
    lock,       \* SERVICE_RUNTIME_LOCK: the CPU that holds it, or None
    ready,      \* object -> a member event is signaled and not consumed
    held,       \* task handles the Runtime holds
    freed,      \* address spaces given back to the frame pool
    fresh,      \* history: the saved context is of the task's last run
    want,       \* history: the object the task blocks on
    timed       \* history: the task blocked with a deadline

slotVars == <<deadline, waitObject>>
historyVars == <<fresh, want, timed>>
taskVars == <<ctxSaved, user, historyVars>>
envVars == <<ready, held, freed>>
vars == <<state, deadline, waitObject, ctxSaved, user, cpu, frame, cr3, lock,
          ready, held, freed, fresh, want, timed>>

States == {"VACANT", "INITIALIZING", "RUNNABLE", "RUNNING", "BLOCKED",
           "COMPLETED", "STOPPING"}

Outcomes == {"Runnable", "Blocked", "TimedBlocked", "Completed"}

Words == [gen : Nat, st : States, pend : BOOLEAN]

Pack(g, s) == [gen |-> g, st |-> s, pend |-> FALSE]

NextGeneration(g) == IF g + 1 > GenerationMask THEN 1 ELSE g + 1

Handles == Slots \X Nat

(* Where a CPU is.  "off" before it comes online, "idle" and "run" with    *)
(* interrupts enabled, everything else inside the handler.                 *)
TaskPcs == {"run", "save", "finLoad", "finObject", "finDeadline", "finCas",
            "dispatch", "initContext", "resume",
            "waitCheck", "waitClear", "waitDeadline", "waitObject", "waitRecheck"}
CallPcs == {"signalObject", "signalWord", "wakeLoad", "wakeDeadline", "wakeObject",
            "wakeCas", "dueWord", "dueDeadline", "dueTake", "dueObject", "dueCas",
            "stopLoad", "stopDeadline", "stopObject", "stopCas",
            "spawnFill", "spawnPublish", "reclaimClear", "reclaimPublish", "freeRoot",
            "resetWord", "resetObject", "resetDeadline"}
FreePcs == {"off", "idle", "clear", "scan", "claimCas", "fatal"}
Pcs == TaskPcs \cup CallPcs \cup FreePcs

CpuRecords == [pc : Pcs, slot : Slots \cup {0}, gen : Nat, cursor : Slots,
               outcome : Outcomes, sys : BOOLEAN]

Frames == [op : {"none", "signal", "due", "reset", "stop", "spawn", "reclaim",
                 "wait", "claim"},
           ret : {"run", "save"}, slot : Slots, gen : Nat, old : Words,
           delay : Delays \cup {None}, obj : Objects \cup {None}, off : Nat]

NoFrame == [op |-> "none", ret |-> "save", slot |-> 1, gen |-> 0,
            old |-> Pack(0, "VACANT"), delay |-> None, obj |-> None, off |-> 0]

TypeOK ==
    /\ state \in [Slots -> Words]
    /\ deadline \in [Slots -> Delays \cup {None}]
    /\ waitObject \in [Slots -> Objects \cup {None}]
    /\ ctxSaved \in [Slots -> BOOLEAN]
    /\ user \in [Slots -> BOOLEAN]
    /\ cpu \in [Cpus -> CpuRecords]
    /\ frame \in [Cpus -> Frames]
    /\ cr3 \in [Cpus -> Handles \cup {None}]
    /\ lock \in Cpus \cup {None}
    /\ ready \in [Objects -> BOOLEAN]
    /\ held \in SUBSET Handles
    /\ freed \in SUBSET Handles
    /\ fresh \in [Slots -> BOOLEAN]
    /\ want \in [Slots -> Objects \cup {None}]
    /\ timed \in [Slots -> BOOLEAN]

Init ==
    /\ state = [s \in Slots |-> Pack(1, IF s = 1 THEN "RUNNABLE" ELSE "VACANT")]
    /\ deadline = [s \in Slots |-> None]
    /\ waitObject = [s \in Slots |-> None]
    /\ ctxSaved = [s \in Slots |-> FALSE]
    /\ user = [s \in Slots |-> FALSE]
    /\ cpu = [c \in Cpus |-> [pc |-> "off", slot |-> 0, gen |-> 0, cursor |-> 1,
                              outcome |-> "Runnable", sys |-> FALSE]]
    /\ frame = [c \in Cpus |-> NoFrame]
    /\ cr3 = [c \in Cpus |-> None]
    /\ lock = None
    /\ ready = [o \in Objects |-> FALSE]
    /\ held = {}
    /\ freed = {}
    /\ fresh = [s \in Slots |-> FALSE]
    /\ want = [s \in Slots |-> None]
    /\ timed = [s \in Slots |-> FALSE]
-----------------------------------------------------------------------------
(* Control of a CPU.                                                       *)

At(c, p) == cpu[c].pc = p

Goto(c, p) == cpu' = [cpu EXCEPT ![c].pc = p]

(* Enter the handler, with what becomes of the task when it is left.       *)
Trap(c, p, o, sys) ==
    cpu' = [cpu EXCEPT ![c] = [@ EXCEPT !.pc = p, !.outcome = o, !.sys = sys]]

(* Leave a scheduler call: its locals die, the runtime lock is released if *)
(* the call was made under it.                                             *)
Return(c) ==
    /\ cpu' = [cpu EXCEPT ![c].pc = frame[c].ret]
    /\ frame' = [frame EXCEPT ![c] = NoFrame]
    /\ lock' = IF lock = c THEN None ELSE lock

(* The bounded scans of the slot table go on with the next slot.           *)
ScanPc(op) == CASE op = "signal" -> "signalObject"
                [] op = "due"    -> "dueWord"
                [] OTHER         -> "resetWord"

NextSlot(c) ==
    IF frame[c].slot = NumSlots
    THEN Return(c)
    ELSE /\ frame' = [frame EXCEPT ![c] = [NoFrame EXCEPT !.op = frame[c].op,
                                              !.ret = frame[c].ret,
                                              !.obj = frame[c].obj,
                                              !.slot = frame[c].slot + 1]]
         /\ Goto(c, ScanPc(frame[c].op))
         /\ UNCHANGED lock

(* A call on behalf of a CPU whose code runs with interrupts disabled.     *)
Call(c, p, f) ==
    /\ cpu' = [cpu EXCEPT ![c].pc = p]
    /\ frame' = [frame EXCEPT ![c] = f]

Locked(c) == lock = None /\ lock' = c

Compare(c) == state[frame[c].slot] = frame[c].old
-----------------------------------------------------------------------------
(* Interrupt entry.  The handler loads the kernel root first.              *)

OnlineCpu(c) ==
    /\ At(c, "off")
    /\ Goto(c, "idle")
    /\ UNCHANGED <<state, slotVars, taskVars, frame, cr3, lock, envVars>>

Interruptible(c) == cpu[c].pc \in {"idle", "run"}

Enter(c, p) ==
    /\ Trap(c, p, "Runnable", FALSE)
    /\ cr3' = [cr3 EXCEPT ![c] = None]

(* Mutant: a deadline that is already due still counts down.               *)
AgedMutant(d) == IF d \in Delays THEN d - 1 ELSE d

(* The timer of the BSP advances the tick count, which brings every armed  *)
(* deadline (and one a system call is about to arm) a tick nearer, and     *)
(* scans the slots for the ones that are due.                              *)
Aged(d) == IF d \in Delays \ {0} THEN d - 1 ELSE d

TimerInterrupt(c) ==
    /\ Interruptible(c)
    /\ IF c = Bsp
       THEN /\ Enter(c, "dueWord")
            /\ frame' = [d \in Cpus |-> IF d = c
                                         THEN [NoFrame EXCEPT !.op = "due"]
                                         ELSE [frame[d] EXCEPT !.delay = Aged(@)]]
            /\ deadline' = [s \in Slots |-> Aged(deadline[s])]
       ELSE Enter(c, "save") /\ UNCHANGED <<deadline, frame>>
    /\ UNCHANGED <<state, waitObject, taskVars, lock, envVars>>

(* A reschedule IPI, or an interrupt that signals no bound event.          *)
RescheduleInterrupt(c) ==
    /\ Interruptible(c)
    /\ Enter(c, "save")
    /\ UNCHANGED <<state, slotVars, taskVars, frame, lock, envVars>>

(* signal_hardware_event: latch the event, then signal the bound set.      *)
HardwareInterrupt(c, o) ==
    /\ Interruptible(c)
    /\ ready' = [ready EXCEPT ![o] = TRUE]
    /\ Enter(c, "signalObject")
    /\ frame' = [frame EXCEPT ![c] = [NoFrame EXCEPT !.op = "signal", !.obj = o]]
    /\ UNCHANGED <<state, slotVars, taskVars, lock, held, freed>>
-----------------------------------------------------------------------------
(* System calls of a user task.  dispatch_syscall runs on the kernel root  *)
(* and loads the caller's root again before it returns to the scheduler.   *)

RunsUser(c) == At(c, "run") /\ user[cpu[c].slot]

RunsKernel(c) == At(c, "run") /\ ~user[cpu[c].slot]

Syscall(c, p, f) ==
    /\ RunsUser(c)
    /\ Trap(c, p, "Runnable", TRUE)
    /\ cr3' = [cr3 EXCEPT ![c] = None]
    /\ frame' = [frame EXCEPT ![c] = f]

(* event_call(Wait): a latched event is consumed and the call returns      *)
(* Ready; otherwise the task registers and blocks, with or without a       *)
(* deadline.                                                               *)
SyscallWait(c, o, d) ==
    \/ /\ ready[o]
       /\ lock = None
       /\ ready' = [ready EXCEPT ![o] = FALSE]
       /\ Syscall(c, "save", NoFrame)
       /\ UNCHANGED <<state, slotVars, taskVars, lock, held, freed>>
    \/ /\ ~ready[o]
       /\ Locked(c)
       /\ Syscall(c, "waitCheck",
                  [NoFrame EXCEPT !.op = "wait", !.obj = o, !.delay = d])
       /\ UNCHANGED <<state, slotVars, taskVars, envVars>>

(* ipc_send, ipc_receive and event_call(Signal) signal an event of a peer. *)
SyscallSignal(c, o) ==
    /\ Locked(c)
    /\ ready' = [ready EXCEPT ![o] = TRUE]
    /\ Syscall(c, "signalObject", [NoFrame EXCEPT !.op = "signal", !.obj = o])
    /\ UNCHANGED <<state, slotVars, taskVars, held, freed>>

(* Any other call returns to the scheduler without touching a slot.        *)
SyscallOther(c) ==
    /\ Syscall(c, "save", NoFrame)
    /\ UNCHANGED <<state, slotVars, taskVars, lock, envVars>>

(* PROGRAM_EXIT: exit_process, then request_stop on the caller itself; the *)
(* caller's root is not loaded again.                                      *)
SyscallExit(c) ==
    /\ RunsUser(c)
    /\ Trap(c, "stopLoad", "Runnable", FALSE)
    /\ cr3' = [cr3 EXCEPT ![c] = None]
    /\ frame' = [frame EXCEPT ![c] = [NoFrame EXCEPT !.op = "stop",
                                      !.slot = cpu[c].slot, !.gen = cpu[c].gen]]
    /\ UNCHANGED <<state, slotVars, taskVars, lock, envVars>>

(* A contained fault completes the task.                                   *)
UserFault(c) ==
    /\ RunsUser(c)
    /\ Trap(c, "save", "Completed", FALSE)
    /\ cr3' = [cr3 EXCEPT ![c] = None]
    /\ UNCHANGED <<state, slotVars, taskVars, frame, lock, envVars>>
-----------------------------------------------------------------------------
(* wait_for_event_object and the readiness check that follows it.          *)

WaitCheck(c) ==
    LET s == cpu[c].slot IN
    /\ At(c, "waitCheck")
    /\ IF state[s].gen = cpu[c].gen /\ state[s].st = "RUNNING"
       THEN Goto(c, "waitClear") /\ UNCHANGED <<frame, lock>>
       ELSE Return(c)
    /\ UNCHANGED <<state, slotVars, taskVars, cr3, envVars>>

WaitClear(c) ==
    /\ At(c, "waitClear")
    /\ waitObject' = [waitObject EXCEPT ![cpu[c].slot] = None]
    /\ Goto(c, "waitDeadline")
    /\ UNCHANGED <<state, deadline, taskVars, frame, cr3, lock, envVars>>

WaitDeadline(c) ==
    /\ At(c, "waitDeadline")
    /\ deadline' = [deadline EXCEPT ![cpu[c].slot] = frame[c].delay]
    /\ Goto(c, "waitObject")
    /\ UNCHANGED <<state, waitObject, taskVars, frame, cr3, lock, envVars>>

WaitObject(c) ==
    /\ At(c, "waitObject")
    /\ waitObject' = [waitObject EXCEPT ![cpu[c].slot] = frame[c].obj]
    /\ want' = [want EXCEPT ![cpu[c].slot] = frame[c].obj]
    /\ Trap(c, "waitRecheck",
            IF frame[c].delay = None THEN "Blocked" ELSE "TimedBlocked", TRUE)
    /\ UNCHANGED <<state, deadline, ctxSaved, user, fresh, timed, frame, cr3, lock, envVars>>

WaitRecheck(c) ==
    /\ At(c, "waitRecheck")
    /\ IF ready[frame[c].obj]
       THEN /\ Call(c, "signalObject",
                    [NoFrame EXCEPT !.op = "signal", !.obj = frame[c].obj])
            /\ UNCHANGED lock
       ELSE Return(c)
    /\ UNCHANGED <<state, slotVars, taskVars, cr3, envVars>>
-----------------------------------------------------------------------------
(* signal_event_object and wake.                                           *)

SignalObject(c) ==
    /\ At(c, "signalObject")
    /\ IF waitObject[frame[c].slot] = frame[c].obj
       THEN Goto(c, "signalWord") /\ UNCHANGED <<frame, lock>>
       ELSE NextSlot(c)
    /\ UNCHANGED <<state, slotVars, taskVars, cr3, envVars>>

SignalWord(c) ==
    LET w == state[frame[c].slot] IN
    /\ At(c, "signalWord")
    /\ IF w.st \in {"BLOCKED", "RUNNING"}
       THEN /\ Call(c, "wakeLoad", [frame[c] EXCEPT !.gen = w.gen])
            /\ UNCHANGED lock
       ELSE NextSlot(c)
    /\ UNCHANGED <<state, slotVars, taskVars, cr3, envVars>>

WakeDone(c) ==
    IF frame[c].op = "reset"
    THEN Goto(c, "resetObject") /\ UNCHANGED <<frame, lock>>
    ELSE NextSlot(c)

WakeNext(old) ==
    CASE old.st = "BLOCKED" -> Pack(old.gen, "RUNNABLE")
      [] old.st = "RUNNING" -> [old EXCEPT !.pend = TRUE]
      [] OTHER              -> old

WakeLoad(c) ==
    LET w == state[frame[c].slot] IN
    /\ At(c, "wakeLoad")
    /\ IF w.gen = frame[c].gen /\ w.st \in {"BLOCKED", "RUNNING", "RUNNABLE"}
       THEN /\ Call(c, IF w.st = "BLOCKED" THEN "wakeDeadline" ELSE "wakeObject",
                    [frame[c] EXCEPT !.old = w])
            /\ UNCHANGED lock
       ELSE WakeDone(c)
    /\ UNCHANGED <<state, slotVars, taskVars, cr3, envVars>>

WakeDeadline(c) ==
    /\ At(c, "wakeDeadline")
    /\ deadline' = [deadline EXCEPT ![frame[c].slot] = None]
    /\ Goto(c, "wakeObject")
    /\ UNCHANGED <<state, waitObject, taskVars, frame, cr3, lock, envVars>>

WakeObject(c) ==
    /\ At(c, "wakeObject")
    /\ waitObject' = [waitObject EXCEPT ![frame[c].slot] = None]
    /\ IF WakeNext(frame[c].old) = frame[c].old
       THEN WakeDone(c)
       ELSE Goto(c, "wakeCas") /\ UNCHANGED <<frame, lock>>
    /\ UNCHANGED <<state, deadline, taskVars, cr3, envVars>>

WakeCas(c) ==
    /\ At(c, "wakeCas")
    /\ IF Compare(c)
       THEN /\ state' = [state EXCEPT ![frame[c].slot] = WakeNext(frame[c].old)]
            /\ WakeDone(c)
       ELSE Goto(c, "wakeLoad") /\ UNCHANGED <<state, frame, lock>>
    /\ UNCHANGED <<slotVars, taskVars, cr3, envVars>>
-----------------------------------------------------------------------------
(* wake_due: the deadline scan of the BSP timer.                           *)

DueWord(c) ==
    LET w == state[frame[c].slot] IN
    /\ At(c, "dueWord")
    /\ IF w.st = "BLOCKED"
       THEN Call(c, "dueDeadline", [frame[c] EXCEPT !.old = w]) /\ UNCHANGED lock
       ELSE NextSlot(c)
    /\ UNCHANGED <<state, slotVars, taskVars, cr3, envVars>>

DueDeadline(c) ==
    /\ At(c, "dueDeadline")
    /\ IF deadline[frame[c].slot] = 0
       THEN Goto(c, "dueTake") /\ UNCHANGED <<frame, lock>>
       ELSE NextSlot(c)
    /\ UNCHANGED <<state, slotVars, taskVars, cr3, envVars>>

(* The compare-exchange on the deadline that was read as due.              *)
DueTake(c) ==
    /\ At(c, "dueTake")
    /\ IF deadline[frame[c].slot] = 0
       THEN /\ deadline' = [deadline EXCEPT ![frame[c].slot] = None]
            /\ Goto(c, "dueObject")
            /\ UNCHANGED <<frame, lock>>
       ELSE NextSlot(c) /\ UNCHANGED deadline
    /\ UNCHANGED <<state, waitObject, taskVars, cr3, envVars>>

DueObject(c) ==
    /\ At(c, "dueObject")
    /\ waitObject' = [waitObject EXCEPT ![frame[c].slot] = None]
    /\ Goto(c, "dueCas")
    /\ UNCHANGED <<state, deadline, taskVars, frame, cr3, lock, envVars>>

DueCas(c) ==
    /\ At(c, "dueCas")
    /\ state' = IF Compare(c)
                THEN [state EXCEPT ![frame[c].slot] = Pack(frame[c].old.gen, "RUNNABLE")]
                ELSE state
    /\ NextSlot(c)
    /\ UNCHANGED <<slotVars, taskVars, cr3, envVars>>
-----------------------------------------------------------------------------
(* save_context_from_interrupt and finish: the outgoing task is published. *)

(* Mutant: the stop request is overlooked at the scheduler boundary.       *)
FinishNextMutant(old, outcome) ==
    CASE outcome = "Runnable"  -> "RUNNABLE"
      [] outcome = "Completed" -> "COMPLETED"
      [] OTHER                 -> IF old.pend THEN "RUNNABLE" ELSE "BLOCKED"

FinishNext(old, outcome) ==
    IF old.st = "STOPPING" THEN "COMPLETED"
    ELSE CASE outcome = "Runnable"  -> "RUNNABLE"
           [] outcome = "Completed" -> "COMPLETED"
           [] OTHER                 -> IF old.pend THEN "RUNNABLE" ELSE "BLOCKED"

Owned(w) == w.st \in {"RUNNING", "STOPPING"}

(* Mutant: the task is published without saving its context again.         *)
SaveMutant(c) ==
    LET s == cpu[c].slot IN
    /\ At(c, "save")
    /\ Goto(c, IF s = 0 THEN "clear" ELSE "finLoad")
    /\ cr3' = [cr3 EXCEPT ![c] = IF cpu[c].sys THEN <<s, cpu[c].gen>> ELSE cr3[c]]
    /\ UNCHANGED <<state, slotVars, taskVars, frame, lock, envVars>>

(* A system call has loaded the caller's root again by now.                *)
Save(c) ==
    LET s == cpu[c].slot IN
    /\ At(c, "save")
    /\ IF s = 0
       THEN Goto(c, "clear") /\ UNCHANGED <<ctxSaved, fresh, cr3>>
       ELSE /\ cr3' = [cr3 EXCEPT ![c] = IF cpu[c].sys THEN <<s, cpu[c].gen>> ELSE None]
            /\ IF state[s].gen = cpu[c].gen /\ Owned(state[s])
               THEN /\ ctxSaved' = [ctxSaved EXCEPT ![s] = TRUE]
                    /\ fresh' = [fresh EXCEPT ![s] = TRUE]
                    /\ Goto(c, "finLoad")
               ELSE Goto(c, "fatal") /\ UNCHANGED <<ctxSaved, fresh>>
    /\ UNCHANGED <<state, slotVars, user, want, timed, frame, lock, envVars>>

FinishLoad(c) ==
    LET s == cpu[c].slot IN
    /\ At(c, "finLoad")
    /\ IF ctxSaved[s] /\ state[s].gen = cpu[c].gen /\ Owned(state[s])
       THEN Call(c, "finObject", [NoFrame EXCEPT !.slot = s, !.old = state[s]])
       ELSE Goto(c, "fatal") /\ UNCHANGED frame
    /\ UNCHANGED <<state, slotVars, taskVars, cr3, lock, envVars>>

(* Mutant: the registration is cleared although the task blocks on it.     *)
FinishObjectMutant(c) ==
    /\ At(c, "finObject")
    /\ waitObject' = [waitObject EXCEPT ![cpu[c].slot] = None]
    /\ Goto(c, "finDeadline")
    /\ UNCHANGED <<state, deadline, taskVars, frame, cr3, lock, envVars>>

FinishObject(c) ==
    /\ At(c, "finObject")
    /\ waitObject' = IF FinishNext(frame[c].old, cpu[c].outcome) = "BLOCKED"
                     THEN waitObject
                     ELSE [waitObject EXCEPT ![cpu[c].slot] = None]
    /\ Goto(c, "finDeadline")
    /\ UNCHANGED <<state, deadline, taskVars, frame, cr3, lock, envVars>>


FinishDeadline(c) ==
    /\ At(c, "finDeadline")
    /\ deadline' = IF /\ FinishNext(frame[c].old, cpu[c].outcome) = "BLOCKED"
                      /\ cpu[c].outcome # "Blocked"
                   THEN deadline
                   ELSE [deadline EXCEPT ![cpu[c].slot] = None]
    /\ Goto(c, "finCas")
    /\ UNCHANGED <<state, waitObject, taskVars, frame, cr3, lock, envVars>>

FinishCas(c) ==
    LET s == cpu[c].slot
        next == FinishNext(frame[c].old, cpu[c].outcome) IN
    /\ At(c, "finCas")
    /\ IF Compare(c)
       THEN /\ state' = [state EXCEPT ![s] = Pack(cpu[c].gen, next)]
            /\ want' = IF next = "BLOCKED" THEN want ELSE [want EXCEPT ![s] = None]
            /\ timed' = [timed EXCEPT ![s] = next = "BLOCKED"
                                             /\ cpu[c].outcome = "TimedBlocked"]
            /\ Goto(c, "clear")
       ELSE Goto(c, "finLoad") /\ UNCHANGED <<state, want, timed>>
    /\ frame' = [frame EXCEPT ![c] = NoFrame]
    /\ UNCHANGED <<slotVars, ctxSaved, user, fresh, cr3, lock, envVars>>
-----------------------------------------------------------------------------
(* clear_current, claim_next and the dispatch of the claimed task.         *)

(* Mutant: the scan always starts at the same slot.                        *)
ClearCurrentMutant(c) ==
    /\ At(c, "clear")
    /\ cpu' = [cpu EXCEPT ![c] = [pc |-> "scan", slot |-> 0, gen |-> 0,
                                  cursor |-> cpu[c].cursor,
                                  outcome |-> "Runnable", sys |-> FALSE]]
    /\ frame' = [frame EXCEPT ![c] = [NoFrame EXCEPT !.op = "claim",
                                                     !.slot = cpu[c].cursor]]
    /\ UNCHANGED <<state, slotVars, taskVars, cr3, lock, envVars>>

(* The scan starts at the CPU's own cursor, which moves on at every claim. *)
ClearCurrent(c) ==
    /\ At(c, "clear")
    /\ cpu' = [cpu EXCEPT ![c] = [pc |-> "scan", slot |-> 0, gen |-> 0,
                                  cursor |-> (cpu[c].cursor % NumSlots) + 1,
                                  outcome |-> "Runnable", sys |-> FALSE]]
    /\ frame' = [frame EXCEPT ![c] = [NoFrame EXCEPT !.op = "claim",
                                                     !.slot = cpu[c].cursor]]
    /\ UNCHANGED <<state, slotVars, taskVars, cr3, lock, envVars>>

ScanOn(c) ==
    /\ Goto(c, "scan")
    /\ frame' = [frame EXCEPT ![c] = [NoFrame EXCEPT !.op = "claim",
                                        !.slot = (frame[c].slot % NumSlots) + 1,
                                        !.off = frame[c].off + 1]]

ClaimScan(c) ==
    LET w == state[frame[c].slot] IN
    /\ At(c, "scan")
    /\ \/ /\ frame[c].off = NumSlots
          /\ Goto(c, "idle")
          /\ frame' = [frame EXCEPT ![c] = NoFrame]
          /\ cr3' = IF QemuProof THEN [cr3 EXCEPT ![c] = None] ELSE cr3
       \/ /\ frame[c].off < NumSlots
          /\ IF w.st = "RUNNABLE"
             THEN Call(c, "claimCas", [frame[c] EXCEPT !.old = w])
             ELSE ScanOn(c)
          /\ UNCHANGED cr3
    /\ UNCHANGED <<state, slotVars, taskVars, lock, envVars>>

ClaimCas(c) ==
    LET s == frame[c].slot IN
    /\ At(c, "claimCas")
    /\ IF Compare(c)
       THEN /\ state' = [state EXCEPT ![s] = Pack(frame[c].old.gen, "RUNNING")]
            /\ cpu' = [cpu EXCEPT ![c] = [@ EXCEPT !.pc = "dispatch", !.slot = s,
                                                   !.gen = frame[c].old.gen]]
            /\ frame' = [frame EXCEPT ![c] = NoFrame]
       ELSE ScanOn(c) /\ UNCHANGED state
    /\ UNCHANGED <<slotVars, taskVars, cr3, lock, envVars>>

Dispatch(c) ==
    /\ At(c, "dispatch")
    /\ Goto(c, IF ctxSaved[cpu[c].slot] THEN "resume" ELSE "initContext")
    /\ UNCHANGED <<state, slotVars, taskVars, frame, cr3, lock, envVars>>

(* initialize_task_context: set_initial_context insists on RUNNING.        *)
InitContext(c) ==
    LET s == cpu[c].slot IN
    /\ At(c, "initContext")
    /\ IF state[s].gen = cpu[c].gen /\ state[s].st = "RUNNING"
       THEN /\ ctxSaved' = [ctxSaved EXCEPT ![s] = TRUE]
            /\ fresh' = [fresh EXCEPT ![s] = TRUE]
            /\ Goto(c, "resume")
       ELSE Goto(c, "fatal") /\ UNCHANGED <<ctxSaved, fresh>>
    /\ UNCHANGED <<state, slotVars, user, want, timed, frame, cr3, lock, envVars>>

(* Mutant: a kernel task keeps the root of the task before it.             *)
ResumeMutant(c) ==
    LET s == cpu[c].slot IN
    /\ At(c, "resume")
    /\ cr3' = [cr3 EXCEPT ![c] = IF user[s] THEN <<s, cpu[c].gen>> ELSE cr3[c]]
    /\ fresh' = [fresh EXCEPT ![s] = FALSE]
    /\ Goto(c, "run")
    /\ UNCHANGED <<state, slotVars, ctxSaved, user, want, timed, frame, lock, envVars>>

(* The root of the task is loaded and its saved context restored.          *)
Resume(c) ==
    LET s == cpu[c].slot IN
    /\ At(c, "resume")
    /\ cr3' = [cr3 EXCEPT ![c] = IF user[s] THEN <<s, cpu[c].gen>> ELSE None]
    /\ fresh' = [fresh EXCEPT ![s] = FALSE]
    /\ Goto(c, "run")
    /\ UNCHANGED <<state, slotVars, ctxSaved, user, want, timed, frame, lock, envVars>>
-----------------------------------------------------------------------------
(* The Runtime root task.                                                  *)

(* sleep_current_for: arm_deadline, then a timed block.  The tick count is *)
(* read before interrupts are disabled, so the deadline may be past when   *)
(* it is armed (d = 0).                                                    *)
KernelSleep(c, d) ==
    LET s == cpu[c].slot IN
    /\ RunsKernel(c)
    /\ IF state[s].gen = cpu[c].gen /\ state[s].st = "RUNNING"
       THEN /\ deadline' = [deadline EXCEPT ![s] = d]
            /\ Trap(c, "save", "TimedBlocked", FALSE)
       ELSE Goto(c, "fatal") /\ UNCHANGED deadline
    /\ UNCHANGED <<state, waitObject, taskVars, frame, cr3, lock, envVars>>

(* spawn_user reserves the first vacant slot.                              *)
RuntimeSpawn(c, s) ==
    /\ RunsKernel(c)
    /\ state[s].st = "VACANT" /\ \A t \in Slots : t < s => state[t].st # "VACANT"
    /\ state[s].gen <= MaxGeneration
    /\ Locked(c)
    /\ state' = [state EXCEPT ![s] = Pack(state[s].gen, "INITIALIZING")]
    /\ Call(c, "spawnFill", [NoFrame EXCEPT !.op = "spawn", !.ret = "run", !.slot = s,
                                            !.gen = state[s].gen])
    /\ UNCHANGED <<slotVars, taskVars, cr3, envVars>>

SpawnFill(c) ==
    LET s == frame[c].slot IN
    /\ At(c, "spawnFill")
    /\ deadline' = [deadline EXCEPT ![s] = None]
    /\ waitObject' = [waitObject EXCEPT ![s] = None]
    /\ ctxSaved' = [ctxSaved EXCEPT ![s] = FALSE]
    /\ user' = [user EXCEPT ![s] = TRUE]
    /\ Goto(c, "spawnPublish")
    /\ UNCHANGED <<state, historyVars, frame, cr3, lock, envVars>>

SpawnPublish(c) ==
    LET s == frame[c].slot IN
    /\ At(c, "spawnPublish")
    /\ state' = [state EXCEPT ![s] = Pack(frame[c].gen, "RUNNABLE")]
    /\ held' = held \cup {<<s, frame[c].gen>>}
    /\ Return(c)
    /\ UNCHANGED <<slotVars, taskVars, cr3, ready, freed>>

RuntimeStop(c, h) ==
    /\ RunsKernel(c)
    /\ Locked(c)
    /\ Call(c, "stopLoad", [NoFrame EXCEPT !.op = "stop", !.ret = "run",
                                           !.slot = h[1], !.gen = h[2]])
    /\ UNCHANGED <<state, slotVars, taskVars, cr3, envVars>>

(* Mutant: a running task is completed at once.                            *)
StopNextMutant(old) == Pack(old.gen, "COMPLETED")

StopNext(old) == Pack(old.gen, IF old.st = "RUNNING" THEN "STOPPING" ELSE "COMPLETED")

StopLoad(c) ==
    LET w == state[frame[c].slot] IN
    /\ At(c, "stopLoad")
    /\ IF w.gen = frame[c].gen /\ w.st \in {"RUNNING", "RUNNABLE", "BLOCKED"}
       THEN Call(c, "stopDeadline", [frame[c] EXCEPT !.old = w]) /\ UNCHANGED lock
       ELSE Return(c)
    /\ UNCHANGED <<state, slotVars, taskVars, cr3, envVars>>

StopDeadline(c) ==
    /\ At(c, "stopDeadline")
    /\ deadline' = [deadline EXCEPT ![frame[c].slot] = None]
    /\ Goto(c, "stopObject")
    /\ UNCHANGED <<state, waitObject, taskVars, frame, cr3, lock, envVars>>

StopObject(c) ==
    /\ At(c, "stopObject")
    /\ waitObject' = [waitObject EXCEPT ![frame[c].slot] = None]
    /\ Goto(c, "stopCas")
    /\ UNCHANGED <<state, deadline, taskVars, frame, cr3, lock, envVars>>

StopCas(c) ==
    /\ At(c, "stopCas")
    /\ IF Compare(c)
       THEN state' = [state EXCEPT ![frame[c].slot] = StopNext(frame[c].old)]
            /\ Return(c)
       ELSE Goto(c, "stopLoad") /\ UNCHANGED <<state, frame, lock>>
    /\ UNCHANGED <<slotVars, taskVars, cr3, envVars>>

(* The supervisor reclaims a task it has seen COMPLETED.                   *)
RuntimeReclaim(c, h) ==
    /\ RunsKernel(c)
    /\ state[h[1]] = Pack(h[2], "COMPLETED")
    /\ Locked(c)
    /\ state' = [state EXCEPT ![h[1]] = Pack(h[2], "INITIALIZING")]
    /\ Call(c, "reclaimClear", [NoFrame EXCEPT !.op = "reclaim", !.ret = "run",
                                               !.slot = h[1], !.gen = h[2]])
    /\ UNCHANGED <<slotVars, taskVars, cr3, envVars>>

ReclaimClear(c) ==
    LET s == frame[c].slot IN
    /\ At(c, "reclaimClear")
    /\ user' = [user EXCEPT ![s] = FALSE]
    /\ deadline' = [deadline EXCEPT ![s] = None]
    /\ waitObject' = [waitObject EXCEPT ![s] = None]
    /\ ctxSaved' = [ctxSaved EXCEPT ![s] = FALSE]
    /\ Goto(c, "reclaimPublish")
    /\ UNCHANGED <<state, historyVars, frame, cr3, lock, envVars>>

ReclaimPublish(c) ==
    LET s == frame[c].slot IN
    /\ At(c, "reclaimPublish")
    /\ state' = [state EXCEPT ![s] = Pack(NextGeneration(frame[c].gen), "VACANT")]
    /\ Goto(c, "freeRoot")
    /\ UNCHANGED <<slotVars, taskVars, frame, cr3, lock, envVars>>

(* reclaim_service_execution_slot: the page tables go back to the pool.    *)
FreeRoot(c) ==
    LET h == <<frame[c].slot, frame[c].gen>> IN
    /\ At(c, "freeRoot")
    /\ freed' = freed \cup {h}
    /\ held' = held \ {h}
    /\ Return(c)
    /\ UNCHANGED <<state, slotVars, taskVars, cr3, ready>>

(* reset_events, called by a restart once every service task is reclaimed. *)
RuntimeReset(c) ==
    /\ RunsKernel(c)
    /\ held = {}
    /\ Locked(c)
    /\ Call(c, "resetWord", [NoFrame EXCEPT !.op = "reset", !.ret = "run"])
    /\ UNCHANGED <<state, slotVars, taskVars, cr3, envVars>>

ResetWord(c) ==
    LET w == state[frame[c].slot] IN
    /\ At(c, "resetWord")
    /\ IF w.st = "BLOCKED"
       THEN Call(c, "wakeLoad", [frame[c] EXCEPT !.gen = w.gen])
       ELSE Goto(c, "resetObject") /\ UNCHANGED frame
    /\ UNCHANGED <<state, slotVars, taskVars, cr3, lock, envVars>>

ResetObject(c) ==
    /\ At(c, "resetObject")
    /\ waitObject' = [waitObject EXCEPT ![frame[c].slot] = None]
    /\ Goto(c, "resetDeadline")
    /\ UNCHANGED <<state, deadline, taskVars, frame, cr3, lock, envVars>>

ResetDeadline(c) ==
    /\ At(c, "resetDeadline")
    /\ deadline' = [deadline EXCEPT ![frame[c].slot] = None]
    /\ NextSlot(c)
    /\ UNCHANGED <<state, waitObject, taskVars, cr3, envVars>>
-----------------------------------------------------------------------------
(* Steps a CPU takes inside its handler, and the whole system.             *)

HandlerStep(c) ==
    \/ WaitCheck(c) \/ WaitClear(c) \/ WaitDeadline(c) \/ WaitObject(c) \/ WaitRecheck(c)
    \/ SignalObject(c) \/ SignalWord(c)
    \/ WakeLoad(c) \/ WakeDeadline(c) \/ WakeObject(c) \/ WakeCas(c)
    \/ DueWord(c) \/ DueDeadline(c) \/ DueTake(c) \/ DueObject(c) \/ DueCas(c)
    \/ Save(c) \/ FinishLoad(c) \/ FinishObject(c) \/ FinishDeadline(c) \/ FinishCas(c)
    \/ ClearCurrent(c) \/ ClaimScan(c) \/ ClaimCas(c)
    \/ Dispatch(c) \/ InitContext(c) \/ Resume(c)
    \/ SpawnFill(c) \/ SpawnPublish(c)
    \/ StopLoad(c) \/ StopDeadline(c) \/ StopObject(c) \/ StopCas(c)
    \/ ReclaimClear(c) \/ ReclaimPublish(c) \/ FreeRoot(c)
    \/ ResetWord(c) \/ ResetObject(c) \/ ResetDeadline(c)

UserStep(c) ==
    \/ \E o \in Objects, d \in (Delays \ {0}) \cup {None} : SyscallWait(c, o, d)
    \/ \E o \in Objects : SyscallSignal(c, o)
    \/ SyscallOther(c)
    \/ SyscallExit(c)
    \/ UserFault(c)

RuntimeStep(c) ==
    \/ \E d \in Delays : KernelSleep(c, d)
    \/ \E s \in Slots : RuntimeSpawn(c, s)
    \/ \E h \in held : RuntimeStop(c, h)
    \/ \E h \in held : RuntimeReclaim(c, h)
    \/ RuntimeReset(c)

Next ==
    \E c \in Cpus :
        \/ OnlineCpu(c)
        \/ TimerInterrupt(c)
        \/ RescheduleInterrupt(c)
        \/ \E o \in Objects : HardwareInterrupt(c, o)
        \/ UserStep(c)
        \/ RuntimeStep(c)
        \/ HandlerStep(c)

Spec == Init /\ [][Next]_vars

(* Every online CPU runs its handler to the end.  Its local timer fires    *)
(* periodically and stays pending while interrupts are disabled, so it is  *)
(* delivered if interrupts are enabled again and again.                    *)
Fairness ==
    \A c \in Cpus : /\ WF_vars(HandlerStep(c))
                    /\ WF_vars(OnlineCpu(c))
                    /\ SF_vars(TimerInterrupt(c))

FairSpec == Spec /\ Fairness
-----------------------------------------------------------------------------
(* Properties.                                                             *)

(* The pcs at which a CPU has the task cpu[c].slot claimed: from the       *)
(* compare-exchange in claim_next to the one in finish.                    *)
Executing(c) == cpu[c].slot # 0 /\ cpu[c].pc # "clear"

(* No two CPUs execute the same task, and the word of an executing task is *)
(* RUNNING or STOPPING in the generation that was claimed: nothing else    *)
(* can run, reclaim or reuse a slot between claim_next and finish.         *)
ExclusiveExecution ==
    \A c \in Cpus : Executing(c) =>
        /\ state[cpu[c].slot].gen = cpu[c].gen
        /\ Owned(state[cpu[c].slot])
        /\ \A d \in Cpus \ {c} : Executing(d) => cpu[d].slot # cpu[c].slot

(* A task is resumed from the context of its last run or from its initial  *)
(* context, never from an older one (the publication order save_context    *)
(* then finish).                                                           *)
ResumesLastContext ==
    \A c \in Cpus : At(c, "resume") => ctxSaved[cpu[c].slot] /\ fresh[cpu[c].slot]

(* Task code runs on its own root: a user task on the root published for   *)
(* its generation, the kernel task on the kernel root.                     *)
RunsOnOwnRoot ==
    \A c \in Cpus : At(c, "run") =>
        cr3[c] = IF user[cpu[c].slot] THEN <<cpu[c].slot, cpu[c].gen>> ELSE None

(* Some CPU is inside a call that is going to make the sleeper runnable or *)
(* to complete it: it has seen the BLOCKED word of this generation and has *)
(* not finished its compare-exchange.                                      *)
WakeInFlight(s) ==
    \E c \in Cpus :
        /\ frame[c].slot = s
        /\ \/ /\ cpu[c].pc \in {"wakeDeadline", "wakeObject", "wakeCas", "stopDeadline",
                                "stopObject", "stopCas", "dueObject", "dueCas"}
              /\ frame[c].old.gen = state[s].gen
           \/ cpu[c].pc \in {"wakeLoad", "stopLoad"} /\ frame[c].gen = state[s].gen


(* A signal of the object is still being delivered.                        *)
SignalInFlight(o) ==
    \E c \in Cpus : frame[c].op = "signal" /\ frame[c].obj = o

(* A task never sleeps on an event set that is ready once the signal that  *)
(* made it ready has returned: the wake cannot be lost between the check,  *)
(* the registration and the block.                                         *)
NoLostEventWake ==
    \A s \in Slots, o \in Objects :
        state[s].st = "BLOCKED" /\ want[s] = o /\ ready[o]
        => SignalInFlight(o) \/ WakeInFlight(s)

(* No order of scheduler calls takes a CPU to fatal().                     *)
NeverFatal == \A c \in Cpus : cpu[c].pc # "fatal"

(* No CPU has a reclaimed address space loaded.                            *)
NoReclaimedRoot == \A c \in Cpus : cr3[c] \notin freed

(* The liveness properties hold until a CPU stops in fatal().              *)
Halted == \E c \in Cpus : At(c, "fatal")

(* A runnable task is claimed or stopped: the rotating cursors of the CPUs *)
(* starve no slot.                                                         *)
RunnableIsClaimed ==
    \A s \in Slots : state[s].st = "RUNNABLE" ~> state[s].st # "RUNNABLE" \/ Halted

(* A stop request on a running task completes it: at its next scheduler    *)
(* boundary finish sees STOPPING.                                          *)
StoppingCompletes ==
    \A s \in Slots : state[s].st = "STOPPING" ~> state[s].st = "COMPLETED" \/ Halted

=============================================================================
