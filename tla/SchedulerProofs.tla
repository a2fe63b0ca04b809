--------------------------- MODULE SchedulerProofs ---------------------------
(***************************************************************************)
(* Proofs about the scheduler of module Scheduler, for every number of     *)
(* slots and CPUs: its type invariant, that execution of a task is         *)
(* exclusive from claim_next to finish (IInv), and that a task resumes     *)
(* from the context of its last run, on its own root (DInv).               *)
(***************************************************************************)
EXTENDS Scheduler, TLAPS

(* A CPU that works for a task has one: SyscallExit, finish and Resume may *)
(* use cpu[c].slot as a slot.  A call made by task code returns to it.     *)
HasTask(c) ==
    /\ cpu[c].pc \in TaskPcs \ {"save"} => cpu[c].slot # 0
    /\ cpu[c].pc \in CallPcs /\ frame[c].ret = "run" => cpu[c].slot # 0

TaskInSlot == \A c \in Cpus : HasTask(c)

(* What a call knows about the word it read when it compares and swaps it. *)
KnowsWord(c) ==
    /\ cpu[c].pc \in {"dueDeadline", "dueTake", "dueObject", "dueCas"}
       => frame[c].old.st = "BLOCKED"
    /\ cpu[c].pc = "claimCas" => frame[c].old.st = "RUNNABLE"
    /\ cpu[c].pc \in {"stopDeadline", "stopObject", "stopCas"}
       => frame[c].old.st \in {"RUNNING", "RUNNABLE", "BLOCKED"}
    /\ cpu[c].pc \in {"finObject", "finDeadline", "finCas"}
       => frame[c].slot = cpu[c].slot

(* The pcs at which a call owns an INITIALIZING slot: it holds the service *)
(* runtime lock, which keeps such calls on different CPUs apart.           *)
Claims(c) == cpu[c].pc \in {"spawnFill", "spawnPublish", "reclaimClear", "reclaimPublish"}

Local(c) == HasTask(c) /\ KnowsWord(c) /\ (Claims(c) => lock = c)

(* A slot that a call is filling or clearing stays INITIALIZING.           *)
InitializingHeld ==
    \A c \in Cpus : Claims(c) => state[frame[c].slot].st = "INITIALIZING"

(* The inductive invariant behind ExclusiveExecution.                      *)
IInv == TypeOK /\ (\A c \in Cpus : Local(c)) /\ ExclusiveExecution /\ InitializingHeld
-----------------------------------------------------------------------------
(* Types of the control operators.                                         *)

(* Pack builds a lifecycle word.                                           *)
LEMMA PackType ==
    ASSUME NEW g \in Nat, NEW s \in States
    PROVE  /\ Pack(g, s) \in Words
           /\ Pack(g, s).gen = g
           /\ Pack(g, s).st = s
  BY Zenon DEF Pack, Words

(* Storing a word keeps the type of the state words.                       *)
LEMMA StoreType ==
    ASSUME state \in [Slots -> Words], NEW s, NEW w \in Words,
           state' = [state EXCEPT ![s] = w] \/ state' = state
    PROVE  state' \in [Slots -> Words]
  BY Zenon

(* The cleared locals of a CPU are locals.                                 *)
LEMMA NoFrameType == NoFrame \in Frames
  BY PackType, SlotsAssumption DEF NoFrame, Frames, Slots, States

(* Moving a CPU to another pc keeps the type of cpu, and every other field.*)
LEMMA GotoType ==
    ASSUME cpu \in [Cpus -> CpuRecords], NEW c \in Cpus, NEW p \in Pcs, Goto(c, p)
    PROVE  cpu' \in [Cpus -> CpuRecords]
  BY Zenon DEF Goto, CpuRecords

(* So does returning from a call, which also clears the locals.            *)
LEMMA ReturnType ==
    ASSUME TypeOK, NEW c \in Cpus, Return(c)
    PROVE  /\ cpu' \in [Cpus -> CpuRecords]
           /\ frame' \in [Cpus -> Frames]
           /\ lock' \in Cpus \cup {None}
  <1>1. frame[c].ret \in Pcs
    BY Zenon DEF TypeOK, Frames, Pcs, TaskPcs
  <1>2. cpu' \in [Cpus -> CpuRecords]
    BY ZenonT(90), <1>1 DEF TypeOK, Return, CpuRecords
  <1>3. frame' \in [Cpus -> Frames] /\ lock' \in Cpus \cup {None}
    BY Zenon, NoFrameType DEF TypeOK, Return
  <1> QED
    BY Zenon, <1>2, <1>3

(* And so does going on with the next slot of a scan.                      *)
LEMMA NextSlotType ==
    ASSUME TypeOK, NEW c \in Cpus, NextSlot(c)
    PROVE  /\ cpu' \in [Cpus -> CpuRecords]
           /\ frame' \in [Cpus -> Frames]
           /\ lock' \in Cpus \cup {None}
  <1>1. CASE frame[c].slot = NumSlots
    BY Zenon, <1>1, ReturnType DEF NextSlot
  <1>2. CASE frame[c].slot # NumSlots
    <2>1. ScanPc(frame[c].op) \in Pcs
      BY Zenon DEF ScanPc, Pcs, CallPcs
    <2>2. cpu' \in [Cpus -> CpuRecords]
      BY Zenon, <1>2, <2>1, GotoType DEF NextSlot, TypeOK
    <2>3. frame[c].slot + 1 \in Slots
      BY <1>2, SlotsAssumption DEF TypeOK, Frames, Slots
    <2> DEFINE f == [NoFrame EXCEPT !.op = frame[c].op, !.ret = frame[c].ret,
                                    !.obj = frame[c].obj, !.slot = frame[c].slot + 1]
    <2>4. f \in Frames
      BY Zenon, <2>3, NoFrameType DEF TypeOK, Frames
    <2>5. frame' = [frame EXCEPT ![c] = f]
      BY Zenon, <1>2 DEF NextSlot
    <2>6. frame' \in [Cpus -> Frames]
      BY Zenon, <2>4, <2>5 DEF TypeOK
    <2> QED
      BY Zenon, <1>2, <2>2, <2>6 DEF NextSlot, TypeOK
  <1> QED
    BY Zenon, <1>1, <1>2

(* Entering a call keeps the types when its locals are well typed.         *)
LEMMA CallType ==
    ASSUME TypeOK, NEW c \in Cpus, NEW p \in Pcs, NEW f \in Frames, Call(c, p, f)
    PROVE  /\ cpu' \in [Cpus -> CpuRecords]
           /\ frame' \in [Cpus -> Frames]
  BY ZenonT(60) DEF TypeOK, Call, CpuRecords

(* The locals with another word, or another generation, are locals.        *)
LEMMA FrameUpdateType ==
    ASSUME NEW f \in Frames, NEW w \in Words, NEW g \in Nat
    PROVE  /\ [f EXCEPT !.old = w] \in Frames
           /\ [f EXCEPT !.gen = g] \in Frames
  BY Zenon DEF Frames

(* Leaving wake keeps the types.                                           *)
LEMMA WakeDoneType ==
    ASSUME TypeOK, NEW c \in Cpus, WakeDone(c)
    PROVE  /\ cpu' \in [Cpus -> CpuRecords]
           /\ frame' \in [Cpus -> Frames]
           /\ lock' \in Cpus \cup {None}
  <1>1. "resetObject" \in Pcs
    BY Zenon DEF Pcs, CallPcs
  <1> QED
    BY Zenon, <1>1, GotoType, NextSlotType DEF WakeDone, TypeOK

(* The next word of wake and of request_stop.                              *)
LEMMA NextWordType ==
    ASSUME NEW w \in Words
    PROVE  WakeNext(w) \in Words /\ StopNext(w) \in Words
  BY Zenon, PackType DEF WakeNext, StopNext, Words, States, Pack

(* The rotating cursor stays in the slot table.                            *)
LEMMA CursorType ==
    ASSUME NEW k \in Slots
    PROVE  (k % NumSlots) + 1 \in Slots
  <1>1. k % NumSlots \in 0 .. NumSlots - 1
    BY SlotsAssumption DEF Slots
  <1> QED
    BY <1>1, SlotsAssumption DEF Slots

(* Entering the handler keeps the type of cpu.                             *)
LEMMA TrapType ==
    ASSUME cpu \in [Cpus -> CpuRecords], NEW c \in Cpus, NEW p \in Pcs,
           NEW o \in Outcomes, NEW sys \in BOOLEAN, Trap(c, p, o, sys)
    PROVE  cpu' \in [Cpus -> CpuRecords]
  <1>1. [cpu[c] EXCEPT !.pc = p, !.outcome = o, !.sys = sys] \in CpuRecords
    BY Zenon DEF CpuRecords
  <1> QED
    BY Zenon, <1>1 DEF Trap
-----------------------------------------------------------------------------
(* The type invariant, action by action.                                   *)

(* The pcs by name.                                                        *)
LEMMA PcNames ==
    Pcs = {"run", "save", "finLoad", "finObject", "finDeadline", "finCas",
           "dispatch", "initContext", "resume",
           "waitCheck", "waitClear", "waitDeadline", "waitObject", "waitRecheck",
           "signalObject", "signalWord", "wakeLoad", "wakeDeadline", "wakeObject",
           "wakeCas", "dueWord", "dueDeadline", "dueTake", "dueObject", "dueCas",
           "stopLoad", "stopDeadline", "stopObject", "stopCas",
           "spawnFill", "spawnPublish", "reclaimClear", "reclaimPublish", "freeRoot",
           "resetWord", "resetObject", "resetDeadline",
           "off", "idle", "clear", "scan", "claimCas", "fatal"}
  BY DEF Pcs, TaskPcs, CallPcs, FreePcs

(* Interrupts keep the types.                                              *)
LEMMA InterruptTypes ==
    ASSUME TypeOK, NEW c \in Cpus,
           \/ OnlineCpu(c) \/ TimerInterrupt(c) \/ RescheduleInterrupt(c)
           \/ \E o \in Objects : HardwareInterrupt(c, o)
    PROVE  TypeOK'
  <1>0. \A p \in Pcs : Enter(c, p) => /\ cpu' \in [Cpus -> CpuRecords]
                                      /\ cr3' \in [Cpus -> Handles \cup {None}]
    BY Zenon, TrapType DEF Enter, TypeOK, Outcomes
  <1>1. CASE OnlineCpu(c)
    BY Zenon, <1>1, GotoType, PcNames DEF OnlineCpu, TypeOK, slotVars, taskVars, historyVars,
       envVars
  <1>2. CASE TimerInterrupt(c)
    <2>1. \A d \in Delays \cup {None} : Aged(d) \in Delays \cup {None}
      BY DelayAssumption DEF Aged, Delays
    <2>2. deadline' \in [Slots -> Delays \cup {None}]
      BY <1>2, <2>1 DEF TimerInterrupt, TypeOK
    <2>3. [NoFrame EXCEPT !.op = "due"] \in Frames
      BY Zenon, NoFrameType DEF Frames
    <2>4. \A f \in Frames : [f EXCEPT !.delay = Aged(@)] \in Frames
      BY Zenon, <2>1 DEF Frames
    <2>5. frame' \in [Cpus -> Frames]
      BY ZenonT(90), <1>2, <2>3, <2>4 DEF TimerInterrupt, TypeOK
    <2>6. cpu' \in [Cpus -> CpuRecords] /\ cr3' \in [Cpus -> Handles \cup {None}]
      BY Zenon, <1>0, <1>2, PcNames DEF TimerInterrupt
    <2> QED
      BY Zenon, <1>2, <2>2, <2>5, <2>6 DEF TimerInterrupt, TypeOK, slotVars, taskVars,
         historyVars, envVars
  <1>3. CASE RescheduleInterrupt(c)
    BY Zenon, <1>0, <1>3, PcNames DEF RescheduleInterrupt, TypeOK, slotVars, taskVars,
       historyVars, envVars
  <1>4. CASE \E o \in Objects : HardwareInterrupt(c, o)
    <2>1. PICK o \in Objects : HardwareInterrupt(c, o)
      BY Zenon, <1>4
    <2>2. [NoFrame EXCEPT !.op = "signal", !.obj = o] \in Frames
      BY Zenon, NoFrameType DEF Frames
    <2>3. frame' \in [Cpus -> Frames] /\ ready' \in [Objects -> BOOLEAN]
      BY Zenon, <2>1, <2>2 DEF HardwareInterrupt, TypeOK
    <2> QED
      BY Zenon, <1>0, <2>1, <2>3, PcNames DEF HardwareInterrupt, TypeOK, slotVars, taskVars,
         historyVars, envVars
  <1> QED
    BY Zenon, <1>1, <1>2, <1>3, <1>4

(* System calls keep the types.                                            *)
LEMMA UserTypes ==
    ASSUME TypeOK, TaskInSlot, NEW c \in Cpus, UserStep(c)
    PROVE  TypeOK'
  <1>1. \A p \in Pcs, f \in Frames : Syscall(c, p, f) =>
            /\ cpu' \in [Cpus -> CpuRecords]
            /\ cr3' \in [Cpus -> Handles \cup {None}]
            /\ frame' \in [Cpus -> Frames]
    BY ZenonT(60), TrapType DEF Syscall, TypeOK, Outcomes
  <1>3. ASSUME NEW o \in Objects, NEW d \in (Delays \ {0}) \cup {None}, SyscallWait(c, o, d)
        PROVE  TypeOK'
    <2>1. [NoFrame EXCEPT !.op = "wait", !.obj = o, !.delay = d] \in Frames
      BY Zenon, NoFrameType DEF Frames
    <2>2. CASE ready[o]
      BY ZenonT(60), <1>1, <1>3, <2>2, NoFrameType, PcNames DEF SyscallWait, TypeOK, slotVars,
         taskVars, historyVars, envVars
    <2>3. CASE ~ready[o]
      BY Zenon, <1>1, <1>3, <2>1, <2>3, PcNames DEF SyscallWait, Locked, TypeOK, slotVars,
         taskVars, historyVars, envVars
    <2> QED
      BY Zenon, <2>2, <2>3
  <1>4. ASSUME NEW o \in Objects, SyscallSignal(c, o)
        PROVE  TypeOK'
    <2>1. [NoFrame EXCEPT !.op = "signal", !.obj = o] \in Frames
      BY Zenon, NoFrameType DEF Frames
    <2> QED
      BY Zenon, <1>1, <1>4, <2>1, PcNames DEF SyscallSignal, Locked, TypeOK, slotVars,
         taskVars, historyVars, envVars
  <1>5. CASE SyscallOther(c)
    BY Zenon, <1>1, <1>5, NoFrameType, PcNames DEF SyscallOther, TypeOK, slotVars, taskVars,
       historyVars, envVars
  <1>6. CASE SyscallExit(c)
    <2> DEFINE f == [NoFrame EXCEPT !.op = "stop", !.slot = cpu[c].slot, !.gen = cpu[c].gen]
    <2>1. cpu[c].slot \in Slots
      BY Zenon, <1>6 DEF SyscallExit, RunsUser, At, TypeOK, CpuRecords, TaskInSlot, HasTask,
         TaskPcs
    <2>2. f \in Frames
      BY Zenon, <2>1, NoFrameType DEF TypeOK, CpuRecords, Frames
    <2>3. frame' \in [Cpus -> Frames]
      BY Zenon, <1>6, <2>2 DEF SyscallExit, TypeOK
    <2>4. cpu' \in [Cpus -> CpuRecords]
      BY Zenon, <1>6, TrapType, PcNames DEF SyscallExit, TypeOK, Outcomes
    <2> QED
      BY Zenon, <1>6, <2>3, <2>4 DEF SyscallExit, TypeOK, slotVars, taskVars, historyVars,
         envVars
  <1>7. CASE UserFault(c)
    BY Zenon, <1>7, TrapType, PcNames DEF UserFault, Outcomes, TypeOK, slotVars, taskVars,
       historyVars, envVars
  <1> QED
    BY Zenon, <1>3, <1>4, <1>5, <1>6, <1>7 DEF UserStep

(* What a CPU works on is well typed.                                      *)
LEMMA OperandTypes ==
    ASSUME TypeOK, TaskInSlot, NEW c \in Cpus
    PROVE  /\ frame[c] \in Frames
           /\ frame[c].slot \in Slots /\ frame[c].gen \in Nat /\ frame[c].old \in Words
           /\ frame[c].old.gen \in Nat /\ frame[c].off \in Nat
           /\ frame[c].obj \in Objects \cup {None}
           /\ frame[c].delay \in Delays \cup {None}
           /\ cpu[c].gen \in Nat /\ cpu[c].cursor \in Slots
           /\ \A s \in Slots : state[s] \in Words /\ state[s].gen \in Nat
           /\ cpu[c].slot # 0 => cpu[c].slot \in Slots
           /\ cpu[c].pc \in TaskPcs \ {"save"} => cpu[c].slot \in Slots
  BY Zenon DEF TypeOK, Frames, CpuRecords, Words, TaskInSlot, HasTask

(* The Runtime root task keeps the types.                                  *)
LEMMA RuntimeTypes ==
    ASSUME TypeOK, TaskInSlot, NEW c \in Cpus, RuntimeStep(c)
    PROVE  TypeOK'
  <1>1. ASSUME NEW d \in Delays, KernelSleep(c, d) PROVE TypeOK'
    <2>1. cpu' \in [Cpus -> CpuRecords]
      BY Zenon, <1>1, TrapType, GotoType, PcNames DEF KernelSleep, TypeOK, Outcomes
    <2> QED
      BY Zenon, <1>1, <2>1 DEF KernelSleep, TypeOK, slotVars, taskVars, historyVars, envVars
  <1>2. ASSUME NEW s \in Slots, RuntimeSpawn(c, s) PROVE TypeOK'
    <2> DEFINE f == [NoFrame EXCEPT !.op = "spawn", !.ret = "run", !.slot = s,
                                    !.gen = state[s].gen]
    <2>1. f \in Frames
      BY Zenon, NoFrameType, OperandTypes DEF Frames
    <2>2. cpu' \in [Cpus -> CpuRecords] /\ frame' \in [Cpus -> Frames]
      BY Zenon, <1>2, <2>1, CallType, PcNames DEF RuntimeSpawn
    <2>3. state' \in [Slots -> Words]
      BY Zenon, <1>2, OperandTypes, PackType DEF RuntimeSpawn, TypeOK, States
    <2> QED
      BY Zenon, <1>2, <2>2, <2>3 DEF RuntimeSpawn, Locked, TypeOK, slotVars, taskVars,
         historyVars, envVars
  <1>3. ASSUME NEW h \in held, RuntimeStop(c, h) PROVE TypeOK'
    <2> DEFINE f == [NoFrame EXCEPT !.op = "stop", !.ret = "run", !.slot = h[1],
                                    !.gen = h[2]]
    <2>1. f \in Frames
      BY Zenon, NoFrameType DEF Frames, TypeOK, Handles
    <2>2. cpu' \in [Cpus -> CpuRecords] /\ frame' \in [Cpus -> Frames]
      BY Zenon, <1>3, <2>1, CallType, PcNames DEF RuntimeStop
    <2> QED
      BY Zenon, <1>3, <2>2 DEF RuntimeStop, Locked, TypeOK, slotVars, taskVars, historyVars,
         envVars
  <1>4. ASSUME NEW h \in held, RuntimeReclaim(c, h) PROVE TypeOK'
    <2> DEFINE f == [NoFrame EXCEPT !.op = "reclaim", !.ret = "run", !.slot = h[1],
                                    !.gen = h[2]]
    <2>0. h[1] \in Slots /\ h[2] \in Nat
      BY Zenon DEF TypeOK, Handles
    <2>1. f \in Frames
      BY Zenon, <2>0, NoFrameType DEF Frames
    <2>2. cpu' \in [Cpus -> CpuRecords] /\ frame' \in [Cpus -> Frames]
      BY Zenon, <1>4, <2>1, CallType, PcNames DEF RuntimeReclaim
    <2>3. state' \in [Slots -> Words]
      BY Zenon, <1>4, <2>0, PackType DEF RuntimeReclaim, TypeOK, States
    <2> QED
      BY Zenon, <1>4, <2>2, <2>3 DEF RuntimeReclaim, Locked, TypeOK, slotVars, taskVars,
         historyVars, envVars
  <1>5. CASE RuntimeReset(c)
    <2>1. [NoFrame EXCEPT !.op = "reset", !.ret = "run"] \in Frames
      BY Zenon, NoFrameType DEF Frames
    <2>2. cpu' \in [Cpus -> CpuRecords] /\ frame' \in [Cpus -> Frames]
      BY Zenon, <1>5, <2>1, CallType, PcNames DEF RuntimeReset
    <2> QED
      BY Zenon, <1>5, <2>2 DEF RuntimeReset, Locked, TypeOK, slotVars, taskVars, historyVars,
         envVars
  <1> QED
    BY Zenon, <1>1, <1>2, <1>3, <1>4, <1>5 DEF RuntimeStep

(* The calls into the scheduler keep the types.                            *)
LEMMA CallTypes ==
    ASSUME TypeOK, TaskInSlot, NEW c \in Cpus,
           \/ WaitCheck(c) \/ WaitClear(c) \/ WaitDeadline(c) \/ WaitObject(c)
           \/ WaitRecheck(c) \/ SignalObject(c) \/ SignalWord(c)
           \/ WakeLoad(c) \/ WakeDeadline(c) \/ WakeObject(c) \/ WakeCas(c)
           \/ DueWord(c) \/ DueDeadline(c) \/ DueTake(c) \/ DueObject(c) \/ DueCas(c)
    PROVE  TypeOK'
  <1> USE GotoType, ReturnType, NextSlotType, PcNames
  <1>1. CASE WaitCheck(c)
    BY Zenon, <1>1 DEF WaitCheck, TypeOK, slotVars, taskVars, historyVars, envVars
  <1>2. CASE WaitClear(c)
    BY Zenon, <1>2 DEF WaitClear, TypeOK, slotVars, taskVars, historyVars, envVars
  <1>3. CASE WaitDeadline(c)
    BY Zenon, <1>3, OperandTypes DEF WaitDeadline, TypeOK, slotVars, taskVars, historyVars,
       envVars
  <1>4. CASE WaitObject(c)
    <2>1. cpu' \in [Cpus -> CpuRecords]
      BY ZenonT(60), <1>4, TrapType DEF WaitObject, TypeOK, Outcomes
    <2> QED
      BY Zenon, <1>4, <2>1, OperandTypes DEF WaitObject, TypeOK, slotVars, taskVars,
         historyVars, envVars
  <1>5. CASE WaitRecheck(c)
    <2>1. [NoFrame EXCEPT !.op = "signal", !.obj = frame[c].obj] \in Frames
      BY Zenon, NoFrameType, OperandTypes DEF Frames
    <2> QED
      BY Zenon, <1>5, <2>1, CallType DEF WaitRecheck, TypeOK, slotVars, taskVars,
         historyVars, envVars
  <1>6. CASE SignalObject(c)
    BY Zenon, <1>6 DEF SignalObject, TypeOK, slotVars, taskVars, historyVars, envVars
  <1>7. CASE SignalWord(c)
    BY ZenonT(60), <1>7, OperandTypes, FrameUpdateType, CallType DEF SignalWord, TypeOK, slotVars,
       taskVars, historyVars, envVars
  <1>8. CASE WakeLoad(c)
    <2>1. [frame[c] EXCEPT !.old = state[frame[c].slot]] \in Frames
      BY Zenon, OperandTypes, FrameUpdateType
    <2> QED
      BY Zenon, <1>8, <2>1, CallType, WakeDoneType DEF WakeLoad, TypeOK, slotVars, taskVars,
         historyVars, envVars
  <1>9. CASE WakeDeadline(c)
    BY Zenon, <1>9 DEF WakeDeadline, TypeOK, slotVars, taskVars, historyVars, envVars
  <1>10. CASE WakeObject(c)
    BY ZenonT(60), <1>10, WakeDoneType DEF WakeObject, TypeOK, slotVars, taskVars, historyVars,
       envVars
  <1>11. CASE WakeCas(c)
    <2>1. state' \in [Slots -> Words]
      <3>1. WakeNext(frame[c].old) \in Words /\ state \in [Slots -> Words]
        BY Zenon, OperandTypes, NextWordType DEF TypeOK
      <3>2. \/ state' = [state EXCEPT ![frame[c].slot] = WakeNext(frame[c].old)]
            \/ state' = state
        BY Zenon, <1>11 DEF WakeCas
      <3> QED
        BY Zenon, <3>1, <3>2, StoreType
    <2> QED
      BY Zenon, <1>11, <2>1, WakeDoneType DEF WakeCas, TypeOK, slotVars, taskVars,
         historyVars, envVars
  <1>12. CASE DueWord(c)
    <2>1. [frame[c] EXCEPT !.old = state[frame[c].slot]] \in Frames
      BY Zenon, OperandTypes, FrameUpdateType
    <2> QED
      BY Zenon, <1>12, <2>1, CallType DEF DueWord, TypeOK, slotVars, taskVars, historyVars,
         envVars
  <1>13. CASE DueDeadline(c)
    BY Zenon, <1>13 DEF DueDeadline, TypeOK, slotVars, taskVars, historyVars, envVars
  <1>14. CASE DueTake(c)
    BY Zenon, <1>14 DEF DueTake, TypeOK, slotVars, taskVars, historyVars, envVars
  <1>15. CASE DueObject(c)
    BY ZenonT(60), <1>15 DEF DueObject, TypeOK, slotVars, taskVars, historyVars, envVars
  <1>16. CASE DueCas(c)
    <2>1. state' \in [Slots -> Words]
      BY Zenon, <1>16, OperandTypes, PackType DEF DueCas, TypeOK, Words, States
    <2> QED
      BY Zenon, <1>16, <2>1 DEF DueCas, TypeOK, slotVars, taskVars, historyVars, envVars
  <1> QED
    BY ZenonT(60), <1>1, <1>2, <1>3, <1>4, <1>5, <1>6, <1>7, <1>8, <1>9, <1>10, <1>11, <1>12,
       <1>13, <1>14, <1>15, <1>16

(* Publishing, claiming and dispatching a task keep the types.             *)
LEMMA DispatchTypes ==
    ASSUME TypeOK, TaskInSlot, NEW c \in Cpus,
           \/ Save(c) \/ FinishLoad(c) \/ FinishObject(c) \/ FinishDeadline(c)
           \/ FinishCas(c) \/ ClearCurrent(c) \/ ClaimScan(c) \/ ClaimCas(c)
           \/ Dispatch(c) \/ InitContext(c) \/ Resume(c)
    PROVE  TypeOK'
  <1> USE GotoType, PcNames
  <1>0. ScanOn(c) => cpu' \in [Cpus -> CpuRecords] /\ frame' \in [Cpus -> Frames]
    <2> DEFINE f == [NoFrame EXCEPT !.op = "claim", !.slot = (frame[c].slot % NumSlots) + 1,
                                    !.off = frame[c].off + 1]
    <2>1. (frame[c].slot % NumSlots) + 1 \in Slots /\ frame[c].off + 1 \in Nat
      BY CursorType, OperandTypes
    <2>2. f \in Frames
      BY Zenon, <2>1, NoFrameType DEF Frames
    <2> QED
      BY Zenon, <2>2 DEF ScanOn, TypeOK
  <1>1. CASE Save(c)
    <2>1. cpu[c].slot # 0 => <<cpu[c].slot, cpu[c].gen>> \in Handles
      BY Zenon, OperandTypes DEF Handles
    <2> QED
      BY ZenonT(60), <1>1, <2>1 DEF Save, TypeOK, slotVars, taskVars, historyVars, envVars
  <1>2. CASE FinishLoad(c)
    <2>1. cpu[c].slot \in Slots
      BY Zenon, <1>2, OperandTypes DEF FinishLoad, At, TaskPcs
    <2>2. [NoFrame EXCEPT !.slot = cpu[c].slot, !.old = state[cpu[c].slot]] \in Frames
      BY Zenon, <2>1, NoFrameType, OperandTypes DEF Frames
    <2> QED
      BY Zenon, <1>2, <2>2, CallType DEF FinishLoad, TypeOK, slotVars, taskVars, historyVars,
         envVars
  <1>3. CASE FinishObject(c)
    BY Zenon, <1>3 DEF FinishObject, TypeOK, slotVars, taskVars, historyVars, envVars
  <1>4. CASE FinishDeadline(c)
    BY ZenonT(60), <1>4 DEF FinishDeadline, TypeOK, slotVars, taskVars, historyVars, envVars
  <1>5. CASE FinishCas(c)
    <2>1. FinishNext(frame[c].old, cpu[c].outcome) \in States
      BY Zenon DEF FinishNext, States
    <2>2. state' \in [Slots -> Words]
      <3>1. Pack(cpu[c].gen, FinishNext(frame[c].old, cpu[c].outcome)) \in Words
        BY Zenon, <2>1, OperandTypes, PackType
      <3>2. state \in [Slots -> Words]
        BY Zenon DEF TypeOK
      <3> QED
        BY Zenon, <1>5, <3>1, <3>2 DEF FinishCas
    <2>3. frame' \in [Cpus -> Frames] /\ cpu' \in [Cpus -> CpuRecords]
      BY Zenon, <1>5, NoFrameType DEF FinishCas, TypeOK
    <2>4. want' \in [Slots -> Objects \cup {None}] /\ timed' \in [Slots -> BOOLEAN]
      BY ZenonT(60), <1>5 DEF FinishCas, TypeOK
    <2> QED
      BY Zenon, <1>5, <2>2, <2>3, <2>4 DEF FinishCas, TypeOK, slotVars, taskVars,
         historyVars, envVars
  <1>6. CASE ClearCurrent(c)
    <2>1. cpu' \in [Cpus -> CpuRecords]
      BY <1>6, CursorType, OperandTypes DEF ClearCurrent, TypeOK, CpuRecords, Outcomes
    <2>2. [NoFrame EXCEPT !.op = "claim", !.slot = cpu[c].cursor] \in Frames
      BY Zenon, NoFrameType, OperandTypes DEF Frames
    <2> QED
      BY Zenon, <1>6, <2>1, <2>2 DEF ClearCurrent, TypeOK, slotVars, taskVars, historyVars,
         envVars
  <1>7. CASE ClaimScan(c)
    <2>1. [frame[c] EXCEPT !.old = state[frame[c].slot]] \in Frames
      BY Zenon, OperandTypes, FrameUpdateType
    <2> QED
      BY ZenonT(60), <1>0, <1>7, <2>1, CallType, NoFrameType DEF ClaimScan, TypeOK, slotVars,
         taskVars, historyVars, envVars
  <1>8. CASE ClaimCas(c)
    <2>0. /\ cpu[c] \in CpuRecords /\ "dispatch" \in Pcs
          /\ frame[c].slot \in Slots /\ frame[c].old.gen \in Nat
      BY Zenon, OperandTypes DEF TypeOK
    <2>1. [cpu[c] EXCEPT !.pc = "dispatch", !.slot = frame[c].slot,
                         !.gen = frame[c].old.gen] \in CpuRecords
      BY ONLY Zenon, <2>0 DEF CpuRecords
    <2>2. cpu' \in [Cpus -> CpuRecords] /\ frame' \in [Cpus -> Frames]
      BY Zenon, <1>0, <1>8, <2>1, NoFrameType DEF ClaimCas, TypeOK
    <2>3. state' \in [Slots -> Words]
      <3>1. Pack(frame[c].old.gen, "RUNNING") \in Words
        BY Zenon, <2>0, PackType DEF States
      <3>2. state \in [Slots -> Words]
        BY Zenon DEF TypeOK
      <3>3. \/ state' = [state EXCEPT ![frame[c].slot] = Pack(frame[c].old.gen, "RUNNING")]
            \/ state' = state
        BY Zenon, <1>8 DEF ClaimCas
      <3> QED
        BY Zenon, <3>1, <3>2, <3>3, StoreType
    <2> QED
      BY Zenon, <1>8, <2>2, <2>3 DEF ClaimCas, TypeOK, slotVars, taskVars, historyVars, envVars
  <1>9. CASE Dispatch(c)
    BY Zenon, <1>9 DEF Dispatch, TypeOK, slotVars, taskVars, historyVars, envVars
  <1>10. CASE InitContext(c)
    BY Zenon, <1>10 DEF InitContext, TypeOK, slotVars, taskVars, historyVars, envVars
  <1>11. CASE Resume(c)
    <2>1. <<cpu[c].slot, cpu[c].gen>> \in Handles
      BY Zenon, <1>11, OperandTypes DEF Resume, At, TaskPcs, Handles
    <2> QED
      BY Zenon, <1>11, <2>1 DEF Resume, TypeOK, slotVars, taskVars, historyVars, envVars
  <1> QED
    BY Zenon, <1>1, <1>2, <1>3, <1>4, <1>5, <1>6, <1>7, <1>8, <1>9, <1>10, <1>11

(* Spawning, stopping, reclaiming and resetting keep the types.            *)
LEMMA SupervisionTypes ==
    ASSUME TypeOK, TaskInSlot, NEW c \in Cpus,
           \/ SpawnFill(c) \/ SpawnPublish(c)
           \/ StopLoad(c) \/ StopDeadline(c) \/ StopObject(c) \/ StopCas(c)
           \/ ReclaimClear(c) \/ ReclaimPublish(c) \/ FreeRoot(c)
           \/ ResetWord(c) \/ ResetObject(c) \/ ResetDeadline(c)
    PROVE  TypeOK'
  <1> USE GotoType, ReturnType, NextSlotType, PcNames
  <1>0. <<frame[c].slot, frame[c].gen>> \in Handles
    BY Zenon, OperandTypes DEF Handles
  <1>1. CASE SpawnFill(c)
    BY ZenonT(60), <1>1 DEF SpawnFill, TypeOK, slotVars, taskVars, historyVars, envVars
  <1>2. CASE SpawnPublish(c)
    <2>1. state' \in [Slots -> Words]
      BY ZenonT(60), <1>2, OperandTypes, PackType DEF SpawnPublish, TypeOK, States
    <2>2. held' \in SUBSET Handles
      BY Zenon, <1>0, <1>2 DEF SpawnPublish, TypeOK
    <2> QED
      BY Zenon, <1>2, <2>1, <2>2 DEF SpawnPublish, TypeOK, slotVars, taskVars, historyVars,
         envVars
  <1>3. CASE StopLoad(c)
    <2>1. [frame[c] EXCEPT !.old = state[frame[c].slot]] \in Frames
      BY Zenon, OperandTypes, FrameUpdateType
    <2> QED
      BY Zenon, <1>3, <2>1, CallType DEF StopLoad, TypeOK, slotVars, taskVars, historyVars,
         envVars
  <1>4. CASE StopDeadline(c)
    BY Zenon, <1>4 DEF StopDeadline, TypeOK, slotVars, taskVars, historyVars, envVars
  <1>5. CASE StopObject(c)
    BY ZenonT(60), <1>5 DEF StopObject, TypeOK, slotVars, taskVars, historyVars, envVars
  <1>6. CASE StopCas(c)
    <2>1. state' \in [Slots -> Words]
      <3>1. StopNext(frame[c].old) \in Words
        BY Zenon, OperandTypes, NextWordType
      <3>2. state \in [Slots -> Words]
        BY Zenon DEF TypeOK
      <3> QED
        BY Zenon, <1>6, <3>1, <3>2 DEF StopCas
    <2> QED
      BY Zenon, <1>6, <2>1 DEF StopCas, TypeOK, slotVars, taskVars, historyVars, envVars
  <1>7. CASE ReclaimClear(c)
    BY ZenonT(60), <1>7 DEF ReclaimClear, TypeOK, slotVars, taskVars, historyVars, envVars
  <1>8. CASE ReclaimPublish(c)
    <2>1. NextGeneration(frame[c].gen) \in Nat
      <3>1. frame[c].gen \in Nat
        BY Zenon, OperandTypes
      <3> QED
        BY ONLY <3>1 DEF NextGeneration
    <2>2. state' \in [Slots -> Words]
      BY ZenonT(60), <1>8, <2>1, OperandTypes, PackType DEF ReclaimPublish, TypeOK, States
    <2> QED
      BY Zenon, <1>8, <2>2 DEF ReclaimPublish, TypeOK, slotVars, taskVars, historyVars, envVars
  <1>9. CASE FreeRoot(c)
    <2>1. freed' \in SUBSET Handles /\ held' \in SUBSET Handles
      BY Zenon, <1>0, <1>9 DEF FreeRoot, TypeOK
    <2> QED
      BY Zenon, <1>9, <2>1 DEF FreeRoot, TypeOK, slotVars, taskVars, historyVars, envVars
  <1>10. CASE ResetWord(c)
    BY ZenonT(60), <1>10, OperandTypes, FrameUpdateType, CallType DEF ResetWord, TypeOK, slotVars,
       taskVars, historyVars, envVars
  <1>11. CASE ResetObject(c)
    BY Zenon, <1>11 DEF ResetObject, TypeOK, slotVars, taskVars, historyVars, envVars
  <1>12. CASE ResetDeadline(c)
    BY Zenon, <1>12 DEF ResetDeadline, TypeOK, slotVars, taskVars, historyVars, envVars
  <1> QED
    BY Zenon, <1>1, <1>2, <1>3, <1>4, <1>5, <1>6, <1>7, <1>8, <1>9, <1>10, <1>11, <1>12

(* Every step of the system keeps the types.                               *)
LEMMA NextTypes ==
    ASSUME TypeOK, TaskInSlot, [Next]_vars
    PROVE  TypeOK'
  <1>1. CASE UNCHANGED vars
    BY Zenon, <1>1 DEF vars, TypeOK
  <1>2. ASSUME NEW c \in Cpus, HandlerStep(c) PROVE TypeOK'
    BY Zenon, <1>2, CallTypes, DispatchTypes, SupervisionTypes DEF HandlerStep
  <1> QED
    BY Zenon, <1>1, <1>2, InterruptTypes, UserTypes, RuntimeTypes DEF Next
-----------------------------------------------------------------------------
(* What a step of a CPU leaves alone.                                      *)

(* The other CPUs keep their control state, their locals (but for a delay  *)
(* that a tick ages) and the lock if they hold it.                         *)
Aside(c) ==
    \A d \in Cpus \ {c} : /\ cpu'[d] = cpu[d]
                          /\ frame'[d].slot = frame[d].slot
                          /\ frame'[d].old = frame[d].old
                          /\ frame'[d].ret = frame[d].ret
                          /\ lock = d => lock' = d

(* The CPU itself goes on with the same task at another pc.                *)
MovesTo(c, P) == /\ cpu'[c].pc \in P
                 /\ cpu'[c].slot = cpu[c].slot
                 /\ cpu'[c].gen = cpu[c].gen

(* Goto.                                                                   *)
LEMMA GotoEffect ==
    ASSUME TypeOK, NEW c \in Cpus, NEW p \in Pcs, Goto(c, p)
    PROVE  /\ MovesTo(c, {p})
           /\ \A d \in Cpus \ {c} : cpu'[d] = cpu[d]
  BY Zenon DEF TypeOK, Goto, CpuRecords, MovesTo

(* Trap.                                                                   *)
LEMMA TrapEffect ==
    ASSUME TypeOK, NEW c \in Cpus, NEW p \in Pcs, NEW o, NEW sys, Trap(c, p, o, sys)
    PROVE  /\ MovesTo(c, {p})
           /\ \A d \in Cpus \ {c} : cpu'[d] = cpu[d]
  BY Zenon DEF TypeOK, Trap, CpuRecords, MovesTo

(* Call.                                                                   *)
LEMMA CallEffect ==
    ASSUME TypeOK, NEW c \in Cpus, NEW p \in Pcs, NEW f, Call(c, p, f)
    PROVE  /\ MovesTo(c, {p})
           /\ frame'[c] = f
           /\ \A d \in Cpus \ {c} : cpu'[d] = cpu[d] /\ frame'[d] = frame[d]
  BY Zenon DEF TypeOK, Call, CpuRecords, MovesTo

(* Return.                                                                 *)
LEMMA ReturnEffect ==
    ASSUME TypeOK, NEW c \in Cpus, Return(c)
    PROVE  /\ MovesTo(c, {frame[c].ret}) /\ frame[c].ret \in {"run", "save"}
           /\ Aside(c)
  <1>1. frame[c].ret \in {"run", "save"}
    BY Zenon DEF TypeOK, Frames
  <1>2. MovesTo(c, {frame[c].ret}) /\ \A d \in Cpus \ {c} : cpu'[d] = cpu[d]
    BY Zenon DEF TypeOK, Return, CpuRecords, MovesTo
  <1>3. \A d \in Cpus \ {c} : frame'[d] = frame[d] /\ (lock = d => lock' = d)
    BY Zenon DEF TypeOK, Return
  <1> QED
    BY Zenon, <1>1, <1>2, <1>3 DEF Aside

(* NextSlot: back to the caller, or to the head of the scan.               *)
LEMMA NextSlotEffect ==
    ASSUME TypeOK, NEW c \in Cpus, NextSlot(c)
    PROVE  /\ Aside(c)
           /\ \/ MovesTo(c, {frame[c].ret}) /\ frame[c].ret \in {"run", "save"}
              \/ /\ MovesTo(c, {"signalObject", "dueWord", "resetWord"})
                 /\ frame'[c].ret = frame[c].ret
  <1>1. CASE frame[c].slot = NumSlots
    BY Zenon, <1>1, ReturnEffect DEF NextSlot
  <1>2. CASE frame[c].slot # NumSlots
    <2>1. ScanPc(frame[c].op) \in {"signalObject", "dueWord", "resetWord"}
      BY Zenon DEF ScanPc
    <2>2. /\ MovesTo(c, {ScanPc(frame[c].op)})
          /\ \A d \in Cpus \ {c} : cpu'[d] = cpu[d]
      BY ZenonT(60), <1>2, <2>1, GotoEffect, PcNames DEF NextSlot
    <2> DEFINE f == [NoFrame EXCEPT !.op = frame[c].op, !.ret = frame[c].ret,
                                    !.obj = frame[c].obj, !.slot = frame[c].slot + 1]
    <2>3. frame' = [frame EXCEPT ![c] = f] /\ f.ret = frame[c].ret
      BY Zenon, <1>2 DEF NextSlot, NoFrame
    <2>4. frame'[c].ret = frame[c].ret /\ \A d \in Cpus \ {c} : frame'[d] = frame[d]
      BY Zenon, <2>3 DEF TypeOK
    <2> QED
      BY Zenon, <1>2, <2>1, <2>2, <2>4 DEF NextSlot, Aside, MovesTo
  <1> QED
    BY Zenon, <1>1, <1>2

(* WakeDone: likewise, or on with reset_events.                            *)
LEMMA WakeDoneEffect ==
    ASSUME TypeOK, NEW c \in Cpus, WakeDone(c)
    PROVE  /\ Aside(c)
           /\ \/ MovesTo(c, {frame[c].ret}) /\ frame[c].ret \in {"run", "save"}
              \/ /\ MovesTo(c, {"signalObject", "dueWord", "resetWord", "resetObject"})
                 /\ frame'[c].ret = frame[c].ret
  <1>1. CASE frame[c].op = "reset"
    BY Zenon, <1>1, GotoEffect, PcNames DEF WakeDone, Aside, MovesTo
  <1>2. CASE frame[c].op # "reset"
    BY Zenon, <1>2, NextSlotEffect DEF WakeDone, MovesTo
  <1> QED
    BY Zenon, <1>1, <1>2
-----------------------------------------------------------------------------
(* Steps that take no task and no slot.                                    *)

(* The CPU takes neither a task nor an INITIALIZING slot.                   *)
Quiet(c) ==
    /\ Executing(c)' => /\ Executing(c)
                        /\ cpu'[c].slot = cpu[c].slot /\ cpu'[c].gen = cpu[c].gen
    /\ Claims(c)' => Claims(c) /\ frame'[c].slot = frame[c].slot

(* The pcs at which nothing is known of a word and no slot is claimed.     *)
PlainPcs == {"run", "save", "finLoad", "dispatch", "initContext", "resume",
             "waitCheck", "waitClear", "waitDeadline", "waitObject", "waitRecheck",
             "signalObject", "signalWord", "wakeLoad", "wakeDeadline", "wakeObject",
             "wakeCas", "dueWord", "stopLoad", "freeRoot", "resetWord", "resetObject",
             "resetDeadline", "idle", "clear", "scan", "fatal"}

(* Moving to a plain pc is quiet if the CPU has the task that it needs.    *)
LEMMA QuietMove ==
    ASSUME NEW c \in Cpus, NEW p \in PlainPcs, MovesTo(c, {p}),
           cpu[c].pc # "clear",
           p \in TaskPcs \ {"save"} => cpu[c].slot # 0,
           p \in CallPcs /\ frame'[c].ret = "run" => cpu[c].slot # 0
    PROVE  Quiet(c) /\ Local(c)'
  BY Zenon DEF MovesTo, PlainPcs, Quiet, Executing, Local, HasTask, KnowsWord, Claims

(* Calls: the pcs of scheduler calls, and those of the wait system call.   *)
InCall(c) == cpu[c].pc \in CallPcs \cup {"waitCheck", "waitRecheck"}

(* Returning from a call is quiet.                                         *)
LEMMA QuietReturn ==
    ASSUME TypeOK, NEW c \in Cpus, Local(c), InCall(c), Return(c)
    PROVE  Aside(c) /\ Quiet(c) /\ Local(c)'
  <1>1. /\ Aside(c) /\ frame[c].ret \in {"run", "save"}
        /\ MovesTo(c, {frame[c].ret})
    BY Zenon, ReturnEffect
  <1>2. cpu[c].pc # "clear" /\ (frame[c].ret = "run" => cpu[c].slot # 0)
    BY Zenon, <1>1 DEF InCall, Local, HasTask, CallPcs, TaskPcs
  <1>3. frame[c].ret \in PlainPcs /\ frame[c].ret \notin CallPcs
    BY Zenon, <1>1 DEF PlainPcs, CallPcs
  <1>4. frame[c].ret \in TaskPcs \ {"save"} => cpu[c].slot # 0
    BY Zenon, <1>1, <1>2
  <1> QED
    BY Zenon, <1>1, <1>2, <1>3, <1>4, QuietMove

(* So is going on to the next slot, which keeps the place to return to.    *)
LEMMA QuietNextSlot ==
    ASSUME TypeOK, NEW c \in Cpus, Local(c), cpu[c].pc \in CallPcs,
           NextSlot(c) \/ WakeDone(c)
    PROVE  Aside(c) /\ Quiet(c) /\ Local(c)'
  <1>1. /\ Aside(c)
        /\ \/ MovesTo(c, {frame[c].ret}) /\ frame[c].ret \in {"run", "save"}
           \/ /\ MovesTo(c, {"signalObject", "dueWord", "resetWord", "resetObject"})
              /\ frame'[c].ret = frame[c].ret
    BY Zenon, NextSlotEffect, WakeDoneEffect DEF MovesTo
  <1>2. cpu[c].pc # "clear" /\ (frame[c].ret = "run" => cpu[c].slot # 0)
    BY Zenon DEF Local, HasTask, CallPcs
  <1>3. CASE MovesTo(c, {frame[c].ret}) /\ frame[c].ret \in {"run", "save"}
    <2>1. frame[c].ret \in PlainPcs /\ frame[c].ret \notin CallPcs
      BY Zenon, <1>3 DEF PlainPcs, CallPcs
    <2>2. frame[c].ret \in TaskPcs \ {"save"} => cpu[c].slot # 0
      BY ZenonT(60), <1>2, <1>3
    <2> QED
      BY Zenon, <1>1, <1>2, <1>3, <2>1, <2>2, QuietMove
  <1>4. CASE /\ MovesTo(c, {"signalObject", "dueWord", "resetWord", "resetObject"})
             /\ frame'[c].ret = frame[c].ret
    <2>1. PICK p \in {"signalObject", "dueWord", "resetWord", "resetObject"} : MovesTo(c, {p})
      BY Zenon, <1>4 DEF MovesTo
    <2>2. p \in PlainPcs /\ p \notin TaskPcs
      BY Zenon DEF PlainPcs, TaskPcs
    <2> QED
      BY Zenon, <1>1, <1>2, <1>4, <2>1, <2>2, QuietMove
  <1> QED
    BY Zenon, <1>1, <1>3, <1>4

(* Going to a plain pc with the same locals is quiet.                      *)
LEMMA QuietGoto ==
    ASSUME TypeOK, NEW c \in Cpus, Local(c), NEW p \in PlainPcs,
           Goto(c, p), UNCHANGED <<frame, lock>>, cpu[c].pc # "clear",
           p \in TaskPcs \ {"save"} => cpu[c].slot # 0,
           p \in CallPcs => cpu[c].pc \in CallPcs
    PROVE  Aside(c) /\ Quiet(c) /\ Local(c)'
  <1>1. p \in Pcs
    BY PcNames DEF PlainPcs
  <1>2. MovesTo(c, {p}) /\ \A d \in Cpus \ {c} : cpu'[d] = cpu[d]
    BY Zenon, <1>1, GotoEffect
  <1>3. p \in CallPcs /\ frame'[c].ret = "run" => cpu[c].slot # 0
    BY Zenon DEF Local, HasTask
  <1> QED
    BY Zenon, <1>2, <1>3, QuietMove DEF Aside

(* Entering a call at a plain pc is quiet.                                 *)
LEMMA QuietCall ==
    ASSUME TypeOK, NEW c \in Cpus, Local(c), NEW p \in PlainPcs, NEW f,
           Call(c, p, f), UNCHANGED lock, cpu[c].pc # "clear",
           p \in CallPcs, f.ret = "run" => cpu[c].slot # 0
    PROVE  Aside(c) /\ Quiet(c) /\ Local(c)'
  <1>1. p \in Pcs /\ p \notin TaskPcs
    BY Zenon, PcNames DEF PlainPcs, CallPcs, TaskPcs
  <1>2. /\ MovesTo(c, {p}) /\ frame'[c] = f
        /\ \A d \in Cpus \ {c} : cpu'[d] = cpu[d] /\ frame'[d] = frame[d]
    BY ZenonT(60), <1>1, CallEffect
  <1> QED
    BY Zenon, <1>1, <1>2, QuietMove DEF Aside

(* Storing a word or a generation in the locals changes nothing else.      *)
LEMMA OperandRet ==
    ASSUME TypeOK, NEW c \in Cpus, NEW w, NEW g
    PROVE  /\ [frame[c] EXCEPT !.old = w].old = w
           /\ [frame[c] EXCEPT !.old = w].ret = frame[c].ret
           /\ [frame[c] EXCEPT !.gen = g].ret = frame[c].ret
  BY DEF TypeOK, Frames

(* Waiting, signalling and waking, up to their compare-exchange.           *)
LEMMA QuietCalls ==
    ASSUME TypeOK, NEW c \in Cpus, Local(c),
           \/ WaitCheck(c) \/ WaitClear(c) \/ WaitDeadline(c) \/ WaitObject(c)
           \/ WaitRecheck(c) \/ SignalObject(c) \/ SignalWord(c) \/ WakeLoad(c)
           \/ WakeDeadline(c) \/ WakeObject(c) \/ DueWord(c) \/ DueDeadline(c)
           \/ DueTake(c) \/ DueObject(c)
    PROVE  state' = state /\ Aside(c) /\ Quiet(c) /\ Local(c)'
  <1>1. CASE WaitCheck(c)
    <2>1. CASE state[cpu[c].slot].gen = cpu[c].gen /\ state[cpu[c].slot].st = "RUNNING"
      BY Zenon, <1>1, <2>1, QuietGoto DEF WaitCheck, At, PlainPcs, TaskPcs, CallPcs, InCall,
         Local, HasTask
    <2>2. CASE ~(state[cpu[c].slot].gen = cpu[c].gen /\ state[cpu[c].slot].st = "RUNNING")
      BY Zenon, <1>1, <2>2, QuietReturn DEF WaitCheck, At, PlainPcs, TaskPcs, CallPcs,
         InCall, Local, HasTask
    <2> QED
      BY Zenon, <2>1, <2>2
  <1>2. CASE WaitClear(c)
    BY Zenon, <1>2, QuietGoto DEF WaitClear, At, PlainPcs, TaskPcs, CallPcs, InCall, Local,
       HasTask
  <1>3. CASE WaitDeadline(c)
    BY Zenon, <1>3, QuietGoto DEF WaitDeadline, At, PlainPcs, TaskPcs, CallPcs, InCall,
       Local, HasTask
  <1>4. CASE WaitObject(c)
    <2>1. MovesTo(c, {"waitRecheck"}) /\ \A d \in Cpus \ {c} : cpu'[d] = cpu[d]
      BY ZenonT(60), <1>4, TrapEffect, PcNames DEF WaitObject
    <2> QED
      BY Zenon, <1>4, <2>1, QuietMove DEF WaitObject, Aside, At, PlainPcs, TaskPcs, CallPcs,
         InCall, Local, HasTask
  <1>5. CASE WaitRecheck(c)
    <2>1. CASE ready[frame[c].obj]
      BY Zenon, <1>5, <2>1, QuietCall DEF WaitRecheck, At, PlainPcs, TaskPcs, CallPcs,
         InCall, Local, HasTask, NoFrame
    <2>2. CASE ~(ready[frame[c].obj])
      BY ZenonT(60), <1>5, <2>2, QuietReturn DEF WaitRecheck, At, PlainPcs, TaskPcs, CallPcs,
         InCall, Local, HasTask
    <2> QED
      BY Zenon, <2>1, <2>2
  <1>6. CASE SignalObject(c)
    <2>1. CASE waitObject[frame[c].slot] = frame[c].obj
      BY Zenon, <1>6, <2>1, QuietGoto DEF SignalObject, At, PlainPcs, TaskPcs, CallPcs,
         InCall, Local, HasTask
    <2>2. CASE ~(waitObject[frame[c].slot] = frame[c].obj)
      BY Zenon, <1>6, <2>2, QuietNextSlot DEF SignalObject, At, PlainPcs, TaskPcs, CallPcs,
         InCall, Local, HasTask
    <2> QED
      BY Zenon, <2>1, <2>2
  <1>7. CASE SignalWord(c)
    <2>1. CASE state[frame[c].slot].st \in {"BLOCKED", "RUNNING"}
      <3> DEFINE f == [frame[c] EXCEPT !.gen = state[frame[c].slot].gen]
      <3>1. Call(c, "wakeLoad", f) /\ UNCHANGED <<state, lock>>
        BY Zenon, <1>7, <2>1 DEF SignalWord
      <3>2. f.ret = frame[c].ret
        BY Zenon, OperandRet
      <3> HIDE DEF f
      <3> QED
        BY Zenon, <1>7, <3>1, <3>2, QuietCall DEF SignalWord, At, PlainPcs, TaskPcs, CallPcs,
           InCall, Local, HasTask
    <2>2. CASE ~(state[frame[c].slot].st \in {"BLOCKED", "RUNNING"})
      BY ZenonT(60), <1>7, <2>2, QuietNextSlot DEF SignalWord, At, PlainPcs, TaskPcs, CallPcs,
         InCall, Local, HasTask
    <2> QED
      BY ZenonT(60), <2>1, <2>2
  <1>8. CASE WakeLoad(c)
    <2>1. CASE state[frame[c].slot].gen = frame[c].gen /\ state[frame[c].slot].st \in {"BLOCKED", "RUNNING", "RUNNABLE"}
      <3> DEFINE f == [frame[c] EXCEPT !.old = state[frame[c].slot]]
      <3>1. Call(c, (IF state[frame[c].slot].st = "BLOCKED" THEN "wakeDeadline" ELSE "wakeObject"), f) /\ UNCHANGED <<state, lock>>
        BY Zenon, <1>8, <2>1 DEF WakeLoad
      <3>2. f.ret = frame[c].ret
        BY Zenon, OperandRet
      <3> HIDE DEF f
      <3> QED
        BY ZenonT(60), <1>8, <3>1, <3>2, QuietCall DEF WakeLoad, At, PlainPcs, TaskPcs, CallPcs,
           InCall, Local, HasTask
    <2>2. CASE ~(state[frame[c].slot].gen = frame[c].gen /\ state[frame[c].slot].st \in {"BLOCKED", "RUNNING", "RUNNABLE"})
      BY Zenon, <1>8, <2>2, QuietNextSlot DEF WakeLoad, At, PlainPcs, TaskPcs, CallPcs,
         InCall, Local, HasTask
    <2> QED
      BY Zenon, <2>1, <2>2
  <1>9. CASE WakeDeadline(c)
    BY Zenon, <1>9, QuietGoto DEF WakeDeadline, At, PlainPcs, TaskPcs, CallPcs, InCall,
       Local, HasTask
  <1>10. CASE WakeObject(c)
    <2>1. CASE WakeNext(frame[c].old) = frame[c].old
      BY Zenon, <1>10, <2>1, QuietNextSlot DEF WakeObject, At, PlainPcs, TaskPcs, CallPcs,
         InCall, Local, HasTask
    <2>2. CASE ~(WakeNext(frame[c].old) = frame[c].old)
      BY ZenonT(60), <1>10, <2>2, QuietGoto DEF WakeObject, At, PlainPcs, TaskPcs, CallPcs,
         InCall, Local, HasTask
    <2> QED
      BY Zenon, <2>1, <2>2
  <1>11. CASE DueWord(c)
    <2>1. CASE state[frame[c].slot].st = "BLOCKED"
      <3> DEFINE f == [frame[c] EXCEPT !.old = state[frame[c].slot]]
      <3>1. Call(c, "dueDeadline", f) /\ UNCHANGED <<state, lock>>
        BY Zenon, <1>11, <2>1 DEF DueWord
      <3>2. f.old = state[frame[c].slot] /\ f.ret = frame[c].ret
        BY Zenon, OperandRet
      <3> HIDE DEF f
      <3>3. /\ MovesTo(c, {"dueDeadline"}) /\ frame'[c] = f
            /\ \A d \in Cpus \ {c} : cpu'[d] = cpu[d] /\ frame'[d] = frame[d]
        BY ZenonT(60), <3>1, CallEffect, PcNames
      <3> QED
        BY Zenon, <1>11, <2>1, <3>1, <3>2, <3>3 DEF DueWord, MovesTo, Aside, Quiet,
           Executing, KnowsWord, Claims, At, PlainPcs, TaskPcs, CallPcs, InCall,
           Local, HasTask
    <2>2. CASE ~(state[frame[c].slot].st = "BLOCKED")
      BY Zenon, <1>11, <2>2, QuietNextSlot DEF DueWord, At, PlainPcs, TaskPcs, CallPcs,
         InCall, Local, HasTask
    <2> QED
      BY Zenon, <2>1, <2>2
  <1>12. CASE DueDeadline(c)
    <2>1. CASE deadline[frame[c].slot] = 0
      BY ZenonT(60), <1>12, <2>1, GotoEffect, PcNames DEF DueDeadline, At, PlainPcs, TaskPcs,
         CallPcs, InCall, Local, HasTask, MovesTo, Aside, Quiet, Executing, KnowsWord,
         Claims
    <2>2. CASE ~(deadline[frame[c].slot] = 0)
      BY Zenon, <1>12, <2>2, QuietNextSlot DEF DueDeadline, At, PlainPcs, TaskPcs, CallPcs,
         InCall, Local, HasTask
    <2> QED
      BY Zenon, <2>1, <2>2
  <1>13. CASE DueTake(c)
    <2>1. CASE deadline[frame[c].slot] = 0
      BY ZenonT(60), <1>13, <2>1, GotoEffect, PcNames DEF DueTake, At, PlainPcs, TaskPcs, CallPcs,
         InCall, Local, HasTask, MovesTo, Aside, Quiet, Executing, KnowsWord, Claims
    <2>2. CASE ~(deadline[frame[c].slot] = 0)
      BY Zenon, <1>13, <2>2, QuietNextSlot DEF DueTake, At, PlainPcs, TaskPcs, CallPcs,
         InCall, Local, HasTask
    <2> QED
      BY Zenon, <2>1, <2>2
  <1>14. CASE DueObject(c)
    BY ZenonT(60), <1>14, GotoEffect, PcNames DEF DueObject, MovesTo, Aside, Quiet, Executing,
       KnowsWord, Claims, At, PlainPcs, TaskPcs, CallPcs, InCall, Local, HasTask
  <1> QED
    BY Zenon, <1>1, <1>2, <1>3, <1>4, <1>5, <1>6, <1>7, <1>8, <1>9, <1>10, <1>11, <1>12,
       <1>13, <1>14

(* Stopping, spawning, reclaiming and resetting, likewise.                 *)
LEMMA QuietSupervision ==
    ASSUME TypeOK, NEW c \in Cpus, Local(c),
           \/ StopLoad(c) \/ StopDeadline(c) \/ StopObject(c) \/ ResetWord(c)
           \/ ResetObject(c) \/ ResetDeadline(c) \/ SpawnFill(c) \/ ReclaimClear(c)
           \/ FreeRoot(c)
    PROVE  state' = state /\ Aside(c) /\ Quiet(c) /\ Local(c)'
  <1>1. CASE StopLoad(c)
    <2>1. CASE state[frame[c].slot].gen = frame[c].gen /\ state[frame[c].slot].st \in {"RUNNING", "RUNNABLE", "BLOCKED"}
      <3> DEFINE f == [frame[c] EXCEPT !.old = state[frame[c].slot]]
      <3>1. Call(c, "stopDeadline", f) /\ UNCHANGED <<state, lock>>
        BY Zenon, <1>1, <2>1 DEF StopLoad
      <3>2. f.old = state[frame[c].slot] /\ f.ret = frame[c].ret
        BY Zenon, OperandRet
      <3> HIDE DEF f
      <3>3. /\ MovesTo(c, {"stopDeadline"}) /\ frame'[c] = f
            /\ \A d \in Cpus \ {c} : cpu'[d] = cpu[d] /\ frame'[d] = frame[d]
        BY ZenonT(90), <3>1, CallEffect, PcNames
      <3> QED
        BY Zenon, <1>1, <2>1, <3>1, <3>2, <3>3 DEF StopLoad, MovesTo, Aside, Quiet,
           Executing, KnowsWord, Claims, At, PlainPcs, TaskPcs, CallPcs, InCall,
           Local, HasTask
    <2>2. CASE ~(state[frame[c].slot].gen = frame[c].gen /\ state[frame[c].slot].st \in {"RUNNING", "RUNNABLE", "BLOCKED"})
      BY Zenon, <1>1, <2>2, QuietReturn DEF StopLoad, At, PlainPcs, TaskPcs, CallPcs, InCall,
         Local, HasTask
    <2> QED
      BY Zenon, <2>1, <2>2
  <1>2. CASE StopDeadline(c)
    BY ZenonT(60), <1>2, GotoEffect, PcNames DEF StopDeadline, MovesTo, Aside, Quiet, Executing,
       KnowsWord, Claims, At, PlainPcs, TaskPcs, CallPcs, InCall, Local, HasTask
  <1>3. CASE StopObject(c)
    BY ZenonT(60), <1>3, GotoEffect, PcNames DEF StopObject, MovesTo, Aside, Quiet, Executing,
       KnowsWord, Claims, At, PlainPcs, TaskPcs, CallPcs, InCall, Local, HasTask
  <1>4. CASE ResetWord(c)
    <2>1. CASE state[frame[c].slot].st = "BLOCKED"
      <3> DEFINE f == [frame[c] EXCEPT !.gen = state[frame[c].slot].gen]
      <3>1. Call(c, "wakeLoad", f) /\ UNCHANGED <<state, lock>>
        BY Zenon, <1>4, <2>1 DEF ResetWord
      <3>2. f.ret = frame[c].ret
        BY Zenon, OperandRet
      <3> HIDE DEF f
      <3> QED
        BY Zenon, <1>4, <3>1, <3>2, QuietCall DEF ResetWord, At, PlainPcs, TaskPcs, CallPcs,
           InCall, Local, HasTask
    <2>2. CASE ~(state[frame[c].slot].st = "BLOCKED")
      BY Zenon, <1>4, <2>2, QuietGoto DEF ResetWord, At, PlainPcs, TaskPcs, CallPcs, InCall,
         Local, HasTask
    <2> QED
      BY ZenonT(60), <2>1, <2>2
  <1>5. CASE ResetObject(c)
    BY Zenon, <1>5, QuietGoto DEF ResetObject, At, PlainPcs, TaskPcs, CallPcs, InCall, Local,
       HasTask
  <1>6. CASE ResetDeadline(c)
    BY Zenon, <1>6, QuietNextSlot DEF ResetDeadline, At, PlainPcs, TaskPcs, CallPcs, InCall,
       Local, HasTask
  <1>7. CASE SpawnFill(c)
    BY ZenonT(60), <1>7, GotoEffect, PcNames DEF SpawnFill, MovesTo, Aside, Quiet, Executing,
       KnowsWord, Claims, At, PlainPcs, TaskPcs, CallPcs, InCall, Local, HasTask
  <1>8. CASE ReclaimClear(c)
    BY ZenonT(60), <1>8, GotoEffect, PcNames DEF ReclaimClear, MovesTo, Aside, Quiet, Executing,
       KnowsWord, Claims, At, PlainPcs, TaskPcs, CallPcs, InCall, Local, HasTask
  <1>9. CASE FreeRoot(c)
    BY Zenon, <1>9, QuietReturn DEF FreeRoot, At, PlainPcs, TaskPcs, CallPcs, InCall, Local,
       HasTask
  <1> QED
    BY Zenon, <1>1, <1>2, <1>3, <1>4, <1>5, <1>6, <1>7, <1>8, <1>9

(* Publishing and dispatching a task, likewise.                            *)
LEMMA QuietDispatch ==
    ASSUME TypeOK, NEW c \in Cpus, Local(c),
           \/ Save(c) \/ FinishLoad(c) \/ FinishObject(c) \/ FinishDeadline(c)
           \/ ClaimScan(c) \/ Dispatch(c) \/ InitContext(c) \/ Resume(c)
    PROVE  state' = state /\ Aside(c) /\ Quiet(c) /\ Local(c)'
  <1>1. CASE Save(c)
    <2>1. CASE cpu[c].slot = 0
      BY Zenon, <1>1, <2>1, QuietGoto DEF Save, At, PlainPcs, TaskPcs, CallPcs, InCall,
         Local, HasTask
    <2>2. CASE cpu[c].slot # 0
      BY ZenonT(60), <1>1, <2>2, QuietGoto DEF Save, At, PlainPcs, TaskPcs, CallPcs, InCall,
         Local, HasTask
    <2> QED
      BY Zenon, <2>1, <2>2
  <1>2. CASE FinishLoad(c)
    <2>1. CASE ctxSaved[cpu[c].slot] /\ state[cpu[c].slot].gen = cpu[c].gen /\ Owned(state[cpu[c].slot])
      <3> DEFINE f == [NoFrame EXCEPT !.slot = cpu[c].slot, !.old = state[cpu[c].slot]]
      <3>1. Call(c, "finObject", f) /\ UNCHANGED <<state, lock>>
        BY Zenon, <1>2, <2>1 DEF FinishLoad
      <3>2. f.slot = cpu[c].slot /\ f.ret = "save"
        BY ZenonT(60) DEF NoFrame
      <3> HIDE DEF f
      <3>3. /\ MovesTo(c, {"finObject"}) /\ frame'[c] = f
            /\ \A d \in Cpus \ {c} : cpu'[d] = cpu[d] /\ frame'[d] = frame[d]
        BY <3>1, CallEffect, PcNames
      <3> QED
        BY Zenon, <1>2, <2>1, <3>1, <3>2, <3>3 DEF FinishLoad, MovesTo, Aside, Quiet,
           Executing, KnowsWord, Claims, At, PlainPcs, TaskPcs, CallPcs, InCall,
           Local, HasTask
    <2>2. CASE ~(ctxSaved[cpu[c].slot] /\ state[cpu[c].slot].gen = cpu[c].gen /\ Owned(state[cpu[c].slot]))
      BY Zenon, <1>2, <2>2, QuietGoto DEF FinishLoad, At, PlainPcs, TaskPcs, CallPcs, InCall,
         Local, HasTask
    <2> QED
      BY Zenon, <2>1, <2>2
  <1>3. CASE FinishObject(c)
    BY ZenonT(60), <1>3, GotoEffect, PcNames DEF FinishObject, MovesTo, Aside, Quiet, Executing,
       KnowsWord, Claims, At, PlainPcs, TaskPcs, CallPcs, InCall, Local, HasTask
  <1>4. CASE FinishDeadline(c)
    BY ZenonT(60), <1>4, GotoEffect, PcNames DEF FinishDeadline, MovesTo, Aside, Quiet, Executing,
       KnowsWord, Claims, At, PlainPcs, TaskPcs, CallPcs, InCall, Local, HasTask
  <1>5. CASE ClaimScan(c)
    <2>0. state' = state /\ lock' = lock /\ cpu[c].pc = "scan"
      BY Zenon, <1>5 DEF ClaimScan, At
    <2>1. CASE Goto(c, "idle") /\ frame' = [frame EXCEPT ![c] = NoFrame]
      BY ZenonT(60), <2>0, <2>1, GotoEffect, PcNames DEF MovesTo, Aside, Quiet, Executing,
         KnowsWord, Claims, TypeOK, At, PlainPcs, TaskPcs, CallPcs, InCall, Local,
         HasTask
    <2>2. CASE /\ Call(c, "claimCas", [frame[c] EXCEPT !.old = state[frame[c].slot]])
               /\ state[frame[c].slot].st = "RUNNABLE"
      <3> DEFINE f == [frame[c] EXCEPT !.old = state[frame[c].slot]]
      <3>1. Call(c, "claimCas", f) /\ f.old = state[frame[c].slot]
        BY Zenon, <2>2, OperandRet
      <3> HIDE DEF f
      <3>2. /\ MovesTo(c, {"claimCas"}) /\ frame'[c] = f
            /\ \A d \in Cpus \ {c} : cpu'[d] = cpu[d] /\ frame'[d] = frame[d]
        BY ZenonT(40), <3>1, CallEffect, PcNames
      <3> QED
        BY Zenon, <2>0, <2>2, <3>1, <3>2 DEF MovesTo, Aside, Quiet, Executing, KnowsWord,
           Claims, At, PlainPcs, TaskPcs, CallPcs, InCall, Local, HasTask
    <2>3. CASE ScanOn(c)
      BY <2>0, <2>3, GotoEffect, PcNames DEF ScanOn, MovesTo, Aside, Quiet, Executing,
         KnowsWord, Claims, TypeOK, At, PlainPcs, TaskPcs, CallPcs, InCall, Local,
         HasTask
    <2> QED
      BY Zenon, <1>5, <2>1, <2>2, <2>3 DEF ClaimScan
  <1>6. CASE Dispatch(c)
    BY Zenon, <1>6, QuietGoto DEF Dispatch, At, PlainPcs, TaskPcs, CallPcs, InCall, Local,
       HasTask
  <1>7. CASE InitContext(c)
    BY Zenon, <1>7, QuietGoto DEF InitContext, At, PlainPcs, TaskPcs, CallPcs, InCall, Local,
       HasTask
  <1>8. CASE Resume(c)
    BY Zenon, <1>8, QuietGoto DEF Resume, At, PlainPcs, TaskPcs, CallPcs, InCall, Local,
       HasTask
  <1> QED
    BY ZenonT(60), <1>1, <1>2, <1>3, <1>4, <1>5, <1>6, <1>7, <1>8

(* Entering the handler at a plain pc with new locals.                     *)
LEMMA QuietTrap ==
    ASSUME TypeOK, NEW c \in Cpus, Local(c), NEW p \in PlainPcs, NEW o, NEW sys, NEW f,
           Trap(c, p, o, sys), frame' = [frame EXCEPT ![c] = f],
           \A d \in Cpus \ {c} : lock = d => lock' = d,
           cpu[c].pc # "clear", p \in TaskPcs \ {"save"} => cpu[c].slot # 0,
           f.ret = "save"
    PROVE  Aside(c) /\ Quiet(c) /\ Local(c)'
  <1>1. p \in Pcs
    BY PcNames DEF PlainPcs
  <1>2. MovesTo(c, {p}) /\ \A d \in Cpus \ {c} : cpu'[d] = cpu[d]
    BY Zenon, <1>1, TrapEffect
  <1>3. frame'[c] = f /\ \A d \in Cpus \ {c} : frame'[d] = frame[d]
    BY Zenon DEF TypeOK
  <1> QED
    BY Zenon, <1>2, <1>3, QuietMove DEF Aside

(* Interrupts.                                                             *)
LEMMA QuietInterrupts ==
    ASSUME TypeOK, NEW c \in Cpus, Local(c),
           \/ OnlineCpu(c) \/ TimerInterrupt(c) \/ RescheduleInterrupt(c)
           \/ \E o \in Objects : HardwareInterrupt(c, o)
    PROVE  state' = state /\ Aside(c) /\ Quiet(c) /\ Local(c)'
  <1>1. CASE OnlineCpu(c)
    BY Zenon, <1>1, QuietGoto DEF OnlineCpu, At, PlainPcs, TaskPcs, CallPcs, InCall, Local,
       HasTask
  <1>2. CASE TimerInterrupt(c)
    <2>1. CASE c = Bsp
      <3>1. MovesTo(c, {"dueWord"}) /\ \A d \in Cpus \ {c} : cpu'[d] = cpu[d]
        BY Zenon, <1>2, <2>1, TrapEffect, PcNames DEF TimerInterrupt, Enter
      <3>2. frame'[c].ret = "save"
        BY Zenon, <1>2, <2>1 DEF TimerInterrupt, NoFrame
      <3>3. \A d \in Cpus \ {c} : /\ frame'[d].slot = frame[d].slot
                                   /\ frame'[d].old = frame[d].old
                                   /\ frame'[d].ret = frame[d].ret
        BY <1>2, <2>1 DEF TimerInterrupt, TypeOK, Frames
      <3>4. Quiet(c) /\ Local(c)'
        BY Zenon, <1>2, <3>1, <3>2, QuietMove DEF TimerInterrupt, Interruptible, PlainPcs,
           TaskPcs
      <3> QED
        BY Zenon, <1>2, <3>1, <3>3, <3>4 DEF TimerInterrupt, Aside
    <2>2. CASE c # Bsp
      <3>1. MovesTo(c, {"save"}) /\ \A d \in Cpus \ {c} : cpu'[d] = cpu[d]
        BY Zenon, <1>2, <2>2, TrapEffect, PcNames DEF TimerInterrupt, Enter
      <3> QED
        BY Zenon, <1>2, <2>2, <3>1, QuietMove DEF TimerInterrupt, Interruptible, Aside,
           PlainPcs, CallPcs
    <2> QED
      BY Zenon, <2>1, <2>2
  <1>3. CASE RescheduleInterrupt(c)
    <2>1. MovesTo(c, {"save"}) /\ \A d \in Cpus \ {c} : cpu'[d] = cpu[d]
      BY Zenon, <1>3, TrapEffect, PcNames DEF RescheduleInterrupt, Enter
    <2> QED
      BY Zenon, <1>3, <2>1, QuietMove DEF RescheduleInterrupt, Interruptible, Aside,
         PlainPcs, CallPcs
  <1>4. CASE \E o \in Objects : HardwareInterrupt(c, o)
    <2>1. PICK o \in Objects : HardwareInterrupt(c, o)
      BY Zenon, <1>4
    <2> DEFINE f == [NoFrame EXCEPT !.op = "signal", !.obj = o]
    <2>2. f.ret = "save"
      BY Zenon DEF NoFrame
    <2>3. /\ Trap(c, "signalObject", "Runnable", FALSE) /\ frame' = [frame EXCEPT ![c] = f]
          /\ UNCHANGED <<state, lock>> /\ cpu[c].pc \in {"idle", "run"}
      BY Zenon, <2>1 DEF HardwareInterrupt, Enter, Interruptible
    <2> HIDE DEF f
    <2>4. "signalObject" \in PlainPcs /\ "signalObject" \notin TaskPcs
      BY Zenon DEF PlainPcs, TaskPcs
    <2> QED
      BY Zenon, <2>2, <2>3, <2>4, QuietTrap
  <1> QED
    BY Zenon, <1>1, <1>2, <1>3, <1>4

(* System calls.                                                           *)
LEMMA QuietUser ==
    ASSUME TypeOK, NEW c \in Cpus, Local(c), UserStep(c)
    PROVE  state' = state /\ Aside(c) /\ Quiet(c) /\ Local(c)'
  <1>1. cpu[c].pc = "run" /\ cpu[c].slot # 0
    BY Zenon DEF UserStep, SyscallWait, SyscallSignal, SyscallOther, SyscallExit, UserFault,
           Syscall, RunsUser, At, Local, HasTask, TaskPcs
  <1>2. ASSUME NEW o \in Objects, NEW d \in (Delays \ {0}) \cup {None}, SyscallWait(c, o, d)
        PROVE  state' = state /\ Aside(c) /\ Quiet(c) /\ Local(c)'
    <2>1. CASE ready[o]
      <3>1. NoFrame.ret = "save"
        BY Zenon DEF NoFrame
      <3> QED
        BY Zenon, <1>1, <1>2, <2>1, <3>1, QuietTrap DEF SyscallWait, Syscall, PlainPcs
    <2>2. CASE ~ready[o]
      <3> DEFINE f == [NoFrame EXCEPT !.op = "wait", !.obj = o, !.delay = d]
      <3>1. f.ret = "save"
        BY Zenon DEF NoFrame
      <3>2. /\ Trap(c, "waitCheck", "Runnable", TRUE) /\ frame' = [frame EXCEPT ![c] = f]
            /\ state' = state /\ lock = None
        BY Zenon, <1>2, <2>2 DEF SyscallWait, Syscall, Locked
      <3> HIDE DEF f
      <3> QED
        BY Zenon, <1>1, <3>1, <3>2, QuietTrap, NoneAssumption DEF PlainPcs
    <2> QED
      BY Zenon, <2>1, <2>2
  <1>3. ASSUME NEW o \in Objects, SyscallSignal(c, o)
        PROVE  state' = state /\ Aside(c) /\ Quiet(c) /\ Local(c)'
    <2> DEFINE f == [NoFrame EXCEPT !.op = "signal", !.obj = o]
    <2>1. f.ret = "save"
      BY Zenon DEF NoFrame
    <2>2. /\ Trap(c, "signalObject", "Runnable", TRUE) /\ frame' = [frame EXCEPT ![c] = f]
          /\ state' = state /\ lock = None
      BY Zenon, <1>3 DEF SyscallSignal, Syscall, Locked
    <2> HIDE DEF f
    <2> QED
      BY Zenon, <1>1, <2>1, <2>2, QuietTrap, NoneAssumption DEF PlainPcs
  <1>4. CASE SyscallOther(c)
    <2>1. NoFrame.ret = "save"
      BY Zenon DEF NoFrame
    <2> QED
      BY Zenon, <1>1, <1>4, <2>1, QuietTrap DEF SyscallOther, Syscall, PlainPcs
  <1>5. CASE SyscallExit(c)
    <2> DEFINE f == [NoFrame EXCEPT !.op = "stop", !.slot = cpu[c].slot, !.gen = cpu[c].gen]
    <2>1. f.ret = "save"
      BY Zenon DEF NoFrame
    <2>2. /\ Trap(c, "stopLoad", "Runnable", FALSE) /\ frame' = [frame EXCEPT ![c] = f]
          /\ UNCHANGED <<state, lock>>
      BY ZenonT(60), <1>5 DEF SyscallExit
    <2> HIDE DEF f
    <2> QED
      BY Zenon, <1>1, <2>1, <2>2, QuietTrap DEF PlainPcs
  <1>6. CASE UserFault(c)
    <2>1. MovesTo(c, {"save"}) /\ \A d \in Cpus \ {c} : cpu'[d] = cpu[d]
      BY Zenon, <1>6, TrapEffect, PcNames DEF UserFault
    <2> QED
      BY Zenon, <1>1, <1>6, <2>1, QuietMove DEF UserFault, Aside, PlainPcs, CallPcs
  <1> QED
    BY Zenon, <1>2, <1>3, <1>4, <1>5, <1>6 DEF UserStep

(* The Runtime root task, but for its spawns and reclaims.                 *)
LEMMA QuietRuntime ==
    ASSUME TypeOK, NEW c \in Cpus, Local(c),
           \/ \E d \in Delays : KernelSleep(c, d)
           \/ \E h \in held : RuntimeStop(c, h)
           \/ RuntimeReset(c)
    PROVE  state' = state /\ Aside(c) /\ Quiet(c) /\ Local(c)'
  <1>1. cpu[c].pc = "run" /\ cpu[c].slot # 0
    BY ZenonT(60) DEF KernelSleep, RuntimeStop, RuntimeReset, RunsKernel, At, Local, HasTask,
       TaskPcs
  <1>2. \A f : \A p \in Pcs : lock = None /\ Call(c, p, f) => Aside(c) /\ MovesTo(c, {p})
    BY Zenon, CallEffect, NoneAssumption DEF Aside
  <1>3. ASSUME NEW d \in Delays, KernelSleep(c, d)
        PROVE  state' = state /\ Aside(c) /\ Quiet(c) /\ Local(c)'
    <2>1. PICK p \in {"save", "fatal"} : /\ MovesTo(c, {p})
                                         /\ \A e \in Cpus \ {c} : cpu'[e] = cpu[e]
      BY ZenonT(60), <1>3, TrapEffect, GotoEffect, PcNames DEF KernelSleep
    <2> QED
      BY Zenon, <1>1, <1>3, <2>1, QuietMove DEF KernelSleep, Aside, PlainPcs, CallPcs
  <1>4. ASSUME NEW h \in held, RuntimeStop(c, h)
        PROVE  state' = state /\ Aside(c) /\ Quiet(c) /\ Local(c)'
    <2>1. Aside(c) /\ MovesTo(c, {"stopLoad"})
      BY ZenonT(60), <1>2, <1>4, PcNames DEF RuntimeStop, Locked
    <2> QED
      BY Zenon, <1>1, <1>4, <2>1, QuietMove DEF RuntimeStop, PlainPcs
  <1>5. CASE RuntimeReset(c)
    <2>1. Aside(c) /\ MovesTo(c, {"resetWord"})
      BY ZenonT(60), <1>2, <1>5, PcNames DEF RuntimeReset, Locked
    <2> QED
      BY Zenon, <1>1, <1>5, <2>1, QuietMove DEF RuntimeReset, PlainPcs
  <1> QED
    BY Zenon, <1>3, <1>4, <1>5
-----------------------------------------------------------------------------
(* Exclusive execution.                                                    *)

(* A step that takes no task and no slot preserves the invariant if every  *)
(* word of an executing task stays owned in its generation and every slot  *)
(* that is being filled or cleared stays INITIALIZING.                     *)
LEMMA QuietPreserves ==
    ASSUME IInv, TypeOK', NEW c \in Cpus, Aside(c), Quiet(c), Local(c)',
           \A s \in Slots : /\ Owned(state[s]) => /\ Owned(state'[s])
                                                  /\ state'[s].gen = state[s].gen
                            /\ state[s].st = "INITIALIZING"
                               => state'[s].st = "INITIALIZING"
    PROVE  IInv'
  <1>1. ASSUME NEW d \in Cpus PROVE Local(d)'
    <2>1. CASE d # c
      BY <2>1 DEF IInv, Local, HasTask, KnowsWord, Claims, Aside
    <2> QED
      BY ZenonT(60), <2>1
  <1>2. \A d \in Cpus : Executing(d)' => /\ Executing(d)
                                        /\ cpu'[d].slot = cpu[d].slot
                                        /\ cpu'[d].gen = cpu[d].gen
    BY ZenonT(60) DEF Quiet, Aside, Executing
  <1>3. \A d \in Cpus : Executing(d) => cpu[d].slot \in Slots
    BY Zenon DEF IInv, TypeOK, CpuRecords, Executing
  <1>4. ExclusiveExecution'
    <2>1. ASSUME NEW d \in Cpus, Executing(d)'
          PROVE  state'[cpu'[d].slot].gen = cpu'[d].gen /\ Owned(state'[cpu'[d].slot])
      <3>1. /\ Executing(d) /\ cpu[d].slot \in Slots
            /\ cpu'[d].slot = cpu[d].slot /\ cpu'[d].gen = cpu[d].gen
        BY Zenon, <1>2, <1>3, <2>1
      <3>2. state[cpu[d].slot].gen = cpu[d].gen /\ Owned(state[cpu[d].slot])
        BY ZenonT(60), <3>1 DEF IInv, ExclusiveExecution
      <3> QED
        BY Zenon, <3>1, <3>2
    <2>2. ASSUME NEW d \in Cpus, NEW e \in Cpus \ {d}, Executing(d)', Executing(e)'
          PROVE  cpu'[d].slot # cpu'[e].slot
      <3>1. /\ Executing(d) /\ cpu'[d].slot = cpu[d].slot
            /\ Executing(e) /\ cpu'[e].slot = cpu[e].slot
        BY Zenon, <1>2, <2>2
      <3> QED
        BY ZenonT(60), <3>1 DEF IInv, ExclusiveExecution
    <2> QED
      BY Zenon, <2>1, <2>2 DEF ExclusiveExecution
  <1>5. \A d \in Cpus : Claims(d)' => Claims(d) /\ frame'[d].slot = frame[d].slot
    BY Zenon DEF Quiet, Aside, Claims
  <1>6. \A d \in Cpus : frame[d].slot \in Slots
    BY Zenon DEF IInv, TypeOK, Frames
  <1>7. InitializingHeld'
    BY Zenon, <1>5, <1>6 DEF IInv, InitializingHeld
  <1> QED
    BY Zenon, <1>1, <1>4, <1>7 DEF IInv

(* The compare-exchanges of wake, wake_due and request_stop.               *)
LEMMA CasSteps ==
    ASSUME IInv, TypeOK', NEW c \in Cpus, WakeCas(c) \/ DueCas(c) \/ StopCas(c)
    PROVE  IInv'
  <1> DEFINE s == frame[c].slot
             old == frame[c].old
  <1>0. /\ TypeOK /\ Local(c) /\ s \in Slots /\ old \in Words /\ old.gen \in Nat
        /\ state \in [Slots -> Words]
    BY Zenon DEF IInv, TypeOK, Frames, Words
  <1>1. CASE WakeCas(c)
    <2>1. cpu[c].pc = "wakeCas" /\ "wakeCas" \in CallPcs /\ "wakeCas" # "clear"
      BY Zenon, <1>1 DEF WakeCas, At, CallPcs
    <2>2. Aside(c) /\ Quiet(c) /\ Local(c)'
      <3>1. "wakeLoad" \in PlainPcs /\ "wakeLoad" \notin TaskPcs
        BY Zenon DEF PlainPcs, TaskPcs
      <3> QED
        BY Zenon, <1>0, <1>1, <2>1, <3>1, QuietNextSlot, QuietGoto DEF WakeCas
    <2>3. \A t \in Slots : state'[t] = IF Compare(c) /\ t = s THEN WakeNext(old) ELSE state[t]
      BY Zenon, <1>0, <1>1 DEF WakeCas
    <2>4. /\ Owned(old) => Owned(WakeNext(old)) /\ WakeNext(old).gen = old.gen
          /\ old.st = "INITIALIZING" => WakeNext(old).st = "INITIALIZING"
      BY Zenon, <1>0 DEF Owned, WakeNext, Words
    <2> QED
      BY Zenon, <2>2, <2>3, <2>4, QuietPreserves DEF Compare
  <1>2. CASE DueCas(c)
    <2>1. cpu[c].pc = "dueCas" /\ "dueCas" \in CallPcs /\ old.st = "BLOCKED"
      BY Zenon, <1>0, <1>2 DEF DueCas, At, CallPcs, Local, KnowsWord
    <2>2. Aside(c) /\ Quiet(c) /\ Local(c)'
      BY ZenonT(60), <1>0, <1>2, <2>1, QuietNextSlot DEF DueCas
    <2>3. \A t \in Slots : state'[t] = state[t] \/ (state[t] = old)
      BY Zenon, <1>0, <1>2 DEF DueCas, Compare
    <2>4. ~Owned(old) /\ old.st # "INITIALIZING"
      BY Zenon, <2>1 DEF Owned
    <2> QED
      BY Zenon, <2>2, <2>3, <2>4, QuietPreserves
  <1>3. CASE StopCas(c)
    <2>1. /\ cpu[c].pc = "stopCas" /\ "stopCas" \in CallPcs /\ "stopCas" # "clear"
          /\ old.st \in {"RUNNING", "RUNNABLE", "BLOCKED"}
      BY Zenon, <1>0, <1>3 DEF StopCas, At, CallPcs, Local, KnowsWord
    <2>2. Aside(c) /\ Quiet(c) /\ Local(c)'
      <3>1. "stopLoad" \in PlainPcs /\ "stopLoad" \notin TaskPcs
        BY Zenon DEF PlainPcs, TaskPcs
      <3> QED
        BY Zenon, <1>0, <1>3, <2>1, <3>1, QuietReturn, QuietGoto DEF StopCas, InCall
    <2>3. \A t \in Slots : state'[t] = IF Compare(c) /\ t = s THEN StopNext(old) ELSE state[t]
      BY ZenonT(60), <1>0, <1>3 DEF StopCas
    <2>4. /\ Owned(old) => Owned(StopNext(old)) /\ StopNext(old).gen = old.gen
          /\ old.st # "INITIALIZING"
      BY Zenon, <1>0, <2>1 DEF Owned, StopNext, Pack
    <2> QED
      BY Zenon, <2>2, <2>3, <2>4, QuietPreserves DEF Compare
  <1> QED
    BY Zenon, <1>1, <1>2, <1>3

(* clear_current gives up nothing that finish has not given up.            *)
LEMMA ClearStep ==
    ASSUME IInv, TypeOK', NEW c \in Cpus, ClearCurrent(c)
    PROVE  IInv'
  <1>1. /\ cpu'[c].pc = "scan" /\ cpu'[c].slot = 0
        /\ \A d \in Cpus \ {c} : cpu'[d] = cpu[d] /\ frame'[d] = frame[d]
        /\ UNCHANGED <<state, lock>>
    BY Zenon DEF ClearCurrent, IInv, TypeOK
  <1>2. Aside(c) /\ Quiet(c)
    BY Zenon, <1>1 DEF Aside, Quiet, Executing, Claims
  <1>3. Local(c)'
    BY Zenon, <1>1 DEF Local, HasTask, KnowsWord, Claims, TaskPcs, CallPcs
  <1> QED
    BY Zenon, <1>1, <1>2, <1>3, QuietPreserves

(* A step that writes the word of one slot, which no other CPU executes or *)
(* claims, keeps the invariant if what the CPU itself then has is right.   *)
LEMMA SlotStep ==
    ASSUME IInv, TypeOK', NEW c \in Cpus, NEW s \in Slots, Aside(c), Local(c)',
           \A t \in Slots \ {s} : state'[t] = state[t],
           \A d \in Cpus \ {c} : /\ Executing(d) => cpu[d].slot # s
                                 /\ Claims(d) => frame[d].slot # s,
           Executing(c)' => \/ /\ Executing(c) /\ cpu[c].slot # s
                               /\ cpu'[c].slot = cpu[c].slot /\ cpu'[c].gen = cpu[c].gen
                            \/ /\ cpu'[c].slot = s /\ Owned(state'[s])
                               /\ state'[s].gen = cpu'[c].gen,
           Claims(c)' => frame'[c].slot = s /\ state'[s].st = "INITIALIZING"
    PROVE  IInv'
  <1>1. \A d \in Cpus \ {c} : cpu'[d] = cpu[d] /\ frame'[d].slot = frame[d].slot
    BY Zenon DEF Aside
  <1>2. ASSUME NEW d \in Cpus PROVE Local(d)'
    <2>1. CASE d # c
      BY ZenonT(60), <2>1 DEF IInv, Local, HasTask, KnowsWord, Claims, Aside
    <2> QED
      BY Zenon, <2>1
  <1>3. \A d \in Cpus : /\ Executing(d) => cpu[d].slot \in Slots
                        /\ frame[d].slot \in Slots
    BY Zenon DEF IInv, TypeOK, CpuRecords, Frames, Executing
  <1>4. \A d \in Cpus \ {c} : /\ Executing(d)' => Executing(d)
                              /\ Claims(d)' => Claims(d)
    BY Zenon, <1>1 DEF Executing, Claims
  <1>5. ExclusiveExecution'
    <2>1. ASSUME NEW d \in Cpus, Executing(d)'
          PROVE  state'[cpu'[d].slot].gen = cpu'[d].gen /\ Owned(state'[cpu'[d].slot])
      <3>1. CASE d = c
        <4>1. CASE Executing(c) /\ cpu[c].slot # s /\ cpu'[c].slot = cpu[c].slot
                   /\ cpu'[c].gen = cpu[c].gen
          BY ZenonT(60), <1>3, <3>1, <4>1 DEF IInv, ExclusiveExecution
        <4> QED
          BY Zenon, <2>1, <3>1, <4>1
      <3>2. CASE d # c
        <4>1. Executing(d) /\ cpu'[d] = cpu[d] /\ cpu[d].slot # s
          BY Zenon, <1>1, <1>4, <2>1, <3>2
        <4> QED
          BY ZenonT(60), <1>3, <4>1 DEF IInv, ExclusiveExecution
      <3> QED
        BY Zenon, <3>1, <3>2
    <2>2. ASSUME NEW d \in Cpus, NEW e \in Cpus \ {d}, Executing(d)', Executing(e)'
          PROVE  cpu'[d].slot # cpu'[e].slot
      <3>1. CASE d # c /\ e # c
        <4>1. Executing(d) /\ Executing(e) /\ cpu'[d] = cpu[d] /\ cpu'[e] = cpu[e]
          BY Zenon, <1>1, <1>4, <2>2, <3>1
        <4> QED
          BY ZenonT(60), <4>1 DEF IInv, ExclusiveExecution
      <3>2. CASE d = c
        <4>1. Executing(e) /\ cpu'[e] = cpu[e] /\ cpu[e].slot # s
          BY Zenon, <1>1, <1>4, <2>2, <3>2
        <4>2. \/ cpu'[c].slot = s
              \/ Executing(c) /\ cpu'[c].slot = cpu[c].slot
          BY Zenon, <2>2, <3>2
        <4> QED
          BY ZenonT(60), <2>2, <3>2, <4>1, <4>2 DEF IInv, ExclusiveExecution
      <3>3. CASE e = c
        <4>1. Executing(d) /\ cpu'[d] = cpu[d] /\ cpu[d].slot # s
          BY Zenon, <1>1, <1>4, <2>2, <3>3
        <4>2. \/ cpu'[c].slot = s
              \/ Executing(c) /\ cpu'[c].slot = cpu[c].slot
          BY Zenon, <2>2, <3>3
        <4> QED
          BY Zenon, <2>2, <3>3, <4>1, <4>2 DEF IInv, ExclusiveExecution
      <3> QED
        BY Zenon, <3>1, <3>2, <3>3
    <2> QED
      BY Zenon, <2>1, <2>2 DEF ExclusiveExecution
  <1>6. InitializingHeld'
    <2>1. ASSUME NEW d \in Cpus, Claims(d)' PROVE state'[frame'[d].slot].st = "INITIALIZING"
      <3>1. CASE d # c
        <4>1. Claims(d) /\ frame'[d].slot = frame[d].slot /\ frame[d].slot # s
          BY Zenon, <1>1, <1>4, <2>1, <3>1
        <4> QED
          BY ZenonT(60), <1>3, <4>1 DEF IInv, InitializingHeld
      <3> QED
        BY Zenon, <2>1, <3>1
    <2> QED
      BY Zenon, <2>1 DEF InitializingHeld
  <1> QED
    BY Zenon, <1>2, <1>5, <1>6 DEF IInv

(* A slot in a word that is neither owned nor INITIALIZING is nobody's.    *)
LEMMA NobodyHas ==
    ASSUME IInv, NEW s \in Slots, ~Owned(state[s]), state[s].st # "INITIALIZING"
    PROVE  \A d \in Cpus : /\ Executing(d) => cpu[d].slot # s
                           /\ Claims(d) => frame[d].slot # s
  BY Zenon DEF IInv, ExclusiveExecution, InitializingHeld

(* finish gives up the task with its word: no other CPU executes it.       *)
LEMMA FinishStep ==
    ASSUME IInv, TypeOK', NEW c \in Cpus, FinishCas(c)
    PROVE  IInv'
  <1> DEFINE s == cpu[c].slot
             next == FinishNext(frame[c].old, cpu[c].outcome)
  <1>0. /\ TypeOK /\ Local(c) /\ cpu[c].pc = "finCas" /\ s # 0 /\ s \in Slots
        /\ frame[c].slot = s /\ state \in [Slots -> Words] /\ cpu[c].gen \in Nat
    BY ZenonT(60) DEF IInv, FinishCas, At, TypeOK, CpuRecords, Local, HasTask, KnowsWord, TaskPcs
  <1>1. /\ \A d \in Cpus \ {c} : frame'[d] = frame[d]
        /\ lock' = lock
    BY Zenon, <1>0 DEF FinishCas, TypeOK
  <1>2. CASE Compare(c)
    <2>1. MovesTo(c, {"clear"}) /\ \A d \in Cpus \ {c} : cpu'[d] = cpu[d]
      BY Zenon, <1>0, <1>2, GotoEffect, PcNames DEF FinishCas
    <2>2. \A t \in Slots \ {s} : state'[t] = state[t]
      BY Zenon, <1>0, <1>2 DEF FinishCas
    <2>3. Owned(state[s]) /\ \A d \in Cpus \ {c} : Executing(d) => cpu[d].slot # s
      BY ZenonT(60), <1>0 DEF IInv, ExclusiveExecution, Executing
    <2>4. \A d \in Cpus \ {c} : Claims(d) => frame[d].slot # s
      BY ZenonT(60), <2>3 DEF IInv, InitializingHeld, Owned
    <2>5. Aside(c)
      BY ZenonT(60), <1>1, <2>1 DEF Aside
    <2>6. Local(c)'
      BY Zenon, <2>1 DEF MovesTo, Local, HasTask, KnowsWord, Claims, TaskPcs, CallPcs
    <2>7. ~Executing(c)' /\ ~Claims(c)'
      BY Zenon, <2>1 DEF MovesTo, Executing, Claims
    <2> HIDE DEF s
    <2> QED
      BY Zenon, <1>0, <2>2, <2>3, <2>4, <2>5, <2>6, <2>7, SlotStep
  <1>3. CASE ~Compare(c)
    <2>1. MovesTo(c, {"finLoad"}) /\ \A d \in Cpus \ {c} : cpu'[d] = cpu[d]
      BY ZenonT(60), <1>0, <1>3, GotoEffect, PcNames DEF FinishCas
    <2>2. Quiet(c) /\ Local(c)'
      BY Zenon, <1>0, <2>1, QuietMove DEF PlainPcs, CallPcs
    <2>3. Aside(c) /\ state' = state
      BY Zenon, <1>1, <1>3, <2>1 DEF FinishCas, Aside
    <2> QED
      BY Zenon, <2>2, <2>3, QuietPreserves
  <1> QED
    BY Zenon, <1>2, <1>3

(* claim_next takes a RUNNABLE task, which no CPU executes.                *)
LEMMA ClaimStep ==
    ASSUME IInv, TypeOK', NEW c \in Cpus, ClaimCas(c)
    PROVE  IInv'
  <1> DEFINE s == frame[c].slot
             old == frame[c].old
  <1>0. /\ TypeOK /\ Local(c) /\ cpu[c].pc = "claimCas" /\ s \in Slots /\ old.gen \in Nat
        /\ state \in [Slots -> Words] /\ old.st = "RUNNABLE" /\ lock' = lock
    BY ZenonT(60) DEF IInv, ClaimCas, At, TypeOK, Frames, Words, Local, KnowsWord
  <1>1. CASE Compare(c)
    <2>1. /\ cpu'[c].pc = "dispatch" /\ cpu'[c].slot = s /\ cpu'[c].gen = old.gen
          /\ \A d \in Cpus \ {c} : cpu'[d] = cpu[d] /\ frame'[d] = frame[d]
      <3>1. /\ cpu' = [cpu EXCEPT ![c] = [cpu[c] EXCEPT !.pc = "dispatch", !.slot = s,
                                                        !.gen = old.gen]]
            /\ frame' = [frame EXCEPT ![c] = NoFrame]
        BY Zenon, <1>1 DEF ClaimCas
      <3>2. cpu[c] \in CpuRecords /\ cpu \in [Cpus -> CpuRecords] /\ frame \in [Cpus -> Frames]
        BY Zenon, <1>0 DEF TypeOK
      <3> QED
        BY Zenon, <3>1, <3>2 DEF CpuRecords
    <2>2. /\ \A t \in Slots \ {s} : state'[t] = state[t]
          /\ Owned(state'[s]) /\ state'[s].gen = old.gen
      <3>1. state' = [state EXCEPT ![s] = Pack(old.gen, "RUNNING")]
        BY Zenon, <1>1 DEF ClaimCas
      <3>2. Pack(old.gen, "RUNNING").st = "RUNNING" /\ Pack(old.gen, "RUNNING").gen = old.gen
        BY Zenon, <1>0, PackType DEF States
      <3> HIDE DEF s, old
      <3> QED
        BY Zenon, <1>0, <3>1, <3>2 DEF Owned
    <2>3. ~Owned(state[s]) /\ state[s].st # "INITIALIZING"
      BY Zenon, <1>0, <1>1 DEF Compare, Owned
    <2>4. Aside(c)
      BY Zenon, <1>0, <2>1 DEF Aside
    <2>5. s # 0
      <3>1. s \in Slots
        BY Zenon, <1>0
      <3> QED
        BY ONLY <3>1 DEF Slots
    <2>6. Local(c)'
      BY Zenon, <2>1, <2>5 DEF Local, HasTask, KnowsWord, Claims, TaskPcs, CallPcs
    <2>7. ~Claims(c)'
      BY Zenon, <2>1 DEF Claims
    <2> HIDE DEF s
    <2> QED
      <3>1. \A d \in Cpus : /\ Executing(d) => cpu[d].slot # s
                            /\ Claims(d) => frame[d].slot # s
        BY Zenon, <1>0, <2>3, NobodyHas
      <3>2. cpu'[c].slot = s /\ Owned(state'[s]) /\ state'[s].gen = cpu'[c].gen
        BY Zenon, <2>1, <2>2
      <3> QED
        BY Zenon, <1>0, <2>2, <2>4, <2>6, <2>7, <3>1, <3>2, SlotStep
  <1>2. CASE ~Compare(c)
    <2>1. ScanOn(c) /\ state' = state
      BY Zenon, <1>2 DEF ClaimCas
    <2>2. MovesTo(c, {"scan"}) /\ \A d \in Cpus \ {c} : cpu'[d] = cpu[d]
      BY Zenon, <1>0, <2>1, GotoEffect, PcNames DEF ScanOn
    <2>3. Aside(c)
      BY Zenon, <1>0, <2>1, <2>2 DEF Aside, ScanOn, TypeOK
    <2>4. Quiet(c) /\ Local(c)'
      BY Zenon, <1>0, <2>2, QuietMove DEF PlainPcs, TaskPcs, CallPcs
    <2> QED
      BY Zenon, <2>1, <2>3, <2>4, QuietPreserves
  <1> QED
    BY Zenon, <1>1, <1>2

(* spawn and reclaim_completed take a slot that no CPU executes, under the *)
(* runtime lock.                                                           *)
LEMMA TakeStep ==
    ASSUME IInv, TypeOK', NEW c \in Cpus, NEW s \in Slots, NEW f,
           NEW p \in {"spawnFill", "reclaimClear"}, NEW g \in Nat,
           RunsKernel(c), Locked(c), Call(c, p, f), f.slot = s,
           state' = [state EXCEPT ![s] = Pack(g, "INITIALIZING")],
           state[s].st \in {"VACANT", "COMPLETED"}
    PROVE  IInv'
  <1>0. /\ TypeOK /\ Local(c) /\ cpu[c].pc = "run" /\ cpu[c].slot # 0
        /\ state \in [Slots -> Words] /\ lock = None /\ lock' = c /\ None \notin Cpus
    BY Zenon, NoneAssumption DEF IInv, RunsKernel, At, TypeOK, Locked, Local, HasTask, TaskPcs
  <1>1. /\ MovesTo(c, {p}) /\ frame'[c] = f
        /\ \A d \in Cpus \ {c} : cpu'[d] = cpu[d] /\ frame'[d] = frame[d]
    <2>1. p \in Pcs
      BY Zenon, PcNames
    <2> QED
      BY ZenonT(60), <1>0, <2>1, CallEffect
  <1>2. /\ \A t \in Slots \ {s} : state'[t] = state[t]
        /\ state'[s].st = "INITIALIZING"
    <2>1. Pack(g, "INITIALIZING").st = "INITIALIZING"
      BY Zenon, PackType DEF States
    <2> QED
      BY Zenon, <1>0, <2>1
  <1>3. ~Owned(state[s]) /\ state[s].st # "INITIALIZING"
    BY Zenon DEF Owned
  <1>4. Aside(c)
    BY Zenon, <1>0, <1>1 DEF Aside
  <1>5. Local(c)'
    BY ZenonT(60), <1>0, <1>1 DEF MovesTo, Local, HasTask, KnowsWord, Claims, TaskPcs, CallPcs
  <1>6. Executing(c)' => /\ Executing(c) /\ cpu[c].slot # s
                         /\ cpu'[c].slot = cpu[c].slot /\ cpu'[c].gen = cpu[c].gen
    BY Zenon, <1>0, <1>1, <1>3, NobodyHas DEF MovesTo, Executing
  <1> QED
    BY ZenonT(60), <1>1, <1>2, <1>3, <1>4, <1>5, <1>6, SlotStep, NobodyHas

(* The two ways to take a slot.                                            *)
LEMMA TakeSteps ==
    ASSUME IInv, TypeOK', NEW c \in Cpus,
           \/ \E s \in Slots : RuntimeSpawn(c, s)
           \/ \E h \in held : RuntimeReclaim(c, h)
    PROVE  IInv'
  <1>1. ASSUME NEW s \in Slots, RuntimeSpawn(c, s) PROVE IInv'
    <2> DEFINE f == [NoFrame EXCEPT !.op = "spawn", !.ret = "run", !.slot = s,
                                    !.gen = state[s].gen]
    <2>1. Call(c, "spawnFill", f) /\ f.slot = s /\ state[s].gen \in Nat
      BY Zenon, <1>1, NoFrameType DEF RuntimeSpawn, NoFrame, IInv, TypeOK, Words
    <2>2. /\ RunsKernel(c) /\ Locked(c) /\ state[s].st \in {"VACANT", "COMPLETED"}
          /\ state' = [state EXCEPT ![s] = Pack(state[s].gen, "INITIALIZING")]
      BY Zenon, <1>1 DEF RuntimeSpawn
    <2> HIDE DEF f
    <2> QED
      BY Zenon, <2>1, <2>2, TakeStep
  <1>2. ASSUME NEW h \in held, RuntimeReclaim(c, h) PROVE IInv'
    <2> DEFINE s == h[1]
               f == [NoFrame EXCEPT !.op = "reclaim", !.ret = "run", !.slot = s,
                                    !.gen = h[2]]
    <2>1. s \in Slots /\ h[2] \in Nat
      BY Zenon DEF IInv, TypeOK, Handles
    <2>2. Call(c, "reclaimClear", f) /\ f.slot = s
      BY ZenonT(60), <1>2, NoFrameType DEF RuntimeReclaim, NoFrame
    <2>3. state[s].st \in {"VACANT", "COMPLETED"}
      <3>1. state[s] = Pack(h[2], "COMPLETED")
        BY Zenon, <1>2 DEF RuntimeReclaim
      <3>2. Pack(h[2], "COMPLETED").st = "COMPLETED"
        BY Zenon, <2>1, PackType DEF States
      <3> QED
        BY Zenon, <3>1, <3>2
    <2>4. /\ RunsKernel(c) /\ Locked(c)
          /\ state' = [state EXCEPT ![s] = Pack(h[2], "INITIALIZING")]
      BY Zenon, <1>2 DEF RuntimeReclaim
    <2> HIDE DEF f, s
    <2> QED
      BY ZenonT(60), <2>1, <2>2, <2>3, <2>4, TakeStep
  <1> QED
    BY Zenon, <1>1, <1>2

(* Publishing the slot: the runtime lock keeps every other call away.      *)
LEMMA PublishStep ==
    ASSUME IInv, TypeOK', NEW c \in Cpus, SpawnPublish(c) \/ ReclaimPublish(c)
    PROVE  IInv'
  <1> DEFINE s == frame[c].slot
  <1>0. /\ TypeOK /\ Local(c) /\ s \in Slots /\ Claims(c) /\ lock = c
        /\ state \in [Slots -> Words]
        /\ cpu[c].pc \in {"spawnPublish", "reclaimPublish"}
    BY Zenon DEF IInv, SpawnPublish, ReclaimPublish, At, TypeOK, Frames, Local, Claims
  <1>1. state[s].st = "INITIALIZING" /\ ~Owned(state[s])
    BY Zenon, <1>0 DEF IInv, InitializingHeld, Owned
  <1>2. \A d \in Cpus \ {c} : ~Claims(d)
    BY ZenonT(60), <1>0 DEF IInv, Local
  <1>3. \A d \in Cpus : Executing(d) => cpu[d].slot # s
    BY ZenonT(60), <1>1 DEF IInv, ExclusiveExecution
  <1>4. \A t \in Slots \ {s} : state'[t] = state[t]
    BY Zenon, <1>0 DEF SpawnPublish, ReclaimPublish
  <1>5. Aside(c) /\ Quiet(c) /\ Local(c)' /\ ~Claims(c)'
    <2>1. CASE SpawnPublish(c)
      <3>1. Return(c) /\ InCall(c)
        BY Zenon, <2>1 DEF SpawnPublish, InCall, At, CallPcs
      <3>2. Aside(c) /\ Quiet(c) /\ Local(c)'
        BY ZenonT(60), <1>0, <3>1, QuietReturn
      <3>3. ~Claims(c)'
        BY Zenon, <1>0, <3>1, ReturnEffect DEF MovesTo, Claims
      <3> QED
        BY ZenonT(60), <3>2, <3>3
    <2>2. CASE ReclaimPublish(c)
      <3>1. /\ Goto(c, "freeRoot") /\ UNCHANGED <<frame, lock>>
            /\ "freeRoot" \in PlainPcs /\ "freeRoot" \notin TaskPcs
            /\ cpu[c].pc # "clear" /\ cpu[c].pc \in CallPcs
        BY Zenon, <2>2 DEF ReclaimPublish, At, PlainPcs, TaskPcs, CallPcs
      <3>2. Aside(c) /\ Quiet(c) /\ Local(c)'
        BY Zenon, <1>0, <3>1, QuietGoto
      <3>3. ~Claims(c)'
        BY Zenon, <1>0, <3>1, GotoEffect, PcNames DEF MovesTo, Claims
      <3> QED
        BY <3>2, <3>3
    <2> QED
      BY Zenon, <2>1, <2>2
  <1> HIDE DEF s
  <1> QED
    BY ZenonT(60), <1>0, <1>2, <1>3, <1>4, <1>5, SlotStep DEF Quiet

(* Every step keeps the invariant.                                         *)
LEMMA Inductive ==
    ASSUME IInv, [Next]_vars
    PROVE  IInv'
  <1>0. TypeOK /\ TaskInSlot /\ \A c \in Cpus : Local(c)
    BY Zenon DEF IInv, TaskInSlot, Local
  <1>1. TypeOK'
    BY Zenon, <1>0, NextTypes
  <1>2. ASSUME NEW c \in Cpus, state' = state /\ Aside(c) /\ Quiet(c) /\ Local(c)'
        PROVE  IInv'
    BY Zenon, <1>1, <1>2, QuietPreserves
  <1>3. CASE UNCHANGED vars
    BY ZenonT(60), <1>3 DEF vars, slotVars, taskVars, historyVars, envVars, IInv, TypeOK, Local,
                HasTask, KnowsWord, Claims, ExclusiveExecution, Executing, InitializingHeld
  <1>4. ASSUME NEW c \in Cpus,
               \/ OnlineCpu(c) \/ TimerInterrupt(c) \/ RescheduleInterrupt(c)
               \/ \E o \in Objects : HardwareInterrupt(c, o)
        PROVE  IInv'
    BY Zenon, <1>0, <1>2, <1>4, QuietInterrupts
  <1>5. ASSUME NEW c \in Cpus, UserStep(c) PROVE IInv'
    BY Zenon, <1>0, <1>2, <1>5, QuietUser
  <1>6. ASSUME NEW c \in Cpus, RuntimeStep(c) PROVE IInv'
    BY ZenonT(60), <1>0, <1>1, <1>2, <1>6, QuietRuntime, TakeSteps DEF RuntimeStep
  <1>7. ASSUME NEW c \in Cpus, HandlerStep(c) PROVE IInv'
    BY Zenon, <1>0, <1>1, <1>2, <1>7, QuietCalls, QuietDispatch, QuietSupervision, CasSteps,
       ClearStep, FinishStep, ClaimStep, PublishStep DEF HandlerStep
  <1> QED
    BY Zenon, <1>3, <1>4, <1>5, <1>6, <1>7 DEF Next

(* The boot state.                                                         *)
LEMMA Initially ==
    ASSUME Init
    PROVE  IInv
  <1>1. /\ \A s \in {1} \cup Slots : Pack(1, IF s = 1 THEN "RUNNABLE" ELSE "VACANT") \in Words
        /\ NoFrame \in Frames
    BY ZenonT(60), PackType, NoFrameType DEF States
  <1>2. \A c \in Cpus : cpu[c].pc = "off" /\ cpu[c].slot = 0
    BY Zenon DEF Init
  <1>3. TypeOK
    <2>1. cpu \in [Cpus -> CpuRecords]
      BY SlotsAssumption, PcNames DEF Init, CpuRecords, Slots, Outcomes
    <2> QED
      BY ZenonT(60), <1>1, <2>1 DEF Init, TypeOK
  <1>4. \A c \in Cpus : Local(c)
    BY ZenonT(60), <1>2 DEF Local, HasTask, KnowsWord, Claims, TaskPcs, CallPcs
  <1>5. ExclusiveExecution /\ InitializingHeld
    BY Zenon, <1>2 DEF ExclusiveExecution, Executing, InitializingHeld, Claims
  <1> QED
    BY Zenon, <1>3, <1>4, <1>5 DEF IInv
-----------------------------------------------------------------------------
(* The inductive invariant holds in every reachable state, for any number  *)
(* of CPUs, slots, wait objects and generations.                           *)
THEOREM Invariance == Spec => []IInv
  BY Initially, Inductive, PTL DEF Spec

(* Type correctness of the scheduler: every word, deadline, registration   *)
(* and per-CPU record stays in the range the code's arrays and atomics     *)
(* give it.                                                                *)
THEOREM TypeCorrect == Spec => []TypeOK
  <1>1. IInv => TypeOK
    BY Zenon DEF IInv
  <1> QED
    BY <1>1, Invariance, PTL

(* Between the compare-exchange of claim_next and that of finish a task    *)
(* belongs to one CPU, in the generation that was claimed, whatever        *)
(* wakes, stops, reclaims and spawns the other CPUs interleave with it.    *)
THEOREM ExecutionIsExclusive == Spec => []ExclusiveExecution
  <1>1. IInv => ExclusiveExecution
    BY Zenon DEF IInv
  <1> QED
    BY <1>1, Invariance, PTL
-----------------------------------------------------------------------------
(* Contexts and roots: what a CPU restores when it dispatches a task.      *)

(* A context that counts as saved is the one of the task's last run.       *)
Kept(s) == ctxSaved[s] => fresh[s]

(* The pcs at which a task is published, or claimed and not yet resumed.   *)
PublishPcs == {"finLoad", "finObject", "finDeadline", "finCas", "dispatch"}

(* A CPU publishes or resumes a task with the context of its last run.     *)
ContextLocal(c) ==
    /\ cpu[c].pc \in PublishPcs => Kept(cpu[c].slot)
    /\ cpu[c].pc = "resume" => ctxSaved[cpu[c].slot] /\ fresh[cpu[c].slot]

(* A call that returns to task code is a scheduler call, and task code has *)
(* its root loaded, also while it is in such a call.                       *)
RootLocal(c) ==
    /\ frame[c].ret = "run" => cpu[c].pc \in CallPcs
    /\ cpu[c].pc = "run" \/ frame[c].ret = "run"
       => cr3[c] = IF user[cpu[c].slot] THEN <<cpu[c].slot, cpu[c].gen>> ELSE None

(* The inductive invariant behind ResumesLastContext and RunsOnOwnRoot.    *)
DInv == /\ IInv
        /\ \A s \in Slots : ~Owned(state[s]) => Kept(s)
        /\ \A c \in Cpus : ContextLocal(c) /\ RootLocal(c)

(* Task code, and a CPU that publishes or resumes a task, executes it.     *)
LEMMA DispatchedExecutes ==
    ASSUME IInv, NEW c \in Cpus,
           \/ cpu[c].pc \in PublishPcs \cup {"resume", "run"}
           \/ cpu[c].pc \in CallPcs /\ frame[c].ret = "run"
    PROVE  Executing(c) /\ cpu[c].slot \in Slots
  <1>1. Local(c) /\ cpu[c].slot \in Slots \cup {0}
    BY Zenon DEF IInv, TypeOK, CpuRecords
  <1>2. cpu[c].slot # 0 /\ cpu[c].pc # "clear"
    BY Zenon, <1>1 DEF Local, HasTask, PublishPcs, TaskPcs, CallPcs
  <1> QED
    BY Zenon, <1>1, <1>2 DEF Executing

(* A step keeps the invariant if it leaves alone what belongs to the tasks *)
(* that other CPUs execute, and if what the CPU itself then has is right.  *)
LEMMA DispatchPreserves ==
    ASSUME DInv, IInv', NEW c \in Cpus, Aside(c),
           \A d \in Cpus \ {c} : cr3'[d] = cr3[d],
           \A d \in Cpus \ {c} : Executing(d) =>
               /\ user'[cpu[d].slot] = user[cpu[d].slot]
               /\ ctxSaved'[cpu[d].slot] = ctxSaved[cpu[d].slot]
               /\ fresh'[cpu[d].slot] = fresh[cpu[d].slot],
           \A s \in Slots : ~Owned(state'[s]) => Kept(s)',
           ContextLocal(c)', RootLocal(c)'
    PROVE  DInv'
  <1>1. ASSUME NEW d \in Cpus \ {c} PROVE ContextLocal(d)' /\ RootLocal(d)'
    <2>1. /\ cpu'[d] = cpu[d] /\ frame'[d].ret = frame[d].ret /\ cr3'[d] = cr3[d]
          /\ IInv /\ ContextLocal(d) /\ RootLocal(d)
      BY Zenon DEF Aside, DInv
    <2>2. CASE \/ cpu[d].pc \in PublishPcs \cup {"resume", "run"}
               \/ cpu[d].pc \in CallPcs /\ frame[d].ret = "run"
      <3>1. Executing(d)
        BY Zenon, <2>1, <2>2, DispatchedExecutes
      <3>2. /\ user'[cpu[d].slot] = user[cpu[d].slot]
            /\ ctxSaved'[cpu[d].slot] = ctxSaved[cpu[d].slot]
            /\ fresh'[cpu[d].slot] = fresh[cpu[d].slot]
        BY Zenon, <3>1
      <3> QED
        BY Zenon, <2>1, <3>2 DEF ContextLocal, RootLocal, Kept
    <2>3. CASE ~(\/ cpu[d].pc \in PublishPcs \cup {"resume", "run"}
                 \/ cpu[d].pc \in CallPcs /\ frame[d].ret = "run")
      BY Zenon, <2>1, <2>3 DEF ContextLocal, RootLocal
    <2> QED
      BY Zenon, <2>2, <2>3
  <1>2. \A d \in Cpus : ContextLocal(d)' /\ RootLocal(d)'
    BY Zenon, <1>1
  <1> QED
    BY Zenon, <1>2 DEF DInv

(* A step that writes no task's context or root and gives up no task.      *)
LEMMA PlainPreserves ==
    ASSUME DInv, IInv', NEW c \in Cpus, Aside(c),
           \A d \in Cpus \ {c} : cr3'[d] = cr3[d],
           UNCHANGED <<ctxSaved, user, fresh>>,
           \A s \in Slots : Owned(state[s]) => Owned(state'[s]),
           cpu'[c].pc \notin PublishPcs \cup {"resume"}, RootLocal(c)'
    PROVE  DInv'
  <1>1. \A s \in Slots : ~Owned(state'[s]) => Kept(s)'
    BY Zenon DEF DInv, Kept
  <1>2. ContextLocal(c)'
    BY Zenon DEF ContextLocal
  <1> QED
    BY Zenon, <1>1, <1>2, DispatchPreserves

(* A scheduler call goes on, or returns and forgets where it returned to.  *)
CallOn(c) ==
    \/ MovesTo(c, {frame[c].ret}) /\ frame'[c].ret = "save"
    \/ MovesTo(c, CallPcs) /\ frame'[c].ret = frame[c].ret

(* Return.                                                                 *)
LEMMA ReturnOn ==
    ASSUME TypeOK, NEW c \in Cpus, Return(c)
    PROVE  Aside(c) /\ CallOn(c)
  <1>1. Aside(c) /\ MovesTo(c, {frame[c].ret})
    BY Zenon, ReturnEffect
  <1>2. frame' = [frame EXCEPT ![c] = NoFrame] /\ NoFrame.ret = "save" /\ frame \in [Cpus -> Frames]
    BY Zenon DEF Return, NoFrame, TypeOK
  <1>3. frame'[c].ret = "save"
    BY Zenon, <1>2
  <1> QED
    BY Zenon, <1>1, <1>3 DEF CallOn

(* NextSlot and WakeDone.                                                  *)
LEMMA NextSlotOn ==
    ASSUME TypeOK, NEW c \in Cpus, NextSlot(c) \/ WakeDone(c)
    PROVE  Aside(c) /\ CallOn(c)
  <1>1. ASSUME NextSlot(c) PROVE Aside(c) /\ CallOn(c)
    <2>1. CASE frame[c].slot = NumSlots
      BY Zenon, <1>1, <2>1, ReturnOn DEF NextSlot
    <2>2. CASE frame[c].slot # NumSlots
      <3>1. ScanPc(frame[c].op) \in {"signalObject", "dueWord", "resetWord"}
        BY Zenon DEF ScanPc
      <3>2. ScanPc(frame[c].op) \in CallPcs /\ ScanPc(frame[c].op) \in Pcs
        BY Zenon, <3>1 DEF CallPcs, Pcs
      <3>3. MovesTo(c, {ScanPc(frame[c].op)})
        BY ZenonT(60), <1>1, <2>2, <3>2, GotoEffect DEF NextSlot
      <3> DEFINE f == [NoFrame EXCEPT !.op = frame[c].op, !.ret = frame[c].ret,
                                      !.obj = frame[c].obj, !.slot = frame[c].slot + 1]
      <3>4. frame' = [frame EXCEPT ![c] = f] /\ f.ret = frame[c].ret
        BY Zenon, <1>1, <2>2 DEF NextSlot, NoFrame
      <3>5. frame'[c].ret = frame[c].ret
        BY Zenon, <3>4 DEF TypeOK
      <3>6. Aside(c)
        BY Zenon, <1>1, NextSlotEffect
      <3> QED
        BY Zenon, <3>2, <3>3, <3>5, <3>6 DEF CallOn, MovesTo
    <2> QED
      BY Zenon, <2>1, <2>2
  <1>2. CASE NextSlot(c)
    BY Zenon, <1>1, <1>2
  <1>3. CASE WakeDone(c)
    <2>1. CASE frame[c].op = "reset"
      <3>1. Goto(c, "resetObject") /\ UNCHANGED <<frame, lock>>
        BY Zenon, <1>3, <2>1 DEF WakeDone
      <3>2. MovesTo(c, {"resetObject"}) /\ "resetObject" \in CallPcs
        BY Zenon, <3>1, GotoEffect, PcNames DEF CallPcs
      <3>3. Aside(c)
        BY Zenon, <1>3, WakeDoneEffect
      <3> QED
        BY Zenon, <3>1, <3>2, <3>3 DEF CallOn, MovesTo
    <2>2. CASE frame[c].op # "reset"
      BY Zenon, <1>1, <1>3, <2>2 DEF WakeDone
    <2> QED
      BY Zenon, <2>1, <2>2
  <1> QED
    BY Zenon, <1>2, <1>3

(* Goto within a call.                                                     *)
LEMMA GotoOn ==
    ASSUME TypeOK, NEW c \in Cpus, NEW p \in CallPcs, Goto(c, p), UNCHANGED <<frame, lock>>
    PROVE  Aside(c) /\ CallOn(c)
  <1>1. p \in Pcs
    BY Zenon DEF Pcs
  <1>2. MovesTo(c, {p}) /\ \A d \in Cpus \ {c} : cpu'[d] = cpu[d]
    BY Zenon, <1>1, GotoEffect
  <1> QED
    BY Zenon, <1>2 DEF Aside, CallOn, MovesTo

(* Call within a call.                                                     *)
LEMMA CallAgain ==
    ASSUME TypeOK, NEW c \in Cpus, NEW p \in CallPcs, NEW f, Call(c, p, f), UNCHANGED lock,
           f.ret = frame[c].ret
    PROVE  Aside(c) /\ CallOn(c)
  <1>1. p \in Pcs
    BY Zenon DEF Pcs
  <1>2. /\ MovesTo(c, {p}) /\ frame'[c] = f
        /\ \A d \in Cpus \ {c} : cpu'[d] = cpu[d] /\ frame'[d] = frame[d]
    BY ZenonT(60), <1>1, CallEffect
  <1> QED
    BY Zenon, <1>2 DEF Aside, CallOn, MovesTo

(* The steps of a scheduler call.                                          *)
CallStep(c) ==
    \/ SignalObject(c) \/ SignalWord(c) \/ WakeLoad(c) \/ WakeDeadline(c) \/ WakeObject(c)
    \/ WakeCas(c) \/ DueWord(c) \/ DueDeadline(c) \/ DueTake(c) \/ DueObject(c) \/ DueCas(c)
    \/ SpawnFill(c) \/ SpawnPublish(c) \/ StopLoad(c) \/ StopDeadline(c) \/ StopObject(c)
    \/ StopCas(c) \/ ReclaimClear(c) \/ ReclaimPublish(c) \/ FreeRoot(c) \/ ResetWord(c)
    \/ ResetObject(c) \/ ResetDeadline(c)

(* Every one of them goes on in the call or returns from it.               *)
LEMMA CallsGoOn ==
    ASSUME TypeOK, NEW c \in Cpus, CallStep(c)
    PROVE  Aside(c) /\ CallOn(c)
  <1> DEFINE Good == Aside(c) /\ CallOn(c)
  <1>g. \A p \in CallPcs : Goto(c, p) /\ UNCHANGED <<frame, lock>> => Good
    BY Zenon, GotoOn
  <1>c. \A p \in CallPcs : \A w, g :
           /\ Call(c, p, [frame[c] EXCEPT !.old = w]) /\ UNCHANGED lock => Good
           /\ Call(c, p, [frame[c] EXCEPT !.gen = g]) /\ UNCHANGED lock => Good
    BY Zenon, CallAgain, OperandRet
  <1>n. NextSlot(c) \/ WakeDone(c) => Good
    BY Zenon, NextSlotOn
  <1>r. Return(c) => Good
    BY Zenon, ReturnOn
  <1>p. /\ "signalWord" \in CallPcs /\ "wakeLoad" \in CallPcs /\ "wakeDeadline" \in CallPcs
        /\ "wakeObject" \in CallPcs /\ "wakeCas" \in CallPcs /\ "dueDeadline" \in CallPcs
        /\ "dueTake" \in CallPcs /\ "dueObject" \in CallPcs /\ "dueCas" \in CallPcs
        /\ "stopLoad" \in CallPcs /\ "stopDeadline" \in CallPcs /\ "stopObject" \in CallPcs
        /\ "stopCas" \in CallPcs /\ "spawnPublish" \in CallPcs /\ "reclaimPublish" \in CallPcs
        /\ "freeRoot" \in CallPcs /\ "resetObject" \in CallPcs /\ "resetDeadline" \in CallPcs
    BY Zenon DEF CallPcs
  <1> SUFFICES Good
    BY Zenon
  <1> HIDE DEF Good
  <1>1. CASE SignalObject(c) \/ SignalWord(c)
    BY Zenon, <1>1, <1>g, <1>c, <1>n, <1>p DEF SignalObject, SignalWord
  <1>2. CASE WakeLoad(c)
    BY Zenon, <1>2, <1>c, <1>n, <1>p DEF WakeLoad
  <1>3. CASE WakeDeadline(c) \/ WakeObject(c) \/ WakeCas(c)
    BY Zenon, <1>3, <1>g, <1>n, <1>p DEF WakeDeadline, WakeObject, WakeCas
  <1>4. CASE DueWord(c) \/ DueDeadline(c) \/ DueTake(c)
    BY Zenon, <1>4, <1>g, <1>c, <1>n, <1>p DEF DueWord, DueDeadline, DueTake
  <1>5. CASE DueObject(c) \/ DueCas(c)
    BY Zenon, <1>5, <1>g, <1>n, <1>p DEF DueObject, DueCas
  <1>6. CASE SpawnFill(c) \/ SpawnPublish(c)
    BY Zenon, <1>6, <1>g, <1>r, <1>p DEF SpawnFill, SpawnPublish
  <1>7. CASE StopLoad(c) \/ StopDeadline(c) \/ StopObject(c) \/ StopCas(c)
    BY Zenon, <1>7, <1>g, <1>c, <1>r, <1>p DEF StopLoad, StopDeadline, StopObject, StopCas
  <1>8. CASE ReclaimClear(c) \/ ReclaimPublish(c) \/ FreeRoot(c)
    BY Zenon, <1>8, <1>g, <1>r, <1>p DEF ReclaimClear, ReclaimPublish, FreeRoot
  <1>9. CASE ResetWord(c) \/ ResetObject(c) \/ ResetDeadline(c)
    BY Zenon, <1>9, <1>g, <1>c, <1>n, <1>p DEF ResetWord, ResetObject, ResetDeadline
  <1> QED
    BY Zenon, <1>1, <1>2, <1>3, <1>4, <1>5, <1>6, <1>7, <1>8, <1>9 DEF CallStep

(* A call leaves contexts and roots alone, but for a slot that is filled   *)
(* or cleared.                                                             *)
LEMMA CallFrame ==
    ASSUME NEW c \in Cpus, CallStep(c)
    PROVE  /\ cpu[c].pc \in CallPcs /\ cr3' = cr3 /\ fresh' = fresh
           /\ ~SpawnFill(c) /\ ~ReclaimClear(c) => UNCHANGED <<ctxSaved, user>>
  <1>1. CASE SignalObject(c) \/ SignalWord(c) \/ WakeLoad(c) \/ WakeDeadline(c) \/ WakeObject(c) \/ WakeCas(c)
    BY Zenon, <1>1 DEF SignalObject, SignalWord, WakeLoad, WakeDeadline, WakeObject, WakeCas, At, CallPcs,
       taskVars, historyVars
  <1>2. CASE DueWord(c) \/ DueDeadline(c) \/ DueTake(c) \/ DueObject(c) \/ DueCas(c)
    BY Zenon, <1>2 DEF DueWord, DueDeadline, DueTake, DueObject, DueCas, At, CallPcs, taskVars, historyVars
  <1>3. CASE SpawnFill(c) \/ SpawnPublish(c) \/ ReclaimClear(c) \/ ReclaimPublish(c) \/ FreeRoot(c)
    BY Zenon, <1>3 DEF SpawnFill, SpawnPublish, ReclaimClear, ReclaimPublish, FreeRoot, At, CallPcs,
       taskVars, historyVars
  <1>4. CASE StopLoad(c) \/ StopDeadline(c) \/ StopObject(c) \/ StopCas(c)
    BY Zenon, <1>4 DEF StopLoad, StopDeadline, StopObject, StopCas, At, CallPcs, taskVars, historyVars
  <1>5. CASE ResetWord(c) \/ ResetObject(c) \/ ResetDeadline(c)
    BY Zenon, <1>5 DEF ResetWord, ResetObject, ResetDeadline, At, CallPcs, taskVars, historyVars
  <1> QED
    BY Zenon, <1>1, <1>2, <1>3, <1>4, <1>5 DEF CallStep

(* No call gives up a task that a CPU executes.                            *)
LEMMA CallKeepsOwned ==
    ASSUME IInv, NEW c \in Cpus, CallStep(c), NEW t \in Slots, Owned(state[t])
    PROVE  Owned(state'[t])
  <1> DEFINE s == frame[c].slot
             old == frame[c].old
  <1>0. /\ TypeOK /\ Local(c) /\ s \in Slots /\ old \in Words /\ old.gen \in Nat
        /\ state \in [Slots -> Words]
    BY Zenon DEF IInv, TypeOK, Frames, Words
  <1>1. CASE WakeCas(c)
    <2>3. state'[t] = IF Compare(c) /\ t = s THEN WakeNext(old) ELSE state[t]
      BY Zenon, <1>0, <1>1 DEF WakeCas
    <2>4. Owned(old) => Owned(WakeNext(old))
      BY Zenon, <1>0 DEF Owned, WakeNext, Words
    <2> QED
      BY Zenon, <2>3, <2>4 DEF Compare
  <1>2. CASE DueCas(c)
    <2>1. old.st = "BLOCKED"
      BY Zenon, <1>0, <1>2 DEF DueCas, At, Local, KnowsWord
    <2>3. state'[t] = state[t] \/ (state[t] = old)
      BY Zenon, <1>0, <1>2 DEF DueCas, Compare
    <2>4. ~Owned(old)
      BY Zenon, <2>1 DEF Owned
    <2> QED
      BY Zenon, <2>3, <2>4
  <1>3. CASE StopCas(c)
    <2>1. old.st \in {"RUNNING", "RUNNABLE", "BLOCKED"}
      BY Zenon, <1>0, <1>3 DEF StopCas, At, Local, KnowsWord
    <2>3. state'[t] = IF Compare(c) /\ t = s THEN StopNext(old) ELSE state[t]
      BY ZenonT(60), <1>0, <1>3 DEF StopCas
    <2>4. Owned(old) => Owned(StopNext(old))
      BY Zenon, <1>0, <2>1 DEF Owned, StopNext, Pack
    <2> QED
      BY Zenon, <2>3, <2>4 DEF Compare
  <1>4. CASE SpawnPublish(c) \/ ReclaimPublish(c)
    <2>1. Claims(c)
      BY Zenon, <1>4 DEF SpawnPublish, ReclaimPublish, At, Claims
    <2>2. state[s].st = "INITIALIZING"
      BY Zenon, <2>1 DEF IInv, InitializingHeld
    <2>3. t # s
      BY Zenon, <2>2 DEF Owned
    <2>4. state'[t] = state[t]
      BY Zenon, <1>0, <1>4, <2>3 DEF SpawnPublish, ReclaimPublish
    <2> QED
      BY Zenon, <2>4
  <1>5. CASE \/ SignalObject(c) \/ SignalWord(c) \/ WakeLoad(c) \/ WakeDeadline(c) \/ WakeObject(c)
             \/ DueWord(c) \/ DueDeadline(c) \/ DueTake(c) \/ DueObject(c)
    BY Zenon, <1>0, <1>5, QuietCalls
  <1>6. CASE \/ StopLoad(c) \/ StopDeadline(c) \/ StopObject(c) \/ ResetWord(c)
             \/ ResetObject(c) \/ ResetDeadline(c) \/ SpawnFill(c) \/ ReclaimClear(c)
             \/ FreeRoot(c)
    BY Zenon, <1>0, <1>6, QuietSupervision
  <1> QED
    BY Zenon, <1>1, <1>2, <1>3, <1>4, <1>5, <1>6 DEF CallStep

(* Filling or clearing a slot touches no task that a CPU executes.         *)
LEMMA FillAside ==
    ASSUME IInv, NEW c \in Cpus, SpawnFill(c) \/ ReclaimClear(c)
    PROVE  /\ \A d \in Cpus : Executing(d) => /\ user'[cpu[d].slot] = user[cpu[d].slot]
                                              /\ ctxSaved'[cpu[d].slot] = ctxSaved[cpu[d].slot]
           /\ \A s \in Slots : ctxSaved'[s] => ctxSaved[s]
  <1> DEFINE s == frame[c].slot
  <1>1. Claims(c) /\ s \in Slots /\ user \in [Slots -> BOOLEAN] /\ ctxSaved \in [Slots -> BOOLEAN]
    BY Zenon DEF SpawnFill, ReclaimClear, At, Claims, IInv, TypeOK, Frames
  <1>2. state[s].st = "INITIALIZING"
    BY Zenon, <1>1 DEF IInv, InitializingHeld
  <1>3. \A d \in Cpus : Executing(d) => cpu[d].slot # s
    BY ZenonT(60), <1>2 DEF IInv, ExclusiveExecution, Owned
  <1>4. /\ \E b : user' = [user EXCEPT ![s] = b]
        /\ ctxSaved' = [ctxSaved EXCEPT ![s] = FALSE]
    BY Zenon DEF SpawnFill, ReclaimClear
  <1>5. \A t \in Slots \ {s} : user'[t] = user[t] /\ ctxSaved'[t] = ctxSaved[t]
    BY Zenon, <1>1, <1>4
  <1>6. \A d \in Cpus : Executing(d) => cpu[d].slot \in Slots
    BY Zenon DEF IInv, TypeOK, CpuRecords, Executing
  <1>7. ctxSaved'[s] = FALSE
    BY Zenon, <1>1, <1>4
  <1> QED
    BY Zenon, <1>3, <1>5, <1>6, <1>7

(* A call leaves the loaded root and the task right: it returns to task    *)
(* code only if that task made it.                                         *)
LEMMA CallRoot ==
    ASSUME DInv, NEW c \in Cpus, CallOn(c), cpu[c].pc \in CallPcs, cr3' = cr3,
           Executing(c) => user'[cpu[c].slot] = user[cpu[c].slot]
    PROVE  ContextLocal(c)' /\ RootLocal(c)'
  <1>1. /\ cpu'[c].slot = cpu[c].slot /\ cpu'[c].gen = cpu[c].gen
        /\ \/ cpu'[c].pc = frame[c].ret /\ frame'[c].ret = "save"
           \/ cpu'[c].pc \in CallPcs /\ frame'[c].ret = frame[c].ret
    BY Zenon DEF CallOn, MovesTo
  <1>2. RootLocal(c) /\ IInv /\ frame[c].ret \in {"run", "save"}
    BY Zenon DEF DInv, IInv, TypeOK, Frames
  <1>3. CallPcs \cap (PublishPcs \cup {"resume", "run", "save"}) = {}
    BY Zenon DEF CallPcs, PublishPcs
  <1>4. ContextLocal(c)'
    BY Zenon, <1>1, <1>2, <1>3 DEF ContextLocal, PublishPcs
  <1>5. CASE frame[c].ret = "run"
    <2>1. Executing(c)
      BY Zenon, <1>2, <1>5, DispatchedExecutes
    <2>2. cr3[c] = IF user[cpu[c].slot] THEN <<cpu[c].slot, cpu[c].gen>> ELSE None
      BY Zenon, <1>2, <1>5 DEF RootLocal
    <2>3. cr3'[c] = IF user'[cpu'[c].slot] THEN <<cpu'[c].slot, cpu'[c].gen>> ELSE None
      BY Zenon, <1>1, <2>1, <2>2
    <2>4. frame'[c].ret = "run" => cpu'[c].pc \in CallPcs
      BY Zenon, <1>1, <1>5
    <2> QED
      BY Zenon, <1>4, <2>3, <2>4 DEF RootLocal
  <1>6. CASE frame[c].ret = "save"
    BY Zenon, <1>1, <1>3, <1>4, <1>6 DEF RootLocal
  <1> QED
    BY Zenon, <1>2, <1>5, <1>6

(* The steps of scheduler calls.                                           *)
LEMMA CallKeeps ==
    ASSUME DInv, IInv', NEW c \in Cpus, CallStep(c)
    PROVE  DInv'
  <1>1. IInv /\ TypeOK
    BY Zenon DEF DInv, IInv
  <1>2. /\ Aside(c) /\ CallOn(c) /\ cpu[c].pc \in CallPcs /\ cr3' = cr3 /\ fresh' = fresh
        /\ ~SpawnFill(c) /\ ~ReclaimClear(c) => UNCHANGED <<ctxSaved, user>>
    BY Zenon, <1>1, CallsGoOn, CallFrame
  <1>3. /\ \A d \in Cpus : Executing(d) => /\ user'[cpu[d].slot] = user[cpu[d].slot]
                                           /\ ctxSaved'[cpu[d].slot] = ctxSaved[cpu[d].slot]
        /\ \A s \in Slots : ctxSaved'[s] => ctxSaved[s]
    BY Zenon, <1>1, <1>2, FillAside
  <1>4. ContextLocal(c)' /\ RootLocal(c)'
    BY Zenon, <1>2, <1>3, CallRoot
  <1>5. \A s \in Slots : ~Owned(state'[s]) => Kept(s)'
    BY Zenon, <1>1, <1>2, <1>3, CallKeepsOwned DEF DInv, Kept
  <1> QED
    BY Zenon, <1>2, <1>3, <1>4, <1>5, DispatchPreserves

(* Outside a scheduler call there is nothing to return to in task code.    *)
LEMMA NoReturn ==
    ASSUME DInv, NEW c \in Cpus, cpu[c].pc \notin CallPcs
    PROVE  frame[c].ret = "save"
  BY Zenon DEF DInv, RootLocal, IInv, TypeOK, Frames

(* A step that leaves the task for the scheduler.                          *)
Leaves(c) == /\ Aside(c)
             /\ cpu'[c].pc \notin PublishPcs \cup {"resume", "run"}
             /\ frame'[c].ret # "run"
             /\ \A d \in Cpus \ {c} : cr3'[d] = cr3[d]
             /\ UNCHANGED <<state, ctxSaved, user, fresh>>

(* Such a step keeps the invariant.                                        *)
LEMMA LeavesPreserves ==
    ASSUME DInv, IInv', NEW c \in Cpus, Leaves(c)
    PROVE  DInv'
  <1>1. RootLocal(c)'
    BY Zenon DEF Leaves, RootLocal
  <1> QED
    BY Zenon, <1>1, PlainPreserves DEF Leaves

(* The wait system call.                                                   *)
LEMMA WaitKeeps ==
    ASSUME DInv, IInv', NEW c \in Cpus,
           \/ WaitCheck(c) \/ WaitClear(c) \/ WaitDeadline(c) \/ WaitObject(c) \/ WaitRecheck(c)
    PROVE  DInv'
  <1>0. TypeOK /\ Local(c)
    BY Zenon DEF DInv, IInv
  <1>1. cpu[c].pc \notin CallPcs
    BY Zenon DEF WaitCheck, WaitClear, WaitDeadline, WaitObject, WaitRecheck, At, CallPcs
  <1>2. frame[c].ret = "save"
    BY Zenon, <1>1, NoReturn
  <1>3. Aside(c)
    BY Zenon, <1>0, QuietCalls
  <1>4. UNCHANGED <<state, ctxSaved, user, fresh, cr3>>
    BY Zenon DEF WaitCheck, WaitClear, WaitDeadline, WaitObject, WaitRecheck, taskVars, historyVars
  <1> DEFINE Out == /\ MovesTo(c, {"waitClear", "waitDeadline", "waitObject", "waitRecheck",
                               "save", "signalObject"})
                /\ frame'[c].ret = "save"
  <1>5. Out
    <2>1. ASSUME Return(c) PROVE Out
      <3>1. MovesTo(c, {frame[c].ret})
        BY Zenon, <1>0, <2>1, ReturnEffect
      <3>2. frame'[c].ret = "save"
        BY Zenon, <1>0, <2>1, ReturnOn, <1>2 DEF CallOn
      <3> QED
        BY Zenon, <1>2, <3>1, <3>2 DEF MovesTo
    <2>2. CASE WaitCheck(c)
      <3>1. CASE Goto(c, "waitClear") /\ UNCHANGED <<frame, lock>>
        <4>1. MovesTo(c, {"waitClear"})
          BY Zenon, <1>0, <3>1, GotoEffect, PcNames
        <4> QED
          BY Zenon, <1>2, <3>1, <4>1 DEF MovesTo
      <3> QED
        BY Zenon, <2>1, <2>2, <3>1 DEF WaitCheck
    <2>3. CASE WaitClear(c) \/ WaitDeadline(c)
      <3>1. MovesTo(c, {"waitDeadline"}) \/ MovesTo(c, {"waitObject"})
        BY Zenon, <1>0, <2>3, GotoEffect, PcNames DEF WaitClear, WaitDeadline
      <3> QED
        BY Zenon, <1>2, <2>3, <3>1 DEF MovesTo, WaitClear, WaitDeadline
    <2>4. CASE WaitObject(c)
      <3>1. MovesTo(c, {"waitRecheck"})
        BY Zenon, <1>0, <2>4, TrapEffect, PcNames DEF WaitObject
      <3> QED
        BY Zenon, <1>2, <2>4, <3>1 DEF MovesTo, WaitObject
    <2>5. CASE WaitRecheck(c)
      <3> DEFINE f == [NoFrame EXCEPT !.op = "signal", !.obj = frame[c].obj]
      <3>1. f.ret = "save"
        BY Zenon DEF NoFrame
      <3>2. Call(c, "signalObject", f) \/ Return(c)
        BY Zenon, <2>5 DEF WaitRecheck
      <3> HIDE DEF f
      <3>3. ASSUME Call(c, "signalObject", f) PROVE MovesTo(c, {"signalObject"}) /\ frame'[c] = f
        BY Zenon, <1>0, <3>3, CallEffect, PcNames
      <3> QED
        BY Zenon, <2>1, <3>1, <3>2, <3>3 DEF MovesTo
    <2> QED
      BY Zenon, <2>2, <2>3, <2>4, <2>5
  <1>6. Leaves(c)
    BY Zenon, <1>3, <1>4, <1>5 DEF Leaves, MovesTo, PublishPcs
  <1> QED
    BY Zenon, <1>6, LeavesPreserves

(* Interrupts.                                                             *)
LEMMA InterruptKeeps ==
    ASSUME DInv, IInv', NEW c \in Cpus,
           \/ OnlineCpu(c) \/ TimerInterrupt(c) \/ RescheduleInterrupt(c)
           \/ \E o \in Objects : HardwareInterrupt(c, o)
    PROVE  DInv'
  <1>0. TypeOK /\ Local(c) /\ cr3 \in [Cpus -> Handles \cup {None}]
    BY Zenon DEF DInv, IInv, TypeOK
  <1>1. cpu[c].pc \notin CallPcs
    BY Zenon DEF OnlineCpu, TimerInterrupt, RescheduleInterrupt, HardwareInterrupt, Interruptible, At,
       CallPcs
  <1>2. frame[c].ret = "save"
    BY Zenon, <1>1, NoReturn
  <1>3. Aside(c) /\ state' = state
    BY Zenon, <1>0, QuietInterrupts
  <1>4. UNCHANGED <<ctxSaved, user, fresh>>
    BY Zenon DEF OnlineCpu, TimerInterrupt, RescheduleInterrupt, HardwareInterrupt, taskVars,
       historyVars
  <1>5. \A d \in Cpus \ {c} : cr3'[d] = cr3[d]
    <2>1. cr3' = cr3 \/ cr3' = [cr3 EXCEPT ![c] = None]
      BY Zenon DEF OnlineCpu, TimerInterrupt, RescheduleInterrupt, HardwareInterrupt, Enter
    <2> QED
      BY Zenon, <1>0, <2>1
  <1> DEFINE Out == MovesTo(c, {"idle", "dueWord", "save", "signalObject"}) /\ frame'[c].ret = "save"
  <1>6. Out
    <2>1. CASE OnlineCpu(c)
      <3>1. MovesTo(c, {"idle"}) /\ frame' = frame
        BY Zenon, <1>0, <2>1, GotoEffect, PcNames DEF OnlineCpu
      <3> QED
        BY Zenon, <1>2, <3>1 DEF MovesTo
    <2>2. CASE TimerInterrupt(c) /\ c = Bsp
      <3>1. MovesTo(c, {"dueWord"})
        BY Zenon, <1>0, <2>2, TrapEffect, PcNames DEF TimerInterrupt, Enter
      <3>2. frame'[c].ret = "save"
        BY Zenon, <2>2 DEF TimerInterrupt, NoFrame
      <3> QED
        BY Zenon, <3>1, <3>2 DEF MovesTo
    <2>3. CASE (TimerInterrupt(c) /\ c # Bsp) \/ RescheduleInterrupt(c)
      <3>1. MovesTo(c, {"save"}) /\ frame' = frame
        BY Zenon, <1>0, <2>3, TrapEffect, PcNames DEF TimerInterrupt, RescheduleInterrupt, Enter
      <3> QED
        BY Zenon, <1>2, <3>1 DEF MovesTo
    <2>4. CASE \E o \in Objects : HardwareInterrupt(c, o)
      <3>1. PICK o \in Objects : HardwareInterrupt(c, o)
        BY Zenon, <2>4
      <3>2. MovesTo(c, {"signalObject"})
        BY Zenon, <1>0, <3>1, TrapEffect, PcNames DEF HardwareInterrupt, Enter
      <3>3. frame'[c].ret = "save"
        BY Zenon, <1>0, <3>1 DEF HardwareInterrupt, NoFrame, TypeOK
      <3> QED
        BY Zenon, <3>2, <3>3 DEF MovesTo
    <2> QED
      BY Zenon, <2>1, <2>2, <2>3, <2>4
  <1>7. Leaves(c)
    BY Zenon, <1>3, <1>4, <1>5, <1>6 DEF Leaves, MovesTo, PublishPcs
  <1> QED
    BY Zenon, <1>7, LeavesPreserves

(* System calls of a user task, and its contained faults.                  *)
LEMMA UserKeeps ==
    ASSUME DInv, IInv', NEW c \in Cpus, UserStep(c)
    PROVE  DInv'
  <1>0. /\ TypeOK /\ Local(c) /\ cr3 \in [Cpus -> Handles \cup {None}]
        /\ frame \in [Cpus -> Frames]
    BY Zenon DEF DInv, IInv, TypeOK
  <1>1. cpu[c].pc = "run"
    BY Zenon DEF UserStep, SyscallWait, SyscallSignal, SyscallOther, SyscallExit, UserFault,
       Syscall, RunsUser, At
  <1>2. frame[c].ret = "save"
    BY Zenon, <1>1, NoReturn DEF CallPcs
  <1>3. Aside(c) /\ state' = state
    BY Zenon, <1>0, QuietUser
  <1>4. UNCHANGED <<ctxSaved, user, fresh>> /\ cr3' = [cr3 EXCEPT ![c] = None]
    BY Zenon DEF UserStep, SyscallWait, SyscallSignal, SyscallOther, SyscallExit, UserFault,
       Syscall, taskVars, historyVars
  <1>5. \A d \in Cpus \ {c} : cr3'[d] = cr3[d]
    BY Zenon, <1>0, <1>4
  <1> DEFINE Out == /\ MovesTo(c, {"save", "waitCheck", "signalObject", "stopLoad"})
                    /\ frame'[c].ret = "save"
  <1>6. \A p \in {"save", "waitCheck", "signalObject", "stopLoad"} : \A f, sys, out :
           Trap(c, p, out, sys) /\ frame' = [frame EXCEPT ![c] = f] /\ f.ret = "save" => Out
    <2> TAKE p \in {"save", "waitCheck", "signalObject", "stopLoad"}
    <2> TAKE f, sys, out
    <2> HAVE Trap(c, p, out, sys) /\ frame' = [frame EXCEPT ![c] = f] /\ f.ret = "save"
    <2>1. p \in Pcs
      BY PcNames
    <2>2. MovesTo(c, {p})
      BY Zenon, <1>0, <2>1, TrapEffect
    <2>3. frame'[c] = f
      BY Zenon, <1>0
    <2> QED
      BY Zenon, <2>2, <2>3 DEF MovesTo
  <1>7. Out
    <2>0. NoFrame.ret = "save"
      BY Zenon DEF NoFrame
    <2> HIDE DEF Out
    <2>1. ASSUME NEW o \in Objects, NEW d \in (Delays \ {0}) \cup {None}, SyscallWait(c, o, d)
          PROVE  Out
      <3> DEFINE f == [NoFrame EXCEPT !.op = "wait", !.obj = o, !.delay = d]
      <3>1. f.ret = "save"
        BY Zenon DEF NoFrame
      <3>2. Syscall(c, "save", NoFrame) \/ Syscall(c, "waitCheck", f)
        BY Zenon, <2>1 DEF SyscallWait
      <3> HIDE DEF f
      <3> QED
        BY Zenon, <1>6, <2>0, <3>1, <3>2 DEF Syscall
    <2>2. ASSUME NEW o \in Objects, SyscallSignal(c, o) PROVE Out
      <3> DEFINE f == [NoFrame EXCEPT !.op = "signal", !.obj = o]
      <3>1. f.ret = "save" /\ Syscall(c, "signalObject", f)
        BY Zenon, <2>2 DEF NoFrame, SyscallSignal
      <3> HIDE DEF f
      <3> QED
        BY Zenon, <1>6, <3>1 DEF Syscall
    <2>3. CASE SyscallOther(c)
      BY Zenon, <1>6, <2>0, <2>3 DEF SyscallOther, Syscall
    <2>4. CASE SyscallExit(c)
      <3> DEFINE f == [NoFrame EXCEPT !.op = "stop", !.slot = cpu[c].slot, !.gen = cpu[c].gen]
      <3>1. f.ret = "save"
        BY Zenon DEF NoFrame
      <3>2. Trap(c, "stopLoad", "Runnable", FALSE) /\ frame' = [frame EXCEPT ![c] = f]
        BY ZenonT(60), <2>4 DEF SyscallExit
      <3> HIDE DEF f
      <3> QED
        BY Zenon, <1>6, <3>1, <3>2
    <2>5. CASE UserFault(c)
      <3>1. MovesTo(c, {"save"}) /\ frame' = frame
        BY Zenon, <1>0, <2>5, TrapEffect, PcNames DEF UserFault
      <3> QED
        BY Zenon, <1>2, <3>1 DEF MovesTo, Out
    <2> QED
      BY Zenon, <2>1, <2>2, <2>3, <2>4, <2>5 DEF UserStep
  <1>8. Leaves(c)
    BY Zenon, <1>3, <1>4, <1>5, <1>7 DEF Leaves, MovesTo, PublishPcs
  <1> QED
    BY Zenon, <1>8, LeavesPreserves

(* The Runtime root task: a call it makes returns to it, on the root it    *)
(* has loaded.                                                             *)
LEMMA RuntimeKeeps ==
    ASSUME DInv, IInv', NEW c \in Cpus, RuntimeStep(c)
    PROVE  DInv'
  <1>0. /\ TypeOK /\ Local(c) /\ IInv /\ RootLocal(c) /\ state \in [Slots -> Words]
        /\ cpu[c].pc = "run" /\ cpu[c].slot # 0
    BY ZenonT(60) DEF DInv, IInv, TypeOK, RuntimeStep, KernelSleep, RuntimeSpawn, RuntimeStop,
       RuntimeReclaim, RuntimeReset, RunsKernel, At, Local, HasTask, TaskPcs
  <1>1. frame[c].ret = "save"
    BY Zenon, <1>0, NoReturn DEF CallPcs
  <1>2. UNCHANGED <<ctxSaved, user, fresh, cr3>>
    BY Zenon DEF RuntimeStep, KernelSleep, RuntimeSpawn, RuntimeStop, RuntimeReclaim,
       RuntimeReset, taskVars, historyVars
  <1>3. ASSUME NEW d \in Delays, KernelSleep(c, d) PROVE DInv'
    <2>1. MovesTo(c, {"save"}) \/ MovesTo(c, {"fatal"})
      BY ZenonT(60), <1>0, <1>3, TrapEffect, GotoEffect, PcNames DEF KernelSleep
    <2>2. Aside(c) /\ state' = state
      BY Zenon, <1>0, <1>3, QuietRuntime
    <2>3. frame' = frame
      BY Zenon, <1>3 DEF KernelSleep
    <2>4. Leaves(c)
      BY Zenon, <1>1, <1>2, <2>1, <2>2, <2>3 DEF Leaves, MovesTo, PublishPcs
    <2> QED
      BY Zenon, <2>4, LeavesPreserves
  <1>4. ASSUME NEW p \in CallPcs, NEW f, Call(c, p, f), lock = None,
               \A s \in Slots : Owned(state[s]) => Owned(state'[s])
        PROVE  DInv'
    <2>1. /\ MovesTo(c, {p}) /\ \A d \in Cpus \ {c} : cpu'[d] = cpu[d] /\ frame'[d] = frame[d]
      BY Zenon, <1>0, <1>4, CallEffect DEF Pcs
    <2>2. Aside(c)
      BY Zenon, <1>4, <2>1, NoneAssumption DEF Aside
    <2>3. cpu'[c].pc \in CallPcs /\ cpu'[c].slot = cpu[c].slot /\ cpu'[c].gen = cpu[c].gen
      BY Zenon, <2>1 DEF MovesTo
    <2>4. cr3[c] = IF user[cpu[c].slot] THEN <<cpu[c].slot, cpu[c].gen>> ELSE None
      BY Zenon, <1>0 DEF RootLocal
    <2>5. cr3'[c] = IF user'[cpu'[c].slot] THEN <<cpu'[c].slot, cpu'[c].gen>> ELSE None
      BY Zenon, <1>2, <2>3, <2>4
    <2>6. RootLocal(c)'
      BY Zenon, <2>3, <2>5 DEF RootLocal
    <2>7. cpu'[c].pc \notin PublishPcs \cup {"resume"}
      BY Zenon, <2>3 DEF CallPcs, PublishPcs
    <2> QED
      BY Zenon, <1>2, <1>4, <2>2, <2>6, <2>7, PlainPreserves
  <1>5. \A s \in Slots : \A w : state' = [state EXCEPT ![s] = w] /\ ~Owned(state[s])
          => \A t \in Slots : Owned(state[t]) => Owned(state'[t])
    BY Zenon, <1>0
  <1>6. ASSUME NEW s \in Slots, RuntimeSpawn(c, s) PROVE DInv'
    <2>1. ~Owned(state[s])
      BY Zenon, <1>6 DEF RuntimeSpawn, Owned
    <2> QED
      BY Zenon, <1>4, <1>5, <1>6, <2>1 DEF RuntimeSpawn, Locked, CallPcs
  <1>7. ASSUME NEW h \in held, RuntimeReclaim(c, h) PROVE DInv'
    <2>1. h[1] \in Slots /\ h[2] \in Nat
      BY Zenon, <1>0 DEF TypeOK, Handles
    <2>2. state[h[1]] = Pack(h[2], "COMPLETED") /\ Pack(h[2], "COMPLETED").st = "COMPLETED"
      BY Zenon, <1>7, <2>1, PackType DEF RuntimeReclaim, States
    <2>3. ~Owned(state[h[1]])
      BY Zenon, <2>2 DEF Owned
    <2> QED
      BY Zenon, <1>4, <1>5, <1>7, <2>1, <2>3 DEF RuntimeReclaim, Locked, CallPcs
  <1>8. ASSUME NEW h \in held, RuntimeStop(c, h) PROVE DInv'
    BY Zenon, <1>4, <1>8 DEF RuntimeStop, Locked, CallPcs
  <1>9. CASE RuntimeReset(c)
    BY Zenon, <1>4, <1>9 DEF RuntimeReset, Locked, CallPcs
  <1> QED
    BY Zenon, <1>3, <1>6, <1>7, <1>8, <1>9 DEF RuntimeStep

(* A step of a CPU on the task it executes, which writes no word and no    *)
(* other task.                                                             *)
LEMMA OwnTaskKeeps ==
    ASSUME DInv, IInv', NEW c \in Cpus, Aside(c), Executing(c), state' = state, user' = user,
           \A d \in Cpus \ {c} : cr3'[d] = cr3[d],
           \A s \in Slots \ {cpu[c].slot} : ctxSaved'[s] = ctxSaved[s] /\ fresh'[s] = fresh[s],
           ContextLocal(c)', RootLocal(c)'
    PROVE  DInv'
  <1>1. IInv /\ Owned(state[cpu[c].slot])
    BY Zenon DEF DInv, IInv, ExclusiveExecution
  <1>2. \A d \in Cpus \ {c} : Executing(d) => cpu[d].slot \in Slots \ {cpu[c].slot}
    BY ZenonT(60), <1>1 DEF IInv, ExclusiveExecution, Executing, TypeOK, CpuRecords
  <1>3. \A s \in Slots : ~Owned(state'[s]) => Kept(s)'
    <2>1. \A s \in Slots : ~Owned(state[s]) => s # cpu[c].slot /\ Kept(s)
      BY Zenon, <1>1 DEF DInv
    <2> QED
      BY Zenon, <2>1 DEF Kept
  <1> QED
    BY Zenon, <1>2, <1>3, DispatchPreserves

(* save_context_from_interrupt saves the context before finish publishes.  *)
LEMMA SaveKeeps ==
    ASSUME DInv, IInv', NEW c \in Cpus, Save(c)
    PROVE  DInv'
  <1> DEFINE s == cpu[c].slot
  <1>0. /\ TypeOK /\ Local(c) /\ cpu[c].pc = "save" /\ s \in Slots \cup {0}
        /\ ctxSaved \in [Slots -> BOOLEAN] /\ fresh \in [Slots -> BOOLEAN]
        /\ cr3 \in [Cpus -> Handles \cup {None}] /\ frame' = frame /\ user' = user
    BY Zenon DEF DInv, IInv, TypeOK, CpuRecords, Save, At
  <1>1. frame'[c].ret = "save"
    BY Zenon, <1>0, NoReturn DEF CallPcs
  <1>2. Aside(c) /\ state' = state
    BY Zenon, <1>0, QuietDispatch
  <1>3. CASE s = 0
    <2>1. MovesTo(c, {"clear"}) /\ UNCHANGED <<ctxSaved, fresh, cr3>>
      BY Zenon, <1>0, <1>3, GotoEffect, PcNames DEF Save
    <2>2. Leaves(c)
      BY Zenon, <1>0, <1>1, <1>2, <2>1 DEF Leaves, MovesTo, PublishPcs
    <2> QED
      BY Zenon, <2>2, LeavesPreserves
  <1>4. CASE s # 0
    <2>1. Executing(c)
      BY Zenon, <1>0, <1>4 DEF Executing
    <2>2. \A d \in Cpus \ {c} : cr3'[d] = cr3[d]
      <3>1. \E r : cr3' = [cr3 EXCEPT ![c] = r]
        BY Zenon, <1>4 DEF Save
      <3> QED
        BY Zenon, <1>0, <3>1
    <2>3. CASE state[s].gen = cpu[c].gen /\ Owned(state[s])
      <3>1. /\ MovesTo(c, {"finLoad"}) /\ ctxSaved' = [ctxSaved EXCEPT ![s] = TRUE]
            /\ fresh' = [fresh EXCEPT ![s] = TRUE]
        BY Zenon, <1>0, <1>4, <2>3, GotoEffect, PcNames DEF Save
      <3>2. s \in Slots
        BY Zenon, <1>0, <1>4
      <3>3. ctxSaved'[s] = TRUE /\ fresh'[s] = TRUE
        BY Zenon, <1>0, <3>1, <3>2
      <3>4. \A t \in Slots \ {s} : ctxSaved'[t] = ctxSaved[t] /\ fresh'[t] = fresh[t]
        BY Zenon, <1>0, <3>1, <3>2
      <3>5. ContextLocal(c)' /\ RootLocal(c)'
        <4>1. cpu'[c].pc = "finLoad" /\ cpu'[c].slot = s
          BY Zenon, <3>1 DEF MovesTo
        <4> QED
          BY Zenon, <1>1, <3>3, <4>1 DEF ContextLocal, RootLocal, Kept
      <3> QED
        BY Zenon, <1>0, <1>2, <2>1, <2>2, <3>4, <3>5, OwnTaskKeeps
    <2>4. CASE ~(state[s].gen = cpu[c].gen /\ Owned(state[s]))
      <3>1. MovesTo(c, {"fatal"}) /\ UNCHANGED <<ctxSaved, fresh>>
        BY Zenon, <1>0, <1>4, <2>4, GotoEffect, PcNames DEF Save
      <3>2. Leaves(c)
        BY Zenon, <1>0, <1>1, <1>2, <2>2, <3>1 DEF Leaves, MovesTo, PublishPcs
      <3> QED
        BY Zenon, <3>2, LeavesPreserves
    <2> QED
      BY Zenon, <2>3, <2>4
  <1> QED
    BY Zenon, <1>3, <1>4

(* finish, up to its compare-exchange: the saved context stays.            *)
LEMMA FinishKeeps ==
    ASSUME DInv, IInv', NEW c \in Cpus, FinishLoad(c) \/ FinishObject(c) \/ FinishDeadline(c)
    PROVE  DInv'
  <1>0. /\ TypeOK /\ Local(c) /\ cpu[c].pc \in PublishPcs /\ cpu[c].pc \notin CallPcs
        /\ ContextLocal(c) /\ IInv
    BY ZenonT(60) DEF DInv, IInv, FinishLoad, FinishObject, FinishDeadline, At, PublishPcs, CallPcs
  <1>1. frame[c].ret = "save" /\ Executing(c) /\ Kept(cpu[c].slot)
    BY Zenon, <1>0, NoReturn, DispatchedExecutes DEF ContextLocal
  <1>2. Aside(c) /\ state' = state
    BY Zenon, <1>0, QuietDispatch
  <1>3. UNCHANGED <<ctxSaved, user, fresh, cr3>>
    BY Zenon DEF FinishLoad, FinishObject, FinishDeadline, taskVars, historyVars
  <1>4. MovesTo(c, {"finObject", "finDeadline", "finCas", "fatal"}) /\ frame'[c].ret = "save"
    <2>1. CASE FinishLoad(c)
      <3> DEFINE f == [NoFrame EXCEPT !.slot = cpu[c].slot, !.old = state[cpu[c].slot]]
      <3>1. f.ret = "save"
        BY Zenon DEF NoFrame
      <3>2. Call(c, "finObject", f) \/ (Goto(c, "fatal") /\ UNCHANGED frame)
        BY Zenon, <2>1 DEF FinishLoad
      <3> HIDE DEF f
      <3>3. (MovesTo(c, {"finObject"}) /\ frame'[c] = f) \/ (MovesTo(c, {"fatal"}) /\ frame' = frame)
        <4>1. "finObject" \in Pcs /\ "fatal" \in Pcs
          BY Zenon, PcNames
        <4> QED
          BY Zenon, <1>0, <3>2, <4>1, CallEffect, GotoEffect
      <3> QED
        BY Zenon, <1>1, <3>1, <3>3 DEF MovesTo
    <2>2. CASE FinishObject(c) \/ FinishDeadline(c)
      <3>1. (MovesTo(c, {"finDeadline"}) \/ MovesTo(c, {"finCas"})) /\ frame' = frame
        BY Zenon, <1>0, <2>2, GotoEffect, PcNames DEF FinishObject, FinishDeadline
      <3> QED
        BY Zenon, <1>1, <3>1 DEF MovesTo
    <2> QED
      BY Zenon, <2>1, <2>2
  <1>5. cpu'[c].slot = cpu[c].slot /\ cpu'[c].pc # "resume" /\ cpu'[c].pc # "run"
    BY Zenon, <1>4 DEF MovesTo
  <1>6. ContextLocal(c)' /\ RootLocal(c)'
    BY Zenon, <1>1, <1>3, <1>4, <1>5 DEF ContextLocal, RootLocal, Kept
  <1> QED
    BY Zenon, <1>1, <1>2, <1>3, <1>6, OwnTaskKeeps

(* finish publishes the task with its context; or the word has changed and *)
(* it looks again.                                                         *)
LEMMA PublishKeeps ==
    ASSUME DInv, IInv', NEW c \in Cpus, FinishCas(c)
    PROVE  DInv'
  <1> DEFINE s == cpu[c].slot
  <1>0. /\ TypeOK /\ cpu[c].pc = "finCas" /\ IInv /\ ContextLocal(c)
        /\ state \in [Slots -> Words] /\ frame \in [Cpus -> Frames]
    BY Zenon DEF DInv, IInv, FinishCas, At, TypeOK
  <1>1. Executing(c) /\ s \in Slots /\ Kept(s)
    BY Zenon, <1>0, DispatchedExecutes DEF ContextLocal, PublishPcs
  <1>2. frame'[c].ret = "save" /\ \A d \in Cpus \ {c} : frame'[d] = frame[d]
    BY Zenon, <1>0 DEF FinishCas, NoFrame
  <1>3. UNCHANGED <<ctxSaved, user, fresh, cr3, lock>>
    BY Zenon DEF FinishCas
  <1>4. /\ MovesTo(c, {"clear", "finLoad"}) /\ \A d \in Cpus \ {c} : cpu'[d] = cpu[d]
        /\ \A t \in Slots \ {s} : state'[t] = state[t]
    <2>1. CASE Compare(c)
      BY Zenon, <1>0, <1>1, <2>1, GotoEffect, PcNames DEF FinishCas, MovesTo
    <2>2. CASE ~Compare(c)
      BY Zenon, <1>0, <2>2, GotoEffect, PcNames DEF FinishCas, MovesTo
    <2> QED
      BY Zenon, <2>1, <2>2
  <1>5. Aside(c)
    BY Zenon, <1>2, <1>3, <1>4 DEF Aside
  <1>6. cpu'[c].slot = s /\ cpu'[c].pc # "resume" /\ cpu'[c].pc # "run"
    BY Zenon, <1>4 DEF MovesTo
  <1>7. ContextLocal(c)' /\ RootLocal(c)'
    BY Zenon, <1>1, <1>2, <1>3, <1>6 DEF ContextLocal, RootLocal, Kept
  <1>8. \A t \in Slots : ~Owned(state'[t]) => Kept(t)'
    BY Zenon, <1>1, <1>3, <1>4 DEF DInv, Kept
  <1> QED
    BY Zenon, <1>3, <1>5, <1>7, <1>8, DispatchPreserves

(* clear_current and the scan of claim_next.                               *)
LEMMA ScanKeeps ==
    ASSUME DInv, IInv', NEW c \in Cpus, ClearCurrent(c) \/ ClaimScan(c)
    PROVE  DInv'
  <1>0. /\ TypeOK /\ Local(c) /\ cpu \in [Cpus -> CpuRecords] /\ frame \in [Cpus -> Frames]
        /\ cr3 \in [Cpus -> Handles \cup {None}]
    BY Zenon DEF DInv, IInv, TypeOK
  <1>1. UNCHANGED <<state, ctxSaved, user, fresh, lock>>
    BY Zenon DEF ClearCurrent, ClaimScan, taskVars, historyVars
  <1>2. \A d \in Cpus \ {c} : cr3'[d] = cr3[d]
    <2>1. cr3' = cr3 \/ cr3' = [cr3 EXCEPT ![c] = None]
      BY Zenon DEF ClearCurrent, ClaimScan
    <2> QED
      BY Zenon, <1>0, <2>1
  <1>3. CASE ClearCurrent(c)
    <2>1. cpu'[c].pc = "scan" /\ \A d \in Cpus \ {c} : cpu'[d] = cpu[d]
      BY Zenon, <1>0, <1>3 DEF ClearCurrent
    <2>2. frame'[c].ret = "save" /\ \A d \in Cpus \ {c} : frame'[d] = frame[d]
      BY Zenon, <1>0, <1>3 DEF ClearCurrent, NoFrame
    <2>3. Aside(c)
      BY Zenon, <1>1, <2>1, <2>2 DEF Aside
    <2>4. Leaves(c)
      BY Zenon, <1>1, <1>2, <2>1, <2>2, <2>3 DEF Leaves, PublishPcs
    <2> QED
      BY Zenon, <2>4, LeavesPreserves
  <1>4. CASE ClaimScan(c)
    <2>0. frame[c].ret = "save"
      BY Zenon, <1>4, NoReturn DEF ClaimScan, At, CallPcs
    <2>1. Aside(c)
      BY Zenon, <1>0, <1>4, QuietDispatch
    <2>2. cpu'[c].pc \in {"idle", "claimCas", "scan"} /\ frame'[c].ret = "save"
      <3>1. CASE Goto(c, "idle") /\ frame' = [frame EXCEPT ![c] = NoFrame]
        <4>1. MovesTo(c, {"idle"})
          BY Zenon, <1>0, <3>1, GotoEffect, PcNames
        <4> QED
          BY Zenon, <1>0, <3>1, <4>1 DEF MovesTo, NoFrame
      <3>2. CASE Call(c, "claimCas", [frame[c] EXCEPT !.old = state[frame[c].slot]])
        <4>1. MovesTo(c, {"claimCas"}) /\ frame'[c] = [frame[c] EXCEPT !.old = state[frame[c].slot]]
          <5> DEFINE f == [frame[c] EXCEPT !.old = state[frame[c].slot]]
          <5>1. "claimCas" \in Pcs /\ Call(c, "claimCas", f)
            BY Zenon, <3>2, PcNames
          <5> HIDE DEF f
          <5>2. MovesTo(c, {"claimCas"}) /\ frame'[c] = f
            BY Zenon, <1>0, <5>1, CallEffect
          <5> QED
            BY Zenon, <5>2 DEF f
        <4> QED
          BY <1>0, <2>0, <4>1, OperandRet DEF MovesTo
      <3>3. CASE ScanOn(c)
        <4>1. MovesTo(c, {"scan"})
          BY Zenon, <1>0, <3>3, GotoEffect, PcNames DEF ScanOn
        <4>2. frame'[c].ret = "save"
          BY Zenon, <1>0, <3>3 DEF ScanOn, NoFrame
        <4> QED
          BY Zenon, <4>1, <4>2 DEF MovesTo
      <3> QED
        BY Zenon, <1>4, <3>1, <3>2, <3>3 DEF ClaimScan
    <2>3. Leaves(c)
      BY Zenon, <1>1, <1>2, <2>1, <2>2 DEF Leaves, PublishPcs
    <2> QED
      BY Zenon, <2>3, LeavesPreserves
  <1> QED
    BY Zenon, <1>3, <1>4

(* claim_next takes over what the last publisher of the slot left.         *)
LEMMA ClaimKeeps ==
    ASSUME DInv, IInv', NEW c \in Cpus, ClaimCas(c)
    PROVE  DInv'
  <1> DEFINE s == frame[c].slot
             old == frame[c].old
  <1>0. /\ TypeOK /\ IInv /\ Local(c) /\ cpu[c].pc = "claimCas" /\ s \in Slots
        /\ old.gen \in Nat /\ old.st = "RUNNABLE" /\ cpu \in [Cpus -> CpuRecords]
        /\ state \in [Slots -> Words] /\ frame \in [Cpus -> Frames]
    BY ZenonT(60) DEF DInv, IInv, ClaimCas, At, TypeOK, Frames, Words, Local, KnowsWord
  <1>1. UNCHANGED <<ctxSaved, user, fresh, cr3, lock>>
    BY Zenon DEF ClaimCas, taskVars, historyVars
  <1>2. frame'[c].ret = "save" /\ \A d \in Cpus \ {c} : frame'[d] = frame[d]
    <2>1. \A t, n : NoFrame.ret = "save" /\ [NoFrame EXCEPT !.op = "claim", !.slot = t, !.off = n].ret = "save"
      BY Zenon DEF NoFrame
    <2>2. \E f : frame' = [frame EXCEPT ![c] = f] /\ f.ret = "save"
      BY Zenon, <2>1 DEF ClaimCas, ScanOn
    <2> QED
      BY Zenon, <1>0, <2>2
  <1>3. CASE Compare(c)
    <2>1. ~Owned(state[s])
      BY Zenon, <1>0, <1>3 DEF Compare, Owned
    <2>2. Kept(s)
      BY Zenon, <1>0, <2>1 DEF DInv
    <2>3. /\ cpu'[c].pc = "dispatch" /\ cpu'[c].slot = s
          /\ \A d \in Cpus \ {c} : cpu'[d] = cpu[d]
      <3>1. cpu' = [cpu EXCEPT ![c] = [cpu[c] EXCEPT !.pc = "dispatch", !.slot = s,
                                                     !.gen = old.gen]]
        BY Zenon, <1>3 DEF ClaimCas
      <3>2. cpu[c] \in CpuRecords
        BY Zenon, <1>0
      <3> QED
        BY Zenon, <1>0, <3>1, <3>2 DEF CpuRecords
    <2>4. Aside(c)
      BY Zenon, <1>1, <1>2, <2>3 DEF Aside
    <2>5. ContextLocal(c)' /\ RootLocal(c)'
      BY Zenon, <1>1, <1>2, <2>2, <2>3 DEF ContextLocal, RootLocal, Kept
    <2>6. \A t \in Slots \ {s} : state'[t] = state[t]
      BY Zenon, <1>0, <1>3 DEF ClaimCas
    <2>7. \A t \in Slots : ~Owned(state'[t]) => Kept(t)'
      BY Zenon, <1>1, <2>2, <2>6 DEF DInv, Kept
    <2> QED
      BY Zenon, <1>1, <2>4, <2>5, <2>7, DispatchPreserves
  <1>4. CASE ~Compare(c)
    <2>1. ScanOn(c) /\ state' = state
      BY Zenon, <1>4 DEF ClaimCas
    <2>2. MovesTo(c, {"scan"}) /\ \A d \in Cpus \ {c} : cpu'[d] = cpu[d]
      BY Zenon, <1>0, <2>1, GotoEffect, PcNames DEF ScanOn
    <2>3. Aside(c)
      BY Zenon, <1>1, <1>2, <2>2 DEF Aside
    <2>4. Leaves(c)
      BY Zenon, <1>1, <1>2, <2>1, <2>2, <2>3 DEF Leaves, MovesTo, PublishPcs
    <2> QED
      BY Zenon, <2>4, LeavesPreserves
  <1> QED
    BY Zenon, <1>3, <1>4

(* Dispatch: a task that has run resumes where it stopped.                 *)
LEMMA DispatchKeeps ==
    ASSUME DInv, IInv', NEW c \in Cpus, Dispatch(c)
    PROVE  DInv'
  <1>0. TypeOK /\ Local(c) /\ IInv /\ cpu[c].pc = "dispatch" /\ ContextLocal(c)
    BY Zenon DEF DInv, IInv, Dispatch, At
  <1>1. /\ frame[c].ret = "save" /\ Executing(c) /\ cpu[c].slot \in Slots /\ Kept(cpu[c].slot)
    <2>1. cpu[c].pc \in PublishPcs /\ cpu[c].pc \notin CallPcs
      BY Zenon, <1>0 DEF PublishPcs, CallPcs
    <2> QED
      BY Zenon, <1>0, <2>1, NoReturn, DispatchedExecutes DEF ContextLocal
  <1>2. Aside(c) /\ state' = state
    BY Zenon, <1>0, QuietDispatch
  <1>3. UNCHANGED <<ctxSaved, user, fresh, cr3, frame>>
    BY Zenon DEF Dispatch, taskVars, historyVars
  <1>4. /\ cpu'[c].slot = cpu[c].slot /\ cpu'[c].pc \in {"resume", "initContext"}
        /\ cpu'[c].pc = "resume" => ctxSaved[cpu[c].slot]
    <2>1. CASE ctxSaved[cpu[c].slot]
      <3>1. MovesTo(c, {"resume"})
        BY Zenon, <1>0, <2>1, GotoEffect, PcNames DEF Dispatch
      <3> QED
        BY Zenon, <2>1, <3>1 DEF MovesTo
    <2>2. CASE ~ctxSaved[cpu[c].slot]
      <3>1. MovesTo(c, {"initContext"})
        BY Zenon, <1>0, <2>2, GotoEffect, PcNames DEF Dispatch
      <3> QED
        BY Zenon, <2>2, <3>1 DEF MovesTo
    <2> QED
      BY Zenon, <2>1, <2>2
  <1>5. ContextLocal(c)'
    <2>1. cpu'[c].pc \notin PublishPcs
      BY Zenon, <1>4 DEF PublishPcs
    <2> QED
      BY Zenon, <1>1, <1>3, <1>4, <2>1 DEF ContextLocal, Kept
  <1>6. RootLocal(c)'
    BY Zenon, <1>1, <1>3, <1>4 DEF RootLocal
  <1> QED
    BY Zenon, <1>1, <1>2, <1>3, <1>5, <1>6, OwnTaskKeeps

(* A task that never ran gets its initial context.                         *)
LEMMA InitContextKeeps ==
    ASSUME DInv, IInv', NEW c \in Cpus, InitContext(c)
    PROVE  DInv'
  <1> DEFINE s == cpu[c].slot
  <1>0. /\ TypeOK /\ Local(c) /\ cpu[c].pc = "initContext" /\ s # 0 /\ s \in Slots
        /\ ctxSaved \in [Slots -> BOOLEAN] /\ fresh \in [Slots -> BOOLEAN]
    BY ZenonT(60) DEF DInv, IInv, TypeOK, CpuRecords, InitContext, At, Local, HasTask, TaskPcs
  <1>1. frame'[c].ret = "save"
    BY Zenon, <1>0, NoReturn DEF CallPcs, InitContext
  <1>2. Aside(c) /\ state' = state
    BY Zenon, <1>0, QuietDispatch
  <1>3. UNCHANGED <<user, cr3>>
    BY Zenon DEF InitContext
  <1>4. CASE state[s].gen = cpu[c].gen /\ state[s].st = "RUNNING"
    <2>1. /\ MovesTo(c, {"resume"}) /\ ctxSaved' = [ctxSaved EXCEPT ![s] = TRUE]
          /\ fresh' = [fresh EXCEPT ![s] = TRUE]
      BY Zenon, <1>0, <1>4, GotoEffect, PcNames DEF InitContext
    <2>2. ctxSaved'[s] = TRUE /\ fresh'[s] = TRUE
      BY Zenon, <1>0, <2>1
    <2>3. \A t \in Slots \ {s} : ctxSaved'[t] = ctxSaved[t] /\ fresh'[t] = fresh[t]
      BY Zenon, <1>0, <2>1
    <2>4. cpu'[c].pc = "resume" /\ cpu'[c].slot = s /\ cpu'[c].pc \notin PublishPcs
      BY Zenon, <2>1 DEF MovesTo, PublishPcs
    <2>5. ContextLocal(c)' /\ RootLocal(c)'
      BY Zenon, <1>1, <2>2, <2>4 DEF ContextLocal, RootLocal
    <2>6. Executing(c)
      BY Zenon, <1>0 DEF Executing
    <2> QED
      BY Zenon, <1>2, <1>3, <2>3, <2>5, <2>6, OwnTaskKeeps
  <1>5. CASE ~(state[s].gen = cpu[c].gen /\ state[s].st = "RUNNING")
    <2>1. MovesTo(c, {"fatal"}) /\ UNCHANGED <<ctxSaved, fresh>>
      BY Zenon, <1>0, <1>5, GotoEffect, PcNames DEF InitContext
    <2>2. Leaves(c)
      BY Zenon, <1>1, <1>2, <1>3, <2>1 DEF Leaves, MovesTo, PublishPcs
    <2> QED
      BY Zenon, <2>2, LeavesPreserves
  <1> QED
    BY Zenon, <1>4, <1>5

(* The task runs on its own root, and its context is stale from here on.   *)
LEMMA ResumeKeeps ==
    ASSUME DInv, IInv', NEW c \in Cpus, Resume(c)
    PROVE  DInv'
  <1> DEFINE s == cpu[c].slot
  <1>0. /\ TypeOK /\ Local(c) /\ IInv /\ cpu[c].pc = "resume"
        /\ fresh \in [Slots -> BOOLEAN] /\ cr3 \in [Cpus -> Handles \cup {None}]
    BY Zenon DEF DInv, IInv, TypeOK, Resume, At
  <1>1. frame[c].ret = "save" /\ Executing(c) /\ s \in Slots
    <2>1. cpu[c].pc \in PublishPcs \cup {"resume", "run"} /\ cpu[c].pc \notin CallPcs
      BY Zenon, <1>0 DEF CallPcs
    <2> QED
      BY Zenon, <1>0, <2>1, NoReturn, DispatchedExecutes
  <1>2. Aside(c) /\ state' = state
    BY Zenon, <1>0, QuietDispatch
  <1>3. /\ UNCHANGED <<ctxSaved, user, frame>> /\ MovesTo(c, {"run"})
        /\ fresh' = [fresh EXCEPT ![s] = FALSE]
        /\ cr3' = [cr3 EXCEPT ![c] = IF user[s] THEN <<s, cpu[c].gen>> ELSE None]
    BY Zenon, <1>0, GotoEffect, PcNames DEF Resume
  <1>4. \A t \in Slots \ {s} : fresh'[t] = fresh[t]
    BY Zenon, <1>0, <1>3
  <1>5. \A d \in Cpus \ {c} : cr3'[d] = cr3[d]
    BY Zenon, <1>0, <1>3
  <1>6. cr3'[c] = IF user[s] THEN <<s, cpu[c].gen>> ELSE None
    BY Zenon, <1>0, <1>3
  <1>7. /\ cpu'[c].slot = s /\ cpu'[c].gen = cpu[c].gen /\ cpu'[c].pc = "run"
        /\ cpu'[c].pc \notin PublishPcs
    BY Zenon, <1>3 DEF MovesTo, PublishPcs
  <1>8. cr3'[c] = IF user'[cpu'[c].slot] THEN <<cpu'[c].slot, cpu'[c].gen>> ELSE None
    BY Zenon, <1>3, <1>6, <1>7
  <1>9. ContextLocal(c)' /\ RootLocal(c)'
    BY Zenon, <1>1, <1>3, <1>7, <1>8 DEF ContextLocal, RootLocal
  <1> QED
    BY Zenon, <1>1, <1>2, <1>3, <1>4, <1>5, <1>9, OwnTaskKeeps

(* Every step keeps the invariant.                                         *)
LEMMA DispatchInductive ==
    ASSUME DInv, [Next]_vars
    PROVE  DInv'
  <1>1. IInv'
    BY Zenon, Inductive DEF DInv
  <1>2. CASE UNCHANGED vars
    BY Zenon, <1>1, <1>2 DEF vars, slotVars, taskVars, historyVars, envVars, DInv, Kept, ContextLocal,
       RootLocal
  <1>3. ASSUME NEW c \in Cpus, HandlerStep(c) PROVE DInv'
    <2>1. CASE CallStep(c)
      BY Zenon, <1>1, <2>1, CallKeeps
    <2>2. CASE ~CallStep(c)
      BY Zenon, <1>1, <1>3, <2>2, WaitKeeps, SaveKeeps, FinishKeeps, PublishKeeps, ScanKeeps, ClaimKeeps,
         DispatchKeeps, InitContextKeeps, ResumeKeeps DEF HandlerStep, CallStep
    <2> QED
      BY Zenon, <2>1, <2>2
  <1> QED
    BY Zenon, <1>1, <1>2, <1>3, InterruptKeeps, UserKeeps, RuntimeKeeps DEF Next

(* The boot state.                                                         *)
LEMMA DispatchInitially ==
    ASSUME Init
    PROVE  DInv
  <1>1. IInv
    BY Zenon, Initially
  <1>2. \A s \in Slots : ~ctxSaved[s]
    BY Zenon DEF Init
  <1>3. \A c \in Cpus : cpu[c].pc = "off" /\ frame[c].ret = "save"
    BY Zenon DEF Init, NoFrame
  <1>4. \A c \in Cpus : ContextLocal(c) /\ RootLocal(c)
    BY Zenon, <1>3 DEF ContextLocal, RootLocal, PublishPcs
  <1> QED
    BY Zenon, <1>1, <1>2, <1>4 DEF DInv, Kept
-----------------------------------------------------------------------------
(* Contexts and roots are in order in every reachable state, for any       *)
(* number of CPUs, slots, wait objects and generations.                    *)
THEOREM DispatchInvariance == Spec => []DInv
  BY DispatchInitially, DispatchInductive, PTL DEF Spec

(* A task is never resumed from a context older than its last run: finish  *)
(* publishes a task only after save_context_from_interrupt, and nobody     *)
(* else writes the context of a task that a CPU executes.                  *)
THEOREM LastContextResumed == Spec => []ResumesLastContext
  <1>1. DInv => ResumesLastContext
    BY Zenon DEF DInv, ContextLocal, ResumesLastContext, At
  <1> QED
    BY <1>1, DispatchInvariance, PTL

(* Task code runs on its own root, also when it comes back from a          *)
(* scheduler call.                                                         *)
THEOREM OwnRootLoaded == Spec => []RunsOnOwnRoot
  <1>1. DInv => RunsOnOwnRoot
    BY Zenon DEF DInv, RootLocal, RunsOnOwnRoot, At
  <1> QED
    BY <1>1, DispatchInvariance, PTL

=============================================================================
