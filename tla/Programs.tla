------------------------------ MODULE Programs ------------------------------
\* Programs: the manager's program slots (service_manager.rs), the runtime that owns
\* what a running program holds (program_runtime.rs), the package exchange with
\* Storage through which a program is loaded, and the part of supervise() and of a
\* graph restart that starts and reaps them (service_runtime.rs).
\*
\* The runtime lock is held by supervise() except while an exchange waits; manager
\* calls run when it is free. A resource is an abstract token: what matters is who
\* holds it and whether every path gives it back.
EXTENDS Integers, FiniteSets, Sequences

CONSTANTS Names, ProgramSlots,      \* ProgramSlots = 1..n
          Exchanges,                \* package exchanges one load needs
          MaxCalls, MaxRestarts,    \* bounds
          OverlappingStarts         \* whether a start may be asked for while one is pending

VARIABLES manager,    \* slot -> [name, gen, state]: the manager's record
          slots,      \* slot -> [gen, task, process, held]: the runtime's record
          pending,    \* pending_program_start: slot, or 0
          loading,    \* the slot start_program works on, or 0
          exchange,   \* exchanges done for it
          request,    \* package_request: id in flight, or 0
          response,   \* package_response: id answered, or 0
          inbox,      \* ids Storage has still to answer
          lastId, accepted, leaked, calls, restarts

vars == <<manager, slots, pending, loading, exchange, request, response, inbox, lastId,
          accepted, leaked, calls, restarts>>

Resources == {"image", "tables", "process", "ipc", "staging", "bootstrap", "task"}
EmptySlot == [gen |-> 0, task |-> "none", process |-> "none", held |-> {}]

TypeOK ==
  /\ manager \in [ProgramSlots -> [name : Names \cup {"none"}, gen : Nat \ {0},
       state : {"Vacant", "Starting", "Running", "Stopping", "Stopped", "Exited", "Faulted"}]]
  /\ slots \in [ProgramSlots -> [gen : Nat, task : {"none", "live", "stopping", "completed"},
       process : {"none", "Running", "Exited", "Faulted"}, held : SUBSET Resources]]
  /\ pending \in ProgramSlots \cup {0} /\ loading \in ProgramSlots \cup {0}
  /\ leaked \subseteq Resources

Init ==
  /\ manager = [s \in ProgramSlots |-> [name |-> "none", gen |-> 1, state |-> "Vacant"]]
  /\ slots = [s \in ProgramSlots |-> EmptySlot]
  /\ pending = 0 /\ loading = 0 /\ exchange = 0 /\ request = 0 /\ response = 0
  /\ inbox = {} /\ lastId = 0 /\ accepted = <<0, 0>> /\ leaked = {} /\ calls = 0 /\ restarts = 0

exchangeVars == <<loading, exchange, request, response, inbox, lastId, accepted>>

-----------------------------------------------------------------------------
\* Manager calls (ProgramManager::request and the actions manager_call takes).

FindProgram(n) == {s \in ProgramSlots : manager[s].state # "Vacant" /\ manager[s].name = n}
Vacant == {s \in ProgramSlots : manager[s].state = "Vacant"}

Startable == {"Vacant", "Stopped", "Exited", "Faulted"}

\* ProgramStart: the program's slot, or the first vacant one; refused while it is
\* starting, running or stopping. The start itself is left to supervise().
ManagerProgramStart(n) ==
  /\ calls < MaxCalls /\ (OverlappingStarts \/ pending = 0)
  /\ LET found == FindProgram(n)
         s == IF found # {} THEN CHOOSE f \in found : TRUE
              ELSE CHOOSE v \in Vacant : \A w \in Vacant : v <= w
     IN /\ found # {} \/ Vacant # {}
        /\ manager[s].state \in Startable
        /\ manager' = [manager EXCEPT ![s] =
             [name |-> n, state |-> "Starting",
              gen |-> IF @.state \in {"Exited", "Faulted"} THEN @.gen + 1 ELSE @.gen]]
        /\ pending' = IF pending = 0 THEN s ELSE pending
  /\ calls' = calls + 1
  /\ UNCHANGED <<slots, exchangeVars, leaked, restarts>>

\* ProgramStop of a running program: its task is asked to stop.
ManagerProgramStop(s) ==
  /\ calls < MaxCalls /\ manager[s].state = "Running"
  /\ manager' = [manager EXCEPT ![s].state = "Stopping"]
  /\ \E t \in {"stopping", "completed"} :
       slots' = [slots EXCEPT ![s].task = IF @ = "live" THEN t ELSE @]
  /\ calls' = calls + 1
  /\ UNCHANGED <<pending, exchangeVars, leaked, restarts>>

-----------------------------------------------------------------------------
\* The program runs.

ProcessEnds(s) ==
  /\ slots[s].task \in {"live", "stopping"} /\ slots[s].process = "Running"
  /\ \E p \in {"Exited", "Faulted"} : slots' = [slots EXCEPT ![s].process = p]
  /\ UNCHANGED <<manager, pending, exchangeVars, leaked, calls, restarts>>

TaskCompletes(s) ==
  /\ \/ slots[s].task = "stopping"
     \/ slots[s].task = "live" /\ slots[s].process # "Running"
  /\ slots' = [slots EXCEPT ![s].task = "completed"]
  /\ UNCHANGED <<manager, pending, exchangeVars, leaked, calls, restarts>>

-----------------------------------------------------------------------------
\* The package exchange.

\* A request is sent: a response that was left over is dropped first. Sending fails
\* while another request is in flight, or when the queue refuses it.
SendRequest(fails) ==
  IF request # 0 \/ fails
  THEN /\ UNCHANGED <<request, inbox, lastId>> /\ response' = 0
  ELSE /\ lastId' = lastId + 1 /\ request' = lastId + 1
       /\ inbox' = inbox \cup {lastId + 1} /\ response' = 0

\* Storage answers what it has received, possibly after Core gave up on it.
StorageAnswers(id) ==
  /\ inbox' = inbox \ {id} /\ response' = id
  /\ UNCHANGED <<manager, slots, pending, loading, exchange, request, lastId, accepted, leaked,
                 calls, restarts>>

\* supervise() takes the pending start; a slot that still holds a task fails it.
TakeStart ==
  /\ loading = 0 /\ pending # 0
  /\ pending' = 0
  /\ IF slots[pending].task # "none"
     THEN /\ manager' = [manager EXCEPT ![pending].state = "Faulted"]
          /\ UNCHANGED exchangeVars
     ELSE \E fails \in BOOLEAN :
            /\ SendRequest(fails)
            /\ IF fails THEN /\ manager' = [manager EXCEPT ![pending].state = "Faulted"]
                             /\ UNCHANGED <<loading, exchange, accepted>>
               ELSE /\ loading' = pending /\ exchange' = 0 /\ UNCHANGED <<manager, accepted>>
  /\ UNCHANGED <<slots, leaked, calls, restarts>>

FailLoad ==
  /\ manager' = [manager EXCEPT ![loading].state = IF @ = "Starting" THEN "Faulted" ELSE @]
  /\ loading' = 0 /\ request' = 0 /\ UNCHANGED <<slots, leaked>>

\* What each step of ProgramRuntime::start acquires, and what its failure gives back.
StartSteps ==
  LET early == {"image", "tables", "process"}
      late == early \cup {"ipc"}
  IN << [gets |-> {"tables"}, undo |-> {"image"}],
        [gets |-> {}, undo |-> {"image", "tables"}],
        [gets |-> {"process"}, undo |-> {"image", "tables"}],
        [gets |-> {}, undo |-> early],
        [gets |-> {"ipc"}, undo |-> early],
        [gets |-> {"staging"}, undo |-> late],
        [gets |-> {"bootstrap"}, undo |-> late \cup {"staging"}],
        [gets |-> {}, undo |-> late \cup {"staging", "bootstrap"}],
        [gets |-> {"task"}, undo |-> late \cup {"staging", "bootstrap"}] >>

HeldBefore(k) == {"image"} \cup UNION {StartSteps[j].gets : j \in 1..(k - 1)}

\* ProgramRuntime::start with the loaded image: every step succeeds, or one fails.
StartProgram ==
  \/ /\ slots' = [slots EXCEPT ![loading] =
          [gen |-> manager[loading].gen, task |-> "live", process |-> "Running",
           held |-> HeldBefore(Len(StartSteps) + 1)]]
     /\ manager' = [manager EXCEPT ![loading].state = IF @ = "Starting" THEN "Running" ELSE @]
     /\ loading' = 0 /\ request' = 0 /\ UNCHANGED leaked
  \/ \E k \in 1..Len(StartSteps) :
       /\ leaked' = leaked \cup (HeldBefore(k) \ StartSteps[k].undo)
       /\ manager' = [manager EXCEPT ![loading].state = IF @ = "Starting" THEN "Faulted" ELSE @]
       /\ loading' = 0 /\ request' = 0 /\ UNCHANGED slots

\* validate_for: the answer belongs to the request Core waits for.
ValidatesMutant(answer) == TRUE
Validates(answer) == answer = request

\* A poll that finds an answer: one that is not for this request is dropped; the last
\* exchange of the load hands the image over, an earlier one sends the next request.
PollResponse ==
  /\ loading # 0 /\ response # 0
  /\ IF ~Validates(response)
     THEN /\ response' = 0
          /\ UNCHANGED <<manager, slots, loading, exchange, request, inbox, lastId, accepted, leaked>>
     ELSE /\ accepted' = <<request, response>>
          /\ \/ /\ response' = 0 /\ FailLoad /\ UNCHANGED <<exchange, inbox, lastId>>
             \/ /\ exchange + 1 < Exchanges
                /\ exchange' = exchange + 1
                /\ lastId' = lastId + 1 /\ request' = lastId + 1
                /\ inbox' = inbox \cup {lastId + 1} /\ response' = 0
                /\ UNCHANGED <<manager, slots, loading, leaked>>
             \/ /\ exchange + 1 >= Exchanges /\ StartProgram
                /\ exchange' = 0 /\ response' = 0 /\ UNCHANGED <<inbox, lastId>>
  /\ UNCHANGED <<pending, calls, restarts>>

\* The polls run out: the request is given up; Storage may still answer it.
ExchangeTimesOut ==
  /\ loading # 0 /\ FailLoad
  /\ UNCHANGED <<pending, exchange, response, inbox, lastId, accepted, calls, restarts>>

-----------------------------------------------------------------------------
\* Reaping, and the graph restart.

\* release_surface_resources and release_tables_and_image.
ReleasedMutant(slot) == [slot EXCEPT !.task = "none", !.process = "none", !.held = @ \cap {"bootstrap"}]
Released(slot) == [slot EXCEPT !.task = "none", !.process = "none",
                               !.held = @ \ Resources]

\* reap(): what the manager is told depends on how the process ended; a process still
\* running when its task completed was stopped from outside.
Reap(s) ==
  /\ loading = 0 /\ pending = 0 /\ slots[s].task = "completed"
  /\ LET exit == IF slots[s].process = "Running" THEN "Stopped" ELSE slots[s].process
         live == manager[s].gen = slots[s].gen /\ manager[s].state \in {"Running", "Stopping"}
     IN manager' = IF ~live THEN manager
                   ELSE [manager EXCEPT ![s].state = exit,
                                        ![s].gen = IF exit = "Stopped" THEN @ + 1 ELSE @]
  /\ slots' = [slots EXCEPT ![s] = Released(@)]
  /\ UNCHANGED <<pending, exchangeVars, leaked, calls, restarts>>

\* A graph restart stops every program and forgets the exchange with the old Storage.
GraphRestart ==
  /\ restarts < MaxRestarts /\ loading = 0 /\ pending = 0
  /\ slots' = [s \in ProgramSlots |-> IF slots[s].task = "none" THEN slots[s] ELSE Released(slots[s])]
  /\ manager' = [s \in ProgramSlots |->
       IF slots[s].task # "none" /\ manager[s].state \in {"Running", "Stopping"}
       THEN [manager[s] EXCEPT !.state = "Stopped", !.gen = @ + 1] ELSE manager[s]]
  /\ request' = 0 /\ response' = 0 /\ inbox' = {}
  /\ restarts' = restarts + 1
  /\ UNCHANGED <<pending, loading, exchange, lastId, accepted, leaked, calls>>

\* supervise() finds nothing to do.
Idle == loading = 0 /\ pending = 0 /\ UNCHANGED vars

Supervise == TakeStart \/ PollResponse \/ ExchangeTimesOut \/ \E s \in ProgramSlots : Reap(s)

Next ==
  \/ \E n \in Names : ManagerProgramStart(n)
  \/ \E s \in ProgramSlots : ManagerProgramStop(s) \/ ProcessEnds(s) \/ TaskCompletes(s)
  \/ \E id \in inbox : StorageAnswers(id)
  \/ Supervise \/ GraphRestart \/ Idle

Fairness == WF_vars(Supervise) /\ \A s \in ProgramSlots : WF_vars(TaskCompletes(s))
Spec == Init /\ [][Next]_vars /\ Fairness

-----------------------------------------------------------------------------
\* A program the manager calls Starting is the one whose start is pending or being
\* carried out: supervise() will decide it.
StartingIsPending ==
  \A s \in ProgramSlots : manager[s].state = "Starting" => s \in {pending, loading}

\* The manager and the runtime agree: a program is Running or Stopping exactly when
\* the runtime holds a task of the same generation for it.
ManagerAgrees ==
  \A s \in ProgramSlots :
    /\ (manager[s].state \in {"Running", "Stopping"}) = (slots[s].task # "none")
    /\ slots[s].task # "none" => slots[s].gen = manager[s].gen

\* "every failure leaves no frame, endpoint, process or task behind": no failed start
\* leaks, and a slot without a task holds nothing.
NothingLeftBehind ==
  /\ leaked = {}
  /\ \A s \in ProgramSlots : slots[s].task = "none" => slots[s].held = {}

\* An exchange is ended only by the answer to its own request, also when Storage
\* answers a request that had timed out.
AcceptedIsAnswer == accepted[1] = accepted[2]


=============================================================================
