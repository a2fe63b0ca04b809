--------------------------- MODULE HealthService ---------------------------
\* The health service (health.rs) over the operation records of
\* service_lifecycle.rs: a one-command mailbox in front of a fixed set of slots,
\* each the record of one operation with a slot generation, the service epoch and
\* the request that started it. The owner and the service take turns in any order:
\* the owner may submit, the service may step, the owner may take the response.
EXTENDS Naturals, FiniteSets

CONSTANTS MAX_OPERATIONS, Requests,
          MaxEpoch, MaxGeneration   \* bounds on restarts and on slot reuse

VARIABLES service_epoch, operations, command, response,
          outcomes   \* history: what was answered for each handle, and in which epoch

vars == <<service_epoch, operations, command, response, outcomes>>

Slots == 1..MAX_OPERATIONS
Nothing == [kind |-> "None"]
Handles == [slot : Slots, generation : 1..MaxGeneration + 1, epoch : 1..MaxEpoch, request : Requests]
Terminal == {"Completed", "Cancelled", "Restarted"}

TypeOK ==
  /\ service_epoch \in 1..MaxEpoch
  /\ operations \in [Slots -> [generation : 1..MaxGeneration + 1, epoch : 0..MaxEpoch,
                               request : {0} \cup Requests,
                               state : {"Vacant", "InFlight"} \cup Terminal]]
  /\ command = Nothing \/ command.kind \in {"Ping", "Complete", "Cancel", "Restart", "Reclaim"}
  /\ response = Nothing
       \/ response.kind \in {"Accepted", "Rejected", "Restarted", "Completed", "Cancelled", "Reclaimed"}
  /\ \A h \in DOMAIN outcomes : h \in Handles

Init ==
  /\ service_epoch = 1
  /\ operations = [s \in Slots |-> [generation |-> 1, epoch |-> 0, request |-> 0, state |-> "Vacant"]]
  /\ command = Nothing /\ response = Nothing
  /\ outcomes = [h \in {} |-> {}]

\* The handles the owner was given.
Issued == DOMAIN outcomes

\* submit(): refused while a command or an untaken response is there.
Submit ==
  /\ command = Nothing /\ response = Nothing
  /\ command' \in [kind : {"Ping"}, request : Requests \cup {0}]
              \cup [kind : {"Complete", "Cancel", "Reclaim"}, handle : Issued]
              \cup {[kind |-> "Restart"]}
  /\ command'.kind = "Restart" => service_epoch < MaxEpoch
  /\ command'.kind = "Reclaim" => operations[command'.handle.slot].generation <= MaxGeneration
  /\ UNCHANGED <<service_epoch, operations, response, outcomes>>

\* current_mut(): the slot still holds the operation the handle names.
IsCurrentMutant(h) == operations[h.slot].state # "Vacant"
IsCurrent(h) == /\ operations[h.slot].generation = h.generation
                /\ operations[h.slot].state # "Vacant"

Record(h, what) == [outcomes EXCEPT ![h] = @ \cup {[what |-> what, epoch |-> service_epoch]}]

Reject(why) == /\ response' = [kind |-> "Rejected", why |-> why]
               /\ UNCHANGED <<service_epoch, operations, outcomes>>

\* start(): the first vacant slot.
Ping(request) ==
  LET vacant == {s \in Slots : operations[s].state = "Vacant"} IN
  CASE request = 0 -> Reject("InvalidRequest")
    [] request # 0 /\ vacant = {} -> Reject("Capacity")
    [] OTHER ->
       LET s == CHOOSE v \in vacant : \A w \in vacant : v <= w
           h == [slot |-> s, generation |-> operations[s].generation,
                 epoch |-> service_epoch, request |-> request]
       IN /\ operations' = [operations EXCEPT ![s].epoch = service_epoch, ![s].request = request,
                                              ![s].state = "InFlight"]
          /\ response' = [kind |-> "Accepted", handle |-> h]
          /\ outcomes' = [g \in Issued \cup {h} |-> IF g = h THEN {} ELSE outcomes[g]]
          /\ UNCHANGED service_epoch

\* complete(): only in flight, in the current epoch, for the same request.
CanComplete(h) ==
  /\ IsCurrent(h) /\ operations[h.slot].state = "InFlight"
  /\ operations[h.slot].epoch = service_epoch /\ h.epoch = service_epoch
  /\ operations[h.slot].request = h.request

Complete(h) ==
  IF CanComplete(h)
  THEN /\ operations' = [operations EXCEPT ![h.slot].state = "Completed"]
       /\ response' = [kind |-> "Completed", handle |-> h]
       /\ outcomes' = Record(h, "Completed") /\ UNCHANGED service_epoch
  ELSE Reject("StaleOperation")

Cancel(h) ==
  IF IsCurrent(h) /\ operations[h.slot].state = "InFlight"
  THEN /\ operations' = [operations EXCEPT ![h.slot].state = "Cancelled"]
       /\ response' = [kind |-> "Cancelled", handle |-> h]
       /\ outcomes' = Record(h, "Cancelled") /\ UNCHANGED service_epoch
  ELSE Reject("StaleOperation")

InFlightMutant == {s \in Slots : operations[s].state = "InFlight" /\ s < MAX_OPERATIONS}
InFlight == {s \in Slots : operations[s].state = "InFlight"}

\* restart(): every operation in flight ends as Restarted and the epoch moves on.
Restart ==
  LET flying == InFlight
      cut(h) == h.slot \in flying /\ operations[h.slot].generation = h.generation
  IN /\ service_epoch' = service_epoch + 1
     /\ operations' = [s \in Slots |-> IF s \in flying THEN [operations[s] EXCEPT !.state = "Restarted"]
                                       ELSE operations[s]]
     /\ response' = [kind |-> "Restarted", count |-> Cardinality(flying)]
     /\ outcomes' = [h \in Issued |-> IF cut(h) THEN Record(h, "Restarted")[h] ELSE outcomes[h]]

\* reclaim(): a terminal record is given back under a new slot generation.
Reclaim(h) ==
  IF IsCurrent(h) /\ operations[h.slot].state \in Terminal
  THEN /\ operations' = [operations EXCEPT ![h.slot] =
            [generation |-> @.generation + 1, epoch |-> 0, request |-> 0, state |-> "Vacant"]]
       /\ response' = [kind |-> "Reclaimed", handle |-> h]
       /\ UNCHANGED <<service_epoch, outcomes>>
  ELSE Reject("StaleOperation")

\* step(): one command is taken and answered.
Step ==
  /\ command # Nothing /\ command' = Nothing
  /\ CASE command.kind = "Ping" -> Ping(command.request)
       [] command.kind = "Complete" -> Complete(command.handle)
       [] command.kind = "Cancel" -> Cancel(command.handle)
       [] command.kind = "Restart" -> Restart
       [] command.kind = "Reclaim" -> Reclaim(command.handle)

TakeResponse == response # Nothing /\ response' = Nothing
                /\ UNCHANGED <<service_epoch, operations, command, outcomes>>

Next == Submit \/ Step \/ TakeResponse
Spec == Init /\ [][Next]_vars

-----------------------------------------------------------------------------
\* ADR-0002: an operation has one outcome. A completion is reported only in the epoch
\* that accepted the operation, and never after a cancellation, a restart or the reuse
\* of its slot by a later operation.
OneOutcome ==
  \A h \in Issued : /\ Cardinality(outcomes[h]) <= 1
                    /\ \A o \in outcomes[h] : o.what = "Completed" => o.epoch = h.epoch

\* Nothing in flight survives a restart: an operation still in flight was started in
\* the current epoch, and every issued handle without an outcome is still in flight.
InFlightIsCurrent ==
  /\ \A s \in Slots : operations[s].state = "InFlight" => operations[s].epoch = service_epoch
  /\ \A h \in Issued : outcomes[h] = {} => IsCurrent(h) /\ operations[h.slot].state = "InFlight"
============================================================================
