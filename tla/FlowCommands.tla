---------------------------- MODULE FlowCommands ----------------------------
\* The command loop of the Flow image (services/images/src/flow.rs) with its single
\* clients for Storage, Package, Device, User, Network and Fetch
\* (services/flow/src/client): a command comes from one of Session's tabs, runs
\* through a client, and its output is staged and flushed to Session.  A fetch may
\* go on in the background, for a promise variable, after its command's reply.
\*
\* Commands are numbered for the properties (n, for, by); the code sees only the
\* session tag.  The services' answers are nondeterministic, and Session is the
\* environment: it sends one request at a time and reads replies only while it
\* waits for one (SessionTabs).
EXTENDS Integers, Sequences

CONSTANTS Sessions, Ops, QueueSlots, MaxCommands

VARIABLES pc,        \* stage of Flow's loop
          inq, outq, \* Session to Flow, Flow to Session
          active_session,
          pending,   \* PENDING: the staged output, <<>> or <<command>>
          completion,\* PENDING_COMPLETION
          client,    \* the active client and what it works for
          fetch,     \* the FetchClient
          promise,   \* per session, the promise variable's state
          waiting,   \* Session: the request it waits for, 0 when none
          asker,     \* Session: the tab whose request was sent last
          n,         \* history: commands sent
          answer,    \* history: the last request answered, and the command whose output answered it
          detached,  \* history: a fetch went on without its command, or wrote a file
          misplaced  \* history: a promise settled, or a cancel applied, for another command

vars == <<pc, inq, outq, active_session, pending, completion, client, fetch, promise,
          waiting, asker, n, answer, detached, misplaced>>

Flow == <<active_session, pending, completion, client, fetch, promise>>
History == <<waiting, asker, n, answer>>

\* Storage and Package can be cancelled; Device and User cannot; Network waits for
\* its answer inside the command, taking whatever Session sends meanwhile.
Clients == {"storage", "package", "device", "user", "network"}
NoClient == [name |-> "none", for |-> 0]
NoFetch == [on |-> FALSE, fg |-> TRUE, for |-> 0, by |-> 0, session |-> 0, named |-> FALSE,
            writes |-> FALSE, cancel |-> FALSE]

Init ==
  /\ pc = "flush" /\ inq = <<>> /\ outq = <<>>
  /\ active_session = 0 /\ pending = <<>> /\ completion = <<>>
  /\ client = NoClient /\ fetch = NoFetch
  /\ promise = [s \in Sessions |-> [state |-> "none", by |-> 0]]
  /\ waiting = 0 /\ asker = 0 /\ n = 0 /\ answer = <<0, 0>>
  /\ detached = FALSE /\ misplaced = FALSE

Room == Len(outq) < QueueSlots
Reply(kind, by) == [kind |-> kind, session |-> active_session, for |-> by]

-----------------------------------------------------------------------------
\* The loop, a stage at a time.  PendingOutput::flush sends what is staged; a full
\* channel leaves it staged.
Flush ==
  /\ pc = "flush" /\ pc' = "control"
  /\ IF pending # <<>> /\ Room
     THEN outq' = Append(outq, Reply("last", pending[1])) /\ pending' = <<>>
     ELSE UNCHANGED <<outq, pending>>
  /\ UNCHANGED <<inq, active_session, completion, client, fetch, promise, detached, misplaced>>
  /\ UNCHANGED History

\* One message is taken as a control while a client or a foreground fetch is
\* active.  Anything else that comes then is lost.
ControlApplies(m) == m.kind = "control" /\ m.session = active_session

Busy == client # NoClient \/ (fetch.on /\ fetch.fg)

\* FetchClient::handle_control and the storage and package cancels.
Controlled(m) ==
  LET hits == ControlApplies(m)
      target == IF fetch.on THEN fetch.for ELSE client.for
      can == fetch.on \/ client.name \in {"storage", "package"}
  IN  /\ fetch' = IF fetch.on /\ hits THEN [fetch EXCEPT !.cancel = TRUE] ELSE fetch
      /\ misplaced' = (misplaced \/ (hits /\ can /\ m.n # target) \/ m.kind # "control")

Control ==
  /\ pc = "control"
  /\ IF Busy /\ inq # <<>> THEN inq' = Tail(inq) /\ Controlled(Head(inq))
     ELSE UNCHANGED <<inq, fetch, misplaced>>
  /\ pc' = "output"
  /\ UNCHANGED <<outq, active_session, pending, completion, client, promise, detached>>
  /\ UNCHANGED History

\* A queued fetch cancel is sent, or waits for room (sent chooses); output still
\* staged starts the loop over; a completion reply goes out before any work.
Output ==
  /\ pc = "output"
  /\ \E sent \in BOOLEAN :
       /\ ~sent => fetch.on /\ fetch.cancel
       /\ fetch' = IF sent THEN [fetch EXCEPT !.cancel = FALSE] ELSE fetch
       /\ IF ~sent \/ pending # <<>> \/ (completion # <<>> /\ ~Room)
          THEN pc' = "flush" /\ UNCHANGED <<outq, completion>>
          ELSE /\ pc' = "drive"
               /\ outq' = IF completion = <<>> THEN outq ELSE Append(outq, completion[1])
               /\ completion' = <<>>
  /\ UNCHANGED <<inq, active_session, pending, client, promise, detached, misplaced>>
  /\ UNCHANGED History

\* The active client makes progress or ends with a result, which is staged.  While
\* it is active nothing below it in the loop runs.
Drive ==
  /\ pc = "drive"
  /\ \E done \in BOOLEAN :
       /\ done => client # NoClient
       /\ pending' = IF done THEN <<client.for>> ELSE pending
       /\ client' = IF done THEN NoClient ELSE client
       /\ pc' = IF client # NoClient /\ ~done THEN "flush" ELSE "fetch"
  /\ UNCHANGED <<inq, outq, active_session, completion, fetch, promise, detached, misplaced>>
  /\ UNCHANGED History

-----------------------------------------------------------------------------
\* FetchClient::drive.  A response ends the fetch; its message is staged unless a
\* background fetch without a callback succeeded.
Staged(ok) == ~(ok /\ ~fetch.fg /\ ~fetch.writes)

\* resolve_promise settles the variable of the session active now.
SettledSession == active_session

Settle(ok) ==
  LET s == SettledSession
      p == promise[s]
  IN  IF fetch.named /\ p.state = "pending"
      THEN /\ promise' = [promise EXCEPT ![s].state = IF ok THEN "ready" ELSE "cancelled"]
           /\ misplaced' = (misplaced \/ p.by # fetch.by)
      ELSE UNCHANGED promise /\ misplaced' = (misplaced \/ (fetch.named /\ s # fetch.session))

FetchEnds(ok) ==
  /\ fetch.on
  /\ Settle(ok)
  /\ fetch' = NoFetch
  /\ \E published \in BOOLEAN :
       /\ published => ok /\ fetch.writes
       /\ client' = IF published THEN [name |-> "storage", for |-> fetch.for] ELSE client
       /\ pending' = IF Staged(ok) \/ (ok /\ fetch.writes /\ ~published)
                     THEN <<fetch.for>> ELSE pending
  /\ pc' = "input"
  /\ UNCHANGED outq

FetchGoesOn ==
  /\ \/ UNCHANGED outq
     \/ fetch.on /\ Room /\ outq' = Append(outq, Reply("progress", fetch.for))
  /\ pc' = IF fetch.on /\ fetch.fg THEN "flush" ELSE "input"
  /\ UNCHANGED <<pending, client, fetch, promise, misplaced>>

Fetch ==
  /\ pc = "fetch"
  /\ FetchGoesOn \/ \E ok \in BOOLEAN : FetchEnds(ok)
  /\ UNCHANGED <<inq, active_session, completion, detached>>
  /\ UNCHANGED History

-----------------------------------------------------------------------------
\* A request: every message selects the active session.  start_with_mode refuses a
\* second fetch (its command then fails at once).
StartFetch(m, fg, named, writes) ==
  IF fetch.on \/ m.busy
  THEN /\ pending' = <<m.n>>
       /\ promise' = IF named /\ promise[m.session].state = "pending"
                     THEN [promise EXCEPT ![m.session].state = "cancelled"] ELSE promise
       /\ UNCHANGED <<fetch, client, detached>>
  ELSE /\ fetch' = [on |-> TRUE, fg |-> fg, for |-> m.n, by |-> m.n,
                    session |-> m.session, named |-> named, writes |-> writes, cancel |-> FALSE]
       /\ pending' = IF ~fg /\ ~writes THEN <<m.n>> ELSE pending
       /\ promise' = IF named THEN [promise EXCEPT ![m.session] = [state |-> "pending", by |-> m.n]]
                     ELSE promise
       /\ detached' = (detached \/ ~fg \/ writes)
       /\ UNCHANGED client

\* CancelPromise and AwaitPromise name this session's promise variable.
ActivePromise(m) == fetch.named /\ fetch.on

Command(m) ==
  CASE m.op = "local" -> pending' = <<m.n>> /\ UNCHANGED <<client, fetch, promise, detached>>
    [] m.op \in Clients -> /\ client' = [name |-> m.op, for |-> m.n]
                           /\ UNCHANGED <<pending, fetch, promise, detached>>
    [] m.op = "fetch" -> StartFetch(m, TRUE, FALSE, FALSE)
    [] m.op = "fetchVariable" -> StartFetch(m, FALSE, TRUE, FALSE)
    [] m.op = "fetchThenWrite" -> StartFetch(m, TRUE, FALSE, TRUE)
    [] m.op = "cancelPromise" ->
         /\ fetch' = [fetch EXCEPT !.cancel = @ \/ ActivePromise(m)]
         /\ promise' = IF promise[m.session].state = "pending"
                       THEN [promise EXCEPT ![m.session].state = "cancelled"] ELSE promise
         /\ pending' = <<m.n>>
         /\ UNCHANGED <<client, detached>>
    [] m.op = "awaitPromise" ->
         IF promise[m.session].state = "pending" /\ ActivePromise(m)
         THEN /\ fetch' = [fetch EXCEPT !.fg = TRUE, !.for = m.n]
              /\ UNCHANGED <<pending, client, promise, detached>>
         ELSE /\ pending' = <<m.n>>
              /\ promise' = IF promise[m.session].state = "ready"
                            THEN [promise EXCEPT ![m.session].state = "none"] ELSE promise
              /\ UNCHANGED <<client, fetch, detached>>

Input ==
  /\ pc = "input" /\ pc' = "flush"
  /\ IF inq = <<>>
     THEN UNCHANGED <<inq, active_session, completion, client, fetch, promise, pending, detached>>
     ELSE LET m == Head(inq)
          IN  /\ inq' = Tail(inq)
              /\ active_session' = m.session
              /\ IF m.kind = "command" THEN Command(m)
                 ELSE UNCHANGED <<client, fetch, promise, pending, detached>>
              /\ completion' = IF m.kind = "completion"
                               THEN <<[kind |-> "completion", session |-> m.session, for |-> m.n]>>
                               ELSE completion
  /\ UNCHANGED <<outq, misplaced>>
  /\ UNCHANGED History

FlowStep == Flush \/ Control \/ Output \/ Drive \/ Fetch \/ Input

-----------------------------------------------------------------------------
\* Session sends a request when it waits for none, a cancel for the one it waits
\* for, and reads replies while it waits.
Message(s, kind, op) ==
  [kind |-> kind, session |-> s, op |-> op, n |-> n + 1, busy |-> FALSE]

SessionSends ==
  /\ waiting = 0 /\ n < MaxCommands /\ Len(inq) < QueueSlots
  /\ \E s \in Sessions, op \in Ops \cup {"complete"} : \E busy \in BOOLEAN :
       /\ busy => op \in {"fetch", "fetchVariable", "fetchThenWrite"}
       /\ inq' = Append(inq, [Message(s, IF op = "complete" THEN "completion" ELSE "command", op)
                                EXCEPT !.busy = busy])
       /\ asker' = s
  /\ n' = n + 1 /\ waiting' = n + 1
  /\ UNCHANGED <<pc, outq, answer, detached, misplaced>> /\ UNCHANGED Flow

SessionCancels ==
  /\ waiting # 0 /\ Len(inq) < QueueSlots
  /\ \A i \in 1..Len(inq) : inq[i].kind # "control"
  /\ inq' = Append(inq, [Message(asker, "control", "none") EXCEPT !.n = waiting])
  /\ UNCHANGED <<pc, outq, detached, misplaced>> /\ UNCHANGED Flow /\ UNCHANGED History

SessionReads ==
  /\ waiting # 0 /\ outq # <<>>
  /\ outq' = Tail(outq)
  /\ IF Head(outq).kind = "progress" THEN UNCHANGED <<waiting, answer>>
     ELSE waiting' = 0 /\ answer' = <<waiting, Head(outq).for>>
  /\ UNCHANGED <<pc, inq, asker, n, detached, misplaced>> /\ UNCHANGED Flow

Next == FlowStep \/ SessionSends \/ SessionCancels \/ SessionReads

Spec == Init /\ [][Next]_vars

\* Flow and Session run, and the services answer: a client ends, and so does a
\* fetch.
FairSpec ==
  /\ Spec
  /\ WF_vars(FlowStep) /\ WF_vars(SessionReads)
  /\ SF_vars(Drive /\ client' = NoClient)
  /\ SF_vars(Fetch /\ ~fetch'.on)
  /\ SF_vars(Output /\ ~fetch'.cancel)

-----------------------------------------------------------------------------
TypeOK ==
  /\ pc \in {"flush", "control", "output", "drive", "fetch", "input"}
  /\ active_session \in Sessions /\ Len(pending) <= 1 /\ Len(completion) <= 1
  /\ Len(inq) <= QueueSlots /\ Len(outq) <= QueueSlots

\* As long as no fetch outlives its command, whatever Ctrl-C and replies cross on
\* the way: a request is answered by its own output and no other's, no command is
\* taken for a control and lost, and a control cancels the command it was typed at.
AnsweredByItself == ~detached => answer[1] = answer[2] /\ ~misplaced

\* The same, always: "only one session's command is ever in flight with Flow at a
\* time".
AlwaysAnsweredByItself == answer[1] = answer[2]

\* A fetch settles the promise of the session that started it: Session's owner
\* "guarantees it cannot change mid-command".
PromisesSettleAtHome == ~misplaced

=============================================================================
