----------------------------- MODULE SessionTabs -----------------------------
\* The Session image (services/images/src/session.rs): the Terminal tabs share one
\* connection to Flow, one tab's command or completion request is in flight at a
\* time, and a tab may be closed, and its slot reused, while its exchange runs.
\*
\* A tab's lines and keys are abstract: what matters is which slot, and which use
\* of the slot, a message belongs to.  uses counts the closes Session has applied
\* to a slot, so the pair (slot, use) names one tab; it is only there for the
\* properties and never read by the actions that model code.  Flow and Terminal
\* are the environment.  The line editor of a tab (services/session/src/lib.rs) is
\* a second machine with its own variables, below.
EXTENDS Integers, Sequences, FiniteSets

CONSTANTS Slots,        \* 0..MAX_SHELL_SESSIONS - 1
          NoSlot,       \* the value of an absent owner
          QueueSlots,   \* messages a channel holds
          ResponseParts, \* partial replies the response buffer holds
          MaxOthers     \* bound: keys other than a submitted line, over all tabs

VARIABLES pc,        \* the loop stage: "send", "reply" or "input"
          slot,      \* the SessionSlots
          owner, orphaned, control,
          uses,      \* history: closes applied to each slot
          keys,      \* Terminal's messages to Session
          toFlow, fromFlow,
          flow,      \* what Flow works on: <<>> or <<item>>
          others     \* history: keys typed other than submitted lines

vars == <<pc, slot, owner, orphaned, control, uses, keys, toFlow, fromFlow, flow, others>>

Count == CHOOSE n \in 1..100 : Slots = 0..(n - 1)

\* A fresh tab.  PendingOutput keeps only the last staged output, so out is one
\* item or nothing; the prompt and the echo of edits carry no item of Flow's.
FreshSlot == [cmd |-> <<>>, comp |-> <<>>, waitCmd |-> FALSE, waitComp |-> FALSE,
              out |-> <<>>, partial |-> <<>>]

Item(s, kind) == [s |-> s, use |-> uses[s], kind |-> kind]

has_queued_flow_work(s) == slot[s].comp # <<>> \/ slot[s].cmd # <<>>

next_ownerMutant(after) ==
  LET work == {o \in 1..Count : has_queued_flow_work((after + o) % Count)}
  IN  IF work = {} THEN NoSlot
      ELSE (after + (CHOOSE o \in work : \A p \in work : p <= o)) % Count

\* The first slot with queued work, searching from the one after `after`.
next_owner(after) ==
  LET work == {o \in 1..Count : has_queued_flow_work((after + o) % Count)}
  IN  IF work = {} THEN NoSlot
      ELSE (after + (CHOOSE o \in work : \A p \in work : o <= p)) % Count

-----------------------------------------------------------------------------
Init ==
  /\ pc = "send"
  /\ slot = [s \in Slots |-> FreshSlot]
  /\ owner = NoSlot /\ orphaned = FALSE /\ control = <<>>
  /\ uses = [s \in Slots |-> 0]
  /\ keys = <<>> /\ toFlow = <<>> /\ fromFlow = <<>> /\ flow = <<>>
  /\ others = 0

-----------------------------------------------------------------------------
\* The top of the loop: outputs are flushed to Terminal, the pending control goes
\* to Flow, and with no owner the next slot with work starts an exchange (its
\* completion request before its command).  A full channel leaves the message
\* where it was.
Flushed(t) == [s \in Slots |-> [t[s] EXCEPT !.out = <<>>]]

Controlled ==
  IF control # <<>> /\ Len(toFlow) < QueueSlots
  THEN [q |-> Append(toFlow, [Item(control[1], "control") EXCEPT !.use = 0]), c |-> <<>>]
  ELSE [q |-> toFlow, c |-> control]

Send ==
  /\ pc = "send"
  /\ pc' = "reply"
  /\ LET k == Controlled
         t == Flushed(slot)
         s == IF owner = NoSlot THEN next_owner(Count - 1) ELSE NoSlot
         comp == s # NoSlot /\ slot[s].comp # <<>>
     IN  /\ control' = k.c
         /\ IF s # NoSlot /\ Len(k.q) < QueueSlots
            THEN /\ toFlow' = Append(k.q, IF comp THEN slot[s].comp[1] ELSE slot[s].cmd[1])
                 /\ owner' = s
                 /\ slot' = IF comp THEN [t EXCEPT ![s].comp = <<>>, ![s].waitComp = TRUE]
                            ELSE [t EXCEPT ![s].cmd = <<>>, ![s].waitCmd = TRUE]
            ELSE toFlow' = k.q /\ slot' = t /\ UNCHANGED owner
  /\ UNCHANGED <<orphaned, uses, keys, fromFlow, flow, others>>

-----------------------------------------------------------------------------
is_terminal_reply(m) == m.kind \in {"completion", "last"}

\* One reply, taken only while there is an owner.  The reply to a closed tab is
\* drained: it frees the owner at the end of the exchange and touches no slot.
DrainedMutant(m) == FALSE
Drained(m) == orphaned

Stage(s, m) ==
  CASE m.kind = "completion" ->
         [slot EXCEPT ![s].out = <<m>>, ![s].waitComp = FALSE]
    [] m.kind = "progress" -> [slot EXCEPT ![s].out = <<m>>]
    [] m.kind = "more" -> [slot EXCEPT ![s].partial =
                             IF Len(@) < ResponseParts THEN Append(@, m) ELSE @]
    [] m.kind = "last" ->
         [slot EXCEPT ![s].out = Append(slot[s].partial, m), ![s].partial = <<>>,
                      ![s].waitCmd = FALSE]

Reply ==
  /\ pc = "reply"
  /\ pc' = "input"
  /\ IF owner = NoSlot \/ fromFlow = <<>>
     THEN UNCHANGED <<slot, owner, orphaned, fromFlow>>
     ELSE LET m == Head(fromFlow)
          IN  /\ fromFlow' = Tail(fromFlow)
              /\ slot' = IF Drained(m) THEN slot ELSE Stage(owner, m)
              /\ owner' = IF is_terminal_reply(m) THEN NoSlot ELSE owner
              /\ orphaned' = (orphaned /\ ~is_terminal_reply(m))
  /\ UNCHANGED <<control, uses, keys, toFlow, flow, others>>

-----------------------------------------------------------------------------
\* Closing resets the slot for a new tab.  An exchange of its own in flight is
\* cancelled and orphaned; the owner stays until the exchange ends.
InFlight(s) == owner = s /\ (slot[s].waitCmd \/ slot[s].waitComp)

close_session(s) ==
  /\ control' = IF InFlight(s) THEN <<s>> ELSE control
  /\ orphaned' = (orphaned \/ InFlight(s))
  /\ slot' = [slot EXCEPT ![s].cmd = <<>>, ![s].comp = <<>>, ![s].out = <<>>,
                          ![s].partial = <<>>]
  /\ uses' = [uses EXCEPT ![s] = @ + 1]

\* One message of Terminal's: a close, Ctrl-C over a running command, a line, or
\* a key whose edit asks for completions.  A line replaces one still queued.
Key(k) ==
  LET s == k.s
  IN  IF k.kind = "close" THEN close_session(s)
      ELSE /\ UNCHANGED <<orphaned, uses>>
           /\ IF k.kind = "ctrlc"
              THEN /\ control' = IF owner = s /\ slot[s].waitCmd THEN <<s>> ELSE control
                   /\ UNCHANGED slot
              ELSE /\ slot' = IF k.kind = "line"
                              THEN [slot EXCEPT ![s].cmd = <<Item(s, "line")>>, ![s].out = <<>>]
                              ELSE [slot EXCEPT ![s].comp = <<Item(s, "comp")>>, ![s].out = <<>>]
                   /\ UNCHANGED control

\* Every message that is there is taken before the loop starts over.
Input ==
  /\ pc = "input"
  /\ IF keys = <<>> THEN pc' = "send" /\ UNCHANGED <<slot, orphaned, control, uses, keys>>
     ELSE keys' = Tail(keys) /\ Key(Head(keys)) /\ UNCHANGED pc
  /\ UNCHANGED <<owner, toFlow, fromFlow, flow, others>>

Session == Send \/ Reply \/ Input

-----------------------------------------------------------------------------
\* Terminal types into, and closes, the tabs.
Terminal ==
  /\ Len(keys) < QueueSlots
  /\ \E s \in Slots, k \in {"line", "comp", "ctrlc", "close"} :
       /\ k # "line" => others < MaxOthers
       /\ others' = IF k = "line" THEN others ELSE others + 1
       /\ keys' = Append(keys, [s |-> s, kind |-> k])
  /\ UNCHANGED <<pc, slot, owner, orphaned, control, uses, toFlow, fromFlow, flow>>

\* Flow works on one request at a time: a completion has one reply; a command has
\* any number of progress and partial replies before the last one.  A control
\* cancels the command it finds running and is dropped otherwise.
FlowTakes ==
  /\ toFlow # <<>>
  /\ flow = <<>> \/ Head(toFlow).kind = "control"
  /\ toFlow' = Tail(toFlow)
  /\ IF Head(toFlow).kind = "control" THEN UNCHANGED flow ELSE flow' = <<Head(toFlow)>>
  /\ UNCHANGED <<pc, slot, owner, orphaned, control, uses, keys, fromFlow, others>>

FlowReplies(kind) ==
  /\ flow # <<>> /\ Len(fromFlow) < QueueSlots
  /\ (kind = "completion") = (flow[1].kind = "comp")
  /\ kind \in {"more", "progress"} => \A i \in 1..Len(fromFlow) : fromFlow[i].kind # kind
  /\ fromFlow' = Append(fromFlow, [flow[1] EXCEPT !.kind = kind])
  /\ flow' = IF kind \in {"completion", "last"} THEN <<>> ELSE flow
  /\ UNCHANGED <<pc, slot, owner, orphaned, control, uses, keys, toFlow, others>>

Next ==
  \/ Session \/ Terminal \/ FlowTakes
  \/ \E kind \in {"completion", "more", "progress", "last"} : FlowReplies(kind)

Spec == Init /\ [][Next]_vars

\* Session and Flow keep running, Flow ends every exchange, and keys do not come
\* faster than Session takes them.
FairSpec ==
  /\ Spec
  /\ []<>(pc = "send")
  /\ WF_vars(Session) /\ WF_vars(FlowTakes)
  /\ \A kind \in {"completion", "last"} : SF_vars(FlowReplies(kind))

-----------------------------------------------------------------------------
TypeOK ==
  /\ pc \in {"send", "reply", "input"} /\ owner \in Slots \cup {NoSlot}
  /\ orphaned \in BOOLEAN /\ Len(flow) <= 1 /\ Len(control) <= 1
  /\ Len(toFlow) <= QueueSlots /\ Len(fromFlow) <= QueueSlots

\* The requests somewhere between Session and Flow, and the last replies not yet
\* read, count the exchanges in flight.
Exchanges ==
  Len(SelectSeq(toFlow, LAMBDA m : m.kind # "control")) + Len(flow)
    + Len(SelectSeq(fromFlow, is_terminal_reply))

\* Whatever order tabs are closed, reused and answered in, what is staged for a
\* slot belongs to the tab that has the slot now: a late reply to a closed tab is
\* drained, and never shown in the tab that reused its slot.
RepliesReachTheirTab ==
  \A s \in Slots :
    /\ \A i \in 1..Len(slot[s].out) : slot[s].out[i].s = s /\ slot[s].out[i].use = uses[s]
    /\ \A i \in 1..Len(slot[s].partial) :
         slot[s].partial[i].s = s /\ slot[s].partial[i].use = uses[s]
    /\ \A i \in 1..Len(slot[s].cmd) : slot[s].cmd[i].use = uses[s]

\* Flow never has two requests of Session's at once, and the owner is held exactly
\* as long as its exchange runs, so no tab waits for an exchange that is over.
OneExchange ==
  /\ Exchanges = (IF owner = NoSlot THEN 0 ELSE 1)
  /\ orphaned => owner # NoSlot

\* Every tab's queued command is eventually sent: "so no tab is starved if several
\* submit commands back to back".
NoTabStarved ==
  \A s \in Slots : (slot[s].cmd # <<>>) ~> (slot[s].cmd = <<>>)

------------------------------------------------------------------------------
\* The line editor of one Terminal tab (services/session/src/lib.rs) with the
\* completion exchange the Session image runs for it: keys edit the line, each
\* edit asks Flow for completions, and an answer that arrives later opens a menu
\* over the line.
\*
\* A byte is a one-letter token: "w" stands for a Flow word byte, "L" and "K" for
\* the lead and the continuation byte of a two-byte UTF-8 character, and the
\* control and escape bytes have tokens of their own.  The escape parameter and
\* modifier are dead once an escape sequence ends, so they return to 0 there.
CONSTANTS Messages,                   \* the byte sequences the terminal sends
          Candidates,                 \* the candidate lists Flow may answer with
          MAX_LINE_BYTES, MAX_HISTORY_ENTRIES, MAX_COMPLETION_LINE_BYTES,
          MAX_VISIBLE_COMPLETION_ROWS, COMPLETION_TIMEOUT_TICKS,
          Ids,                        \* completion request ids before they wrap
          MaxMessages                 \* bound: messages typed

VARIABLES ed,        \* the editor
          queued,    \* the slot's pending_completion: <<>> or <<request>>
          inflight,  \* the request Flow is answering: <<>> or <<request>>
          commands,  \* history: the non-empty lines entered, oldest first
          torn,      \* history: a lone byte of a UTF-8 character was inserted
          typed      \* messages so far

editVars == <<ed, queued, inflight, commands, torn, typed>>

-----------------------------------------------------------------------------
\* Byte helpers.  Cursors count the bytes before them, so line[c + 1] is at c.
is_utf8_continuation(b) == b = "K"
NonAscii(b) == b \in {"L", "K"}
Whitespace(b) == b = " "
WordByte(b) == b \in {"w", "A", "B", "C", "D", "H", "F", "1", "3", "5"} \/ NonAscii(b)
DigitValue == [d \in {"1", "3", "5"} |-> IF d = "1" THEN 1 ELSE IF d = "3" THEN 3 ELSE 5]
Printable(b) == \/ WordByte(b)
                \/ b \in {" ", "q", "(", ")", "[", ";", "~"}

AtByte(l, c) == l[c + 1]
display_width(l) == Cardinality({i \in 1..Len(l) : ~is_utf8_continuation(l[i])})
Cut(l, a, b) == SubSeq(l, 1, a) \o SubSeq(l, b + 1, Len(l))   \* drops bytes a..b

\* A UTF-8 sequence is inserted whole when the message holds all of it.
utf8_sequence_width(rest) ==
  IF rest[1] = "L" /\ Len(rest) >= 2 /\ rest[2] = "K" THEN 2 ELSE 1

MinOf(a, b) == IF a < b THEN a ELSE b
MaxOf(a, b) == IF a < b THEN b ELSE a

previous_boundaryMutant(l, c) == MaxOf(c - 1, 0)

RECURSIVE SkipBack(_, _)
SkipBack(l, c) ==
  IF c > 0 /\ is_utf8_continuation(AtByte(l, c)) THEN SkipBack(l, c - 1) ELSE c
previous_boundary(l, c) == IF c = 0 THEN 0 ELSE SkipBack(l, c - 1)

RECURSIVE SkipForward(_, _)
SkipForward(l, c) ==
  IF c < Len(l) /\ is_utf8_continuation(AtByte(l, c)) THEN SkipForward(l, c + 1) ELSE c
next_boundary(l, c) == SkipForward(l, MinOf(c + 1, Len(l)))

is_flow_word_start(l, c) == c < Len(l) /\ WordByte(AtByte(l, c))

\* The start of the word before c: blanks, then "()", a quoted string, a run of
\* word bytes, or one character.
RECURSIVE BlanksBack(_, _)
BlanksBack(l, c) ==
  IF c > 0 /\ Whitespace(AtByte(l, c - 1)) THEN BlanksBack(l, previous_boundary(l, c)) ELSE c

RECURSIVE QuoteBack(_, _)
QuoteBack(l, c) ==
  IF c = 0 THEN 0
  ELSE LET p == previous_boundary(l, c)
       IN  IF AtByte(l, p) = "q" THEN p ELSE QuoteBack(l, p)

RECURSIVE WordBack(_, _)
WordBack(l, c) ==
  IF c > 0 /\ is_flow_word_start(l, previous_boundary(l, c))
  THEN WordBack(l, previous_boundary(l, c)) ELSE c

word_left_boundary(l, c0) ==
  LET c == BlanksBack(l, c0)
      p == previous_boundary(l, c)
  IN  IF c >= 2 /\ AtByte(l, c - 2) = "(" /\ AtByte(l, c - 1) = ")" THEN c - 2
      ELSE IF p < Len(l) /\ AtByte(l, p) = "q" THEN QuoteBack(l, p)
      ELSE IF is_flow_word_start(l, p) THEN WordBack(l, p)
      ELSE p

RECURSIVE BlanksForward(_, _)
BlanksForward(l, c) ==
  IF c < Len(l) /\ Whitespace(AtByte(l, c)) THEN BlanksForward(l, next_boundary(l, c)) ELSE c

RECURSIVE QuoteForward(_, _)
QuoteForward(l, c) ==
  IF c >= Len(l) THEN Len(l)
  ELSE IF AtByte(l, c) = "q" THEN next_boundary(l, c)
  ELSE QuoteForward(l, next_boundary(l, c))

RECURSIVE WordForward(_, _)
WordForward(l, c) ==
  IF is_flow_word_start(l, c) THEN WordForward(l, next_boundary(l, c)) ELSE c

word_right_boundary(l, c0) ==
  LET c == BlanksForward(l, c0)
  IN  IF c + 1 < Len(l) /\ AtByte(l, c) = "(" /\ AtByte(l, c + 1) = ")" THEN c + 2
      ELSE IF c < Len(l) /\ AtByte(l, c) = "q" THEN QuoteForward(l, next_boundary(l, c))
      ELSE IF is_flow_word_start(l, c) THEN WordForward(l, c)
      ELSE next_boundary(l, c)

-----------------------------------------------------------------------------
\* The menu is <<>> or <<[start, end, cands, index, base]>>; base is the line the
\* request carried and is only there for the properties.
Menu(e) == e.menu[1]
Active(e) == e.menu # <<>>
Pending(e) == e.pending # <<>>

\* What redraw leaves on the terminal: the prompt row holds the line, the cursor
\* is at the line's cursor, and a menu takes the rows below.
Rows(e) ==
  IF ~Active(e) THEN 0
  ELSE LET n == Len(Menu(e).cands)
           visible == MinOf(n, MAX_VISIBLE_COMPLETION_ROWS)
       IN  visible + (IF n > visible THEN 1 ELSE 0)

redraw(e) ==
  [e EXCEPT !.shown = e.line,
            !.col = display_width(e.line)
                      - display_width(SubSeq(e.line, e.cursor + 1, Len(e.line))),
            !.rows = Rows(e)]

bump_line_revision(e) == [e EXCEPT !.revision = (@ + 1) % 2]

\* An edit replaces the line and the cursor, bumps the revision and redraws.
Edited(e, line, cursor) ==
  redraw(bump_line_revision([e EXCEPT !.line = line, !.cursor = cursor]))

\* Moves that do not redraw tell the terminal how far to move instead.
MovedBy(e, cursor, distance) == [e EXCEPT !.cursor = cursor, !.col = @ + distance]

request_completion(e) ==
  IF e.enabled /\ ~Pending(e) THEN [e EXCEPT !.requested = TRUE] ELSE e

clear_completion_state(e) ==
  [e EXCEPT !.requested = FALSE, !.pending = <<>>, !.wait = 0, !.menu = <<>>]

dismiss_completion(e) ==
  LET had == Active(e) \/ e.rows # 0
  IN  IF had THEN redraw(clear_completion_state(e)) ELSE clear_completion_state(e)

completion_failed(e) ==
  redraw(clear_completion_state([e EXCEPT !.enabled = FALSE]))

cycle_completion(e, step) ==
  LET n == Len(Menu(e).cands)
  IN  redraw([e EXCEPT !.menu[1].index = (@ + step + n) % n])

accept_completion(e) ==
  LET m == Menu(e)
      c == m.cands[m.index + 1]
      start == MinOf(m.start, Len(e.line))
      end == MaxOf(MinOf(m.end, Len(e.line)), start)
      line == SubSeq(e.line, 1, start) \o c.text \o SubSeq(e.line, end + 1, Len(e.line))
  IN  IF Len(line) > MAX_LINE_BYTES THEN e
      ELSE redraw(clear_completion_state(bump_line_revision(
             [e EXCEPT !.line = line, !.cursor = start + MinOf(c.at, Len(c.text))])))

-----------------------------------------------------------------------------
\* Editing operations.
insert(e, bytes) ==
  IF Len(bytes) > MAX_LINE_BYTES - Len(e.line) THEN e
  ELSE Edited(e, SubSeq(e.line, 1, e.cursor) \o bytes
                   \o SubSeq(e.line, e.cursor + 1, Len(e.line)),
              e.cursor + Len(bytes))

backspace(e) ==
  IF e.cursor = 0 THEN e
  ELSE LET p == previous_boundary(e.line, e.cursor)
       IN  Edited(e, Cut(e.line, p, e.cursor), p)

delete_forward(e) ==
  IF e.cursor >= Len(e.line) THEN e
  ELSE Edited(e, Cut(e.line, e.cursor, next_boundary(e.line, e.cursor)), e.cursor)

delete_to_end(e) == Edited(e, SubSeq(e.line, 1, e.cursor), e.cursor)
clear_line(e) == Edited(e, <<>>, 0)

delete_word(e) ==
  LET p == word_left_boundary(e.line, e.cursor) IN Edited(e, Cut(e.line, p, e.cursor), p)

delete_word_forward(e) ==
  Edited(e, Cut(e.line, e.cursor, word_right_boundary(e.line, e.cursor)), e.cursor)

move_left(e) ==
  IF e.cursor > 0
  THEN redraw([e EXCEPT !.cursor = previous_boundary(e.line, e.cursor)]) ELSE e

move_right(e) ==
  IF e.cursor < Len(e.line)
  THEN redraw([e EXCEPT !.cursor = next_boundary(e.line, e.cursor)]) ELSE e

move_word_left(e) ==
  LET p == word_left_boundary(e.line, e.cursor)
  IN  MovedBy(e, p, -display_width(SubSeq(e.line, p + 1, e.cursor)))

move_word_right(e) ==
  LET n == word_right_boundary(e.line, e.cursor)
  IN  MovedBy(e, n, display_width(SubSeq(e.line, e.cursor + 1, n)))

move_home(e) == MovedBy(e, 0, -display_width(SubSeq(e.line, 1, e.cursor)))
move_end(e) ==
  MovedBy(e, Len(e.line), display_width(SubSeq(e.line, e.cursor + 1, Len(e.line))))

record_history_Mutant(e) ==
  IF e.line = <<>> THEN e
  ELSE [e EXCEPT !.history = IF Len(@) < MAX_HISTORY_ENTRIES THEN Append(@, e.line) ELSE @,
                 !.hcur = MinOf(Len(e.history) + 1, MAX_HISTORY_ENTRIES)]

\* The oldest entry makes room for the newest; recall starts after the newest.
record_history(e) ==
  IF e.line = <<>> THEN e
  ELSE [e EXCEPT !.history = IF Len(@) < MAX_HISTORY_ENTRIES THEN Append(@, e.line)
                             ELSE Append(Tail(@), e.line),
                 !.hcur = MinOf(Len(e.history) + 1, MAX_HISTORY_ENTRIES)]

recall_history(e, previous) ==
  IF e.history = <<>> THEN e
  ELSE LET h == IF previous THEN MaxOf(e.hcur - 1, 0) ELSE MinOf(e.hcur + 1, Len(e.history))
           line == IF h < Len(e.history) THEN e.history[h + 1] ELSE <<>>
       IN  Edited([e EXCEPT !.hcur = h], line, Len(line))

-----------------------------------------------------------------------------
\* The escape automaton: 1 after ESC, 2 after "[", 3 in a parameter, 4 in a
\* modifier.
EscapeEnds(e) == [e EXCEPT !.escape = 0, !.param = 0, !.modifier = 0]

feed_escape(e, b) ==
  LET digit == b \in DOMAIN DigitValue
      ctrl == e.modifier = 5
  IN  CASE e.escape = 1 -> IF b = "[" THEN [e EXCEPT !.escape = 2] ELSE EscapeEnds(e)
        [] e.escape = 2 ->
             IF digit THEN [e EXCEPT !.escape = 3, !.param = DigitValue[b]]
             ELSE EscapeEnds(CASE b = "A" -> recall_history(e, TRUE)
                               [] b = "B" -> recall_history(e, FALSE)
                               [] b = "C" -> move_right(e)
                               [] b = "D" -> move_left(e)
                               [] b = "H" -> move_home(e)
                               [] b = "F" -> move_end(e)
                               [] OTHER -> e)
        [] e.escape = 3 ->
             IF digit THEN [e EXCEPT !.param = MinOf(@ * 10 + DigitValue[b], 255)]
             ELSE IF b = ";" THEN [e EXCEPT !.escape = 4, !.modifier = 0]
             ELSE EscapeEnds(IF b = "~" /\ e.param = 3 THEN delete_forward(e) ELSE e)
        [] e.escape = 4 ->
             IF digit THEN [e EXCEPT !.modifier = MinOf(@ * 10 + DigitValue[b], 255)]
             ELSE EscapeEnds(
                    CASE b = "C" /\ e.param = 1 /\ ctrl -> move_word_right(e)
                      [] b = "D" /\ e.param = 1 /\ ctrl -> move_word_left(e)
                      [] b = "~" /\ e.param = 3 /\ ctrl -> delete_word_forward(e)
                      [] OTHER -> e)

\* One byte outside an escape sequence, Enter aside.
PlainByte(e, b) ==
  CASE b = "esc" -> [e EXCEPT !.escape = 1]
    [] b = "^A" -> move_home(e)
    [] b = "^E" -> move_end(e)
    [] b = "^K" -> delete_to_end(e)
    [] b = "^L" -> redraw(e)
    [] b = "^U" -> clear_line(e)
    [] b = "^W" -> delete_word(e)
    [] b = "tab" -> request_completion(e)
    [] b = "bs" -> backspace(e)
    [] Printable(b) -> insert(e, <<b>>)
    [] OTHER -> e

\* An edit asks for completions.
AskAfterEdit(before, after) ==
  IF after.revision # before.revision THEN request_completion(after) ELSE after

\* Enter hands the line over and starts an empty one on the next row.
EnterLine(e) ==
  LET h == record_history(e)
  IN  [bump_line_revision(clear_completion_state([h EXCEPT !.line = <<>>, !.cursor = 0]))
         EXCEPT !.shown = <<>>, !.col = 0]

StartsWith(s, prefix) ==
  Len(s) >= Len(prefix) /\ SubSeq(s, 1, Len(prefix)) = prefix

DropMenuMutant(e, b) ==
  IF Pending(e) /\ b # "tab" THEN clear_completion_state(e) ELSE e

\* A key closes the menu, or forgets the request that is waiting for an answer.
DropMenu(e, b) ==
  IF Active(e) THEN dismiss_completion(e)
  ELSE IF Pending(e) /\ b # "tab" THEN clear_completion_state(e) ELSE e

\* input_for_command over the bytes of one message; done says that Enter ended
\* it, which drops the bytes that follow.
RECURSIVE Consume(_, _)
Consume(e, bytes) ==
  IF bytes = <<>> THEN [ed |-> e, done |-> FALSE, line |-> <<>>, torn |-> FALSE]
  ELSE
    LET b == Head(bytes)
        d == DropMenu(e, b)
        width == utf8_sequence_width(bytes)
        rest == SubSeq(bytes, width + 1, Len(bytes))
        lone == NonAscii(b) /\ width = 1
        next(n, r, t) == LET x == Consume(n, r) IN [x EXCEPT !.torn = @ \/ t]
    IN  IF Active(e) /\ StartsWith(bytes, <<"esc", "[", "A">>)
          THEN Consume(cycle_completion(e, -1), SubSeq(bytes, 4, Len(bytes)))
        ELSE IF Active(e) /\ StartsWith(bytes, <<"esc", "[", "B">>)
          THEN Consume(cycle_completion(e, 1), SubSeq(bytes, 4, Len(bytes)))
        ELSE IF Active(e) /\ b = "tab"
          THEN Consume(request_completion(accept_completion(e)), Tail(bytes))
        ELSE IF d.escape # 0
          THEN Consume(AskAfterEdit(d, feed_escape(d, b)), Tail(bytes))
        ELSE IF width > 1
          THEN Consume(request_completion(insert(d, SubSeq(bytes, 1, width))), rest)
        ELSE IF b = "cr"
          THEN [ed |-> EnterLine(d), done |-> TRUE, line |-> d.line, torn |-> FALSE]
        ELSE next(AskAfterEdit(d, PlainByte(d, b)), rest, lone)

-----------------------------------------------------------------------------
\* Completion requests and answers.
NextId(id) == IF id = Ids THEN 1 ELSE id + 1

\* take_completion_request: the request for the line as it stands; a line too
\* long for a request uses up an id and asks nothing.
take_completion_request(e) ==
  IF ~e.requested \/ ~e.enabled
  THEN [ed |-> [e EXCEPT !.requested = FALSE], request |-> <<>>]
  ELSE LET r == [id |-> e.next, line |-> e.line, cursor |-> e.cursor, revision |-> e.revision]
           asked == Len(e.line) <= MAX_COMPLETION_LINE_BYTES
           taken == [e EXCEPT !.requested = FALSE, !.next = NextId(@)]
       IN  IF asked
           THEN [ed |-> [taken EXCEPT !.pending = <<r>>, !.wait = 0], request |-> <<r>>]
           ELSE [ed |-> taken, request |-> <<>>]

completion_tick(e) ==
  IF ~Pending(e) THEN e
  ELSE IF e.wait + 1 >= COMPLETION_TIMEOUT_TICKS
       THEN completion_failed([e EXCEPT !.wait = @ + 1])
       ELSE [e EXCEPT !.wait = @ + 1]

\* is_valid_for: the answer names the request and stays within its line.
is_valid_for(a, r) ==
  /\ a.id = r.id /\ a.revision = r.revision
  /\ a.start <= a.end /\ a.end <= Len(r.line)

apply_completion_response_Mutant(e, a) ==
  IF ~Pending(e) THEN e
  ELSE LET cleared == [e EXCEPT !.pending = <<>>, !.wait = 0]
       IN  IF a.cands = <<>> THEN dismiss_completion(cleared)
           ELSE redraw([cleared EXCEPT
             !.menu = <<[start |-> a.start, end |-> a.end, cands |-> a.cands,
                         index |-> 0, base |-> a.line]>>])

apply_completion_response(e, a) ==
  IF ~Pending(e) \/ e.pending[1].id # a.id THEN e
  ELSE IF ~is_valid_for(a, e.pending[1]) THEN completion_failed(e)
  ELSE LET cleared == [e EXCEPT !.pending = <<>>, !.wait = 0]
       IN  IF a.status = "Unavailable" THEN completion_failed(cleared)
           ELSE IF a.status = "Ok" /\ a.cands # <<>>
           THEN redraw([cleared EXCEPT
                  !.menu = <<[start |-> a.start, end |-> a.end, cands |-> a.cands,
                              index |-> 0, base |-> a.line]>>])
           ELSE dismiss_completion(cleared)

\* What Flow may answer to request r: candidates for the word before the cursor,
\* nothing, a refusal, or an answer that is not valid for the request.
Answers(r) ==
  LET start == WordBack(r.line, r.cursor)
      answer(status, s, e, c) == [id |-> r.id, revision |-> r.revision, line |-> r.line,
                                  status |-> status, start |-> s, end |-> e, cands |-> c]
  IN  {answer("Ok", start, r.cursor, c) : c \in Candidates}
        \cup {answer("NoMatch", 0, 0, <<>>), answer("Unavailable", 0, 0, <<>>),
              answer("Ok", 0, Len(r.line) + 1, <<>>)}

-----------------------------------------------------------------------------
EditInit ==
  /\ ed = [line |-> <<>>, cursor |-> 0, history |-> <<>>, hcur |-> 0, escape |-> 0,
           param |-> 0, modifier |-> 0, enabled |-> TRUE, revision |-> 0,
           requested |-> FALSE, next |-> 1, pending |-> <<>>, wait |-> 0,
           menu |-> <<>>, rows |-> 0, shown |-> <<>>, col |-> 0]
  /\ queued = <<>> /\ inflight = <<>> /\ commands = <<>> /\ torn = FALSE
  /\ typed = 0

\* A message from the terminal: edit, then queue the completion request it asks
\* for in place of one still waiting to be sent.  Request ids are 16 bits wide,
\* so an id in flight is not handed out again.
EditInput(m) ==
  LET c == Consume(ed, m)
      t == take_completion_request(c.ed)
  IN  /\ typed < MaxMessages
      /\ typed' = typed + 1
      /\ t.request # <<>> /\ inflight # <<>> => t.request[1].id # inflight[1].id
      /\ ed' = t.ed
      /\ queued' = IF t.request # <<>> THEN t.request ELSE queued
      /\ commands' = IF c.done /\ c.line # <<>> THEN Append(commands, c.line) ELSE commands
      /\ torn' = (torn \/ c.torn)
      /\ UNCHANGED inflight

\* The queued request goes to Flow; a dead Flow fails completion for good.
SendRequest ==
  /\ queued # <<>> /\ inflight = <<>>
  /\ queued' = <<>>
  /\ \/ inflight' = queued /\ UNCHANGED ed
     \/ ed' = completion_failed(ed) /\ UNCHANGED inflight
  /\ UNCHANGED <<commands, torn, typed>>

Answer ==
  /\ inflight # <<>>
  /\ \E a \in Answers(inflight[1]) : ed' = apply_completion_response(ed, a)
  /\ inflight' = <<>>
  /\ UNCHANGED <<queued, commands, torn, typed>>

Tick ==
  /\ Pending(ed)
  /\ ed' = completion_tick(ed)
  /\ UNCHANGED <<queued, inflight, commands, torn, typed>>

EditNext == (\E m \in Messages : EditInput(m)) \/ SendRequest \/ Answer \/ Tick

EditSpec == EditInit /\ [][EditNext]_editVars

-----------------------------------------------------------------------------
EditTypeOK ==
  /\ ed.escape \in 0..4 /\ ed.next \in 1..Ids /\ ed.wait \in 0..COMPLETION_TIMEOUT_TICKS
  /\ Len(queued) <= 1 /\ Len(inflight) <= 1 /\ torn \in BOOLEAN

\* Every byte of a UTF-8 character stands next to the others.
WellFormed(l) ==
  \A i \in 1..Len(l) : /\ l[i] = "L" => i < Len(l) /\ l[i + 1] = "K"
                       /\ l[i] = "K" => i > 1 /\ l[i - 1] = "L"

\* Whatever keys edit the line, it fits its buffer, its UTF-8 characters stay
\* whole and the cursor never stands inside one; the bytes of a character that
\* arrive apart are the exception (torn).
EditorSound ==
  /\ Len(ed.line) <= MAX_LINE_BYTES /\ ed.cursor \in 0..Len(ed.line)
  /\ ~torn => /\ WellFormed(ed.line)
              /\ ed.cursor < Len(ed.line) => AtByte(ed.line, ed.cursor) # "K"

\* An open menu was computed for exactly the line it is shown over, although the
\* answer comes back while keys keep arriving; and no menu rows stay on the
\* screen once the menu is closed.
MenuMatchesLine ==
  /\ Active(ed) => Menu(ed).base = ed.line /\ Menu(ed).end <= Len(ed.line)
  /\ ed.rows = Rows(ed)

\* The prompt row shows the line and the terminal's cursor stands where the next
\* key goes, also after the moves that only send a distance.
ScreenShowsLine ==
  ~torn => /\ ed.shown = ed.line
           /\ ed.col = display_width(SubSeq(ed.line, 1, ed.cursor))

\* The history is the newest non-empty commands in the order they were entered.
HistoryIsCommands ==
  LET n == MinOf(Len(commands), MAX_HISTORY_ENTRIES)
  IN  /\ ed.history = SubSeq(commands, Len(commands) - n + 1, Len(commands))
      /\ ed.hcur \in 0..Len(ed.history)
==============================================================================
