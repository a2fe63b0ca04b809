------------------------------- MODULE Fetch -------------------------------
(***************************************************************************)
(* Durable fetch: Flow's single-flight FetchClient, the Fetch service with *)
(* its one operation (services/images/src/fetch.rs) and the HTTP response  *)
(* parser (services/fetch), between the sockets of Network and the staged  *)
(* write of Storage.  A byte is a token <<kind, n>>: a header line is one  *)
(* token, the framing of a chunked body keeps its CR, LF and digits.       *)
(***************************************************************************)
EXTENDS Integers, Sequences, FiniteSets, SequencesExt

CONSTANTS
    Scenarios,      \* a sequence of [pages, reads, requests, cancels, timeouts, faults]
    MAX_HEADER_BYTES, MAX_BODY_BYTES, SIZE_DIGITS,
    MAX_PATH_BYTES, MAX_REQUEST_BYTES,
    MAX_VALUE,      \* MAX_VALUE_BYTES of Flow's response body
    STAGE_CHUNK, FETCH_BODY_CHUNK,
    PROGRESS,       \* body bytes between two progress messages
    Slots,          \* Network's socket slots
    QueueSlots,     \* messages an endpoint holds
    MaxAsked        \* bounds the retries after WouldBlock

VARIABLES
    world,          \* the index of the scenario
    flow,           \* FetchClient
    pc,             \* where _start's loop stands
    op,             \* the Operation, or NoOp
    toFetch, toFlow, toNet, fromNet, toStore, fromStore,
    net,            \* Network: its sockets and the connect it waits for
    store,          \* Storage: the staged write and the published files
    left,           \* requests, cancels, timeouts and faults still to come
    told,           \* history: terminal responses sent for each request
    lost            \* history: what went astray

vars == <<world, flow, pc, op, toFetch, toFlow, toNet, fromNet, toStore,
          fromStore, net, store, left, told, lost>>

World == Scenarios[world]

NoOp == [id |-> 0]
None == <<>>

----------------------------------------------------------------------------
\* The response parser.

NewParser == [state |-> "Headers", lines |-> <<>>, mode |-> "none", length |-> 0,
              remaining |-> 0, size |-> <<>>, body |-> <<>>, status |-> 0, err |-> "none"]

Fails(p, e) == [p EXCEPT !.err = e]

\* ResponseParser::parse_headers: one header line after the other, the first
\* fault wins; then the body's framing.
HeaderLine(p, line) ==
  IF p.err # "none" THEN p
  ELSE CASE line[1] = "length" ->
              IF line[2] > MAX_BODY_BYTES THEN Fails(p, "TooLarge")
              ELSE IF p.length >= 0 /\ p.length # line[2] THEN Fails(p, "ConflictingLength")
              ELSE [p EXCEPT !.length = line[2]]
         [] line[1] = "transfer" ->
              IF line[2] = 1 THEN [p EXCEPT !.mode = "Chunked"] ELSE Fails(p, "UnsupportedTransfer")
         [] line[1] = "encoding" -> Fails(p, "UnsupportedEncoding")
         [] line[1] = "field" -> p
         [] OTHER -> Fails(p, "Malformed")

Framed(p) ==
  IF p.err # "none" THEN p
  ELSE IF p.mode = "Chunked" /\ p.length >= 0 THEN Fails(p, "ConflictingLength")
  ELSE IF p.mode = "Chunked" THEN [p EXCEPT !.state = "ChunkSize"]
  ELSE IF p.length < 0 THEN Fails(p, "Malformed")
  ELSE [p EXCEPT !.mode = "Length", !.remaining = p.length,
                 !.state = IF p.length = 0 THEN "Complete" ELSE "Body"]

parse_headers(p) ==
  LET first == Head(p.lines)
  IN  IF first[1] # "status" THEN Fails(p, "Malformed")
      ELSE IF first[2] \notin 200..299 THEN Fails(p, "UnsupportedStatus")
      ELSE Framed(FoldLeft(HeaderLine, [p EXCEPT !.status = first[2], !.length = -1],
                           Tail(p.lines)))

\* append_body
Append_body(p, bytes) ==
  IF Len(bytes) > MAX_BODY_BYTES - Len(p.body) THEN Fails(p, "TooLarge")
  ELSE [p EXCEPT !.body = @ \o bytes]

\* parse_hex of the collected digits, and the state it leads to.
ChunkSized(p) ==
  LET digit(v, t) == IF v < 0 THEN v
                     ELSE IF t[1] # "digit" THEN -1
                     ELSE IF v * 16 + t[2] > MAX_BODY_BYTES THEN -2 ELSE v * 16 + t[2]
      value == FoldLeft(digit, 0, p.size)
  IN  IF value = -1 THEN Fails(p, "Malformed")
      ELSE IF value = -2 THEN Fails(p, "TooLarge")
      ELSE [p EXCEPT !.remaining = value, !.size = <<>>,
                     !.state = IF value = 0 THEN "ChunkEnd" ELSE "ChunkData"]

\* The bytes of a body piece: as many as the frame still has and the input holds.
Take(p, input, next) ==
  LET count == IF p.remaining < Len(input) THEN p.remaining ELSE Len(input)
      q == Append_body(p, SubSeq(input, 1, count))
  IN  <<[q EXCEPT !.remaining = @ - count,
                  !.state = IF p.remaining = count THEN next ELSE @], count>>

\* CR then LF: the LF is looked for in the same input, or the state remembers
\* that it is due.
LineEnd(p, input, split, done, fault) ==
  IF input[1][1] # "cr" THEN <<Fails(p, fault), 1>>
  ELSE IF Len(input) = 1 THEN <<[p EXCEPT !.state = split], 1>>
  ELSE IF input[2][1] # "lf" THEN <<Fails(p, fault), 2>>
  ELSE <<done, 2>>

LineFeed(p, input, done, fault) ==
  <<IF input[1][1] = "lf" THEN done ELSE Fails(p, fault), 1>>

\* One turn of ResponseParser::feed's loop: the parser and the bytes consumed.
FeedTurn(p, input) ==
  LET byte == input[1]
      next(s) == [p EXCEPT !.state = s]
  IN  CASE p.state = "Complete" -> <<Fails(p, "Malformed"), 1>>
        [] p.state = "Headers" ->
             IF Len(p.lines) = MAX_HEADER_BYTES THEN <<Fails(p, "HeaderTooLarge"), 1>>
             ELSE IF byte[1] = "blank" THEN <<parse_headers(p), 1>>
             ELSE <<[p EXCEPT !.lines = Append(@, byte)], 1>>
        [] p.state = "Body" -> Take(p, input, "Complete")
        [] p.state = "ChunkData" -> Take(p, input, "ChunkDataCr")
        [] p.state = "ChunkSize" /\ byte[1] = "cr" ->
             IF p.size = <<>> THEN <<Fails(p, "Malformed"), 1>>
             ELSE LineEnd(p, input, "ChunkSizeLf", ChunkSized(p), "Malformed")
        [] p.state = "ChunkSize" /\ byte[1] \in {"lf", "space"} -> <<Fails(p, "Malformed"), 1>>
        [] p.state = "ChunkSize" /\ byte[1] \notin {"cr", "lf", "space"} ->
             <<IF Len(p.size) = SIZE_DIGITS THEN Fails(p, "Overflow")
               ELSE [p EXCEPT !.size = Append(@, byte)], 1>>
        [] p.state = "ChunkSizeLf" -> LineFeed(p, input, ChunkSized(p), "Malformed")
        [] p.state = "ChunkDataCr" -> LineEnd(p, input, "ChunkDataLf", next("ChunkSize"), "Malformed")
        [] p.state = "ChunkDataLf" -> LineFeed(p, input, next("ChunkSize"), "Malformed")
        [] p.state = "ChunkEnd" -> LineEnd(p, input, "ChunkEndLf", next("Complete"), "Trailers")
        [] p.state = "ChunkEndLf" -> LineFeed(p, input, next("Complete"), "Trailers")

RECURSIVE feed(_, _)
feed(p, input) ==
  IF input = <<>> \/ p.err # "none" THEN p
  ELSE LET turn == FeedTurn(p, input)
       IN  feed(turn[1], SubSeq(input, turn[2] + 1, Len(input)))

\* What a server sends for a page: its header lines, and the body with its
\* length or cut into chunks (external: RFC 9112).
Framing(page) ==
  LET chunk(acc, n) ==
        LET at == acc[2]
        IN  <<acc[1] \o <<<<"digit", n>>, <<"cr", 0>>, <<"lf", 0>>>>
                     \o SubSeq(page.body, at + 1, at + n) \o <<<<"cr", 0>>, <<"lf", 0>>>>, at + n>>
      end == <<<<"digit", 0>>, <<"cr", 0>>, <<"lf", 0>>, <<"cr", 0>>, <<"lf", 0>>>>
  IN  IF page.chunks = <<>> THEN page.body ELSE FoldLeft(chunk, <<<<>>, 0>>, page.chunks)[1] \o end

Wire(page) == page.head \o <<<<"blank", 0>>>> \o Framing(page)

----------------------------------------------------------------------------
\* URLs.  A text is a sequence of tokens too: digits, dots, colons, slashes,
\* other characters and control characters.

Tok(kind) == <<kind, 0>>
At(text, kind) == SelectInSeq(text, LAMBDA t : t[1] = kind)

\* parse_ipv4: one pass over the host and a closing dot.
Octet(s, t) ==
  IF ~s.ok THEN s
  ELSE IF t[1] = "digit"
  THEN LET v == s.value * 10 + t[2]
       IN  [s EXCEPT !.value = v, !.digits = @ + 1, !.ok = s.digits # 3 /\ v <= 255]
  ELSE IF t[1] = "dot" /\ s.digits # 0
  THEN [ok |-> Len(s.parts) # 4, parts |-> Append(s.parts, s.value), value |-> 0, digits |-> 0]
  ELSE [s EXCEPT !.ok = FALSE]
parse_ipv4(host) ==
  LET s == FoldLeft(Octet, [ok |-> TRUE, parts |-> <<>>, value |-> 0, digits |-> 0],
                    Append(host, Tok("dot")))
  IN  IF s.ok /\ Len(s.parts) = 4 THEN s.parts ELSE None

\* parse_decimal, -1 for none: the value leaves 16 bits as soon as it is too large.
parse_decimal(text) ==
  LET digit(v, t) == IF v < 0 \/ t[1] # "digit" \/ v * 10 + t[2] > 65535 THEN -1
                     ELSE v * 10 + t[2]
  IN  IF text = <<>> THEN -1 ELSE FoldLeft(digit, 0, text)

\* Url::parse: scheme, authority, port, address and path, in this order.
parse(text) ==
  LET rest == Tail(text)
      slash == At(rest, "slash")
      authority == IF slash = 0 THEN rest ELSE SubSeq(rest, 1, slash - 1)
      path == IF slash = 0 THEN <<Tok("slash")>> ELSE SubSeq(rest, slash, Len(rest))
      colon == At(authority, "colon")
      after == SubSeq(authority, colon + 1, Len(authority))
      port == IF colon = 0 THEN 80 ELSE parse_decimal(after)
      address == parse_ipv4(IF colon = 0 THEN authority ELSE SubSeq(authority, 1, colon - 1))
      bad(e) == [err |-> e, address |-> None, port |-> 0, path |-> <<>>]
  IN  IF text = <<>> \/ text[1] # Tok("http") THEN bad("Scheme")
      ELSE IF authority = <<>> \/ (colon # 0 /\ At(after, "colon") # 0) THEN bad("Authority")
      ELSE IF port \in {-1, 0} THEN bad("Port")
      ELSE IF address = None THEN bad("Address")
      ELSE IF Len(path) > MAX_PATH_BYTES \/ At(path, "ctl") # 0 THEN bad("Path")
      ELSE [err |-> "none", address |-> address, port |-> port, path |-> path]

\* push_decimal and push_ipv4
push_decimal(n) ==
  LET width == CHOOSE k \in 1..5 : n < 10^k /\ (k = 1 \/ n >= 10^(k - 1))
  IN  [i \in 1..width |-> <<"digit", (n \div 10^(width - i)) % 10>>]
push_ipv4(address) ==
  push_decimal(address[1]) \o FoldLeft(LAMBDA acc, v : acc \o <<Tok("dot")>> \o push_decimal(v),
                                       <<>>, Tail(address))

\* Url::request, <<>> when it is too large.
RequestText(u) ==
  LET text == <<Tok("get")>> \o u.path \o <<Tok("host")>> \o push_ipv4(u.address)
              \o <<Tok("colon")>> \o push_decimal(u.port) \o <<Tok("close")>>
  IN  IF Len(text) > MAX_REQUEST_BYTES THEN <<>> ELSE text

\* A URL as it is typed: http, the parts of the host, the ports after colons, and
\* the path (external: RFC 3986).
Text(ask) ==
  LET number(ds) == [i \in DOMAIN ds |-> <<"digit", ds[i]>>]
      joined(kind, parts) == FoldLeft(LAMBDA acc, ds : acc \o <<Tok(kind)>> \o number(ds), <<>>, parts)
      host == joined("dot", ask.host)
  IN  ask.scheme \o (IF host = <<>> THEN <<>> ELSE Tail(host)) \o joined("colon", ask.ports) \o ask.path

\* Operation::new refuses what does not parse or whose request is too large.
Valid(page) ==
  LET u == parse(Text(page.ask)) IN u.err = "none" /\ RequestText(u) # <<>>

----------------------------------------------------------------------------
\* The operation.  A handler maps s = [o, tn, ts, tf, status]: the operation, the
\* queues to Network, Storage and Flow, and the status that ends it.

Page(o) == World.pages[o.url]

\* Operation::new
NewOperation(m) ==
  [id |-> m.id, url |-> m.url, mode |-> m.mode, parser |-> NewParser, phase |-> "Connect",
   slot |-> 0, gen |-> 0, stage |-> 0, staged |-> 0, pending |-> <<"none", 0>>,
   nid |-> 1, sid |-> 1, offset |-> 0, mark |-> PROGRESS, cancel |-> FALSE]

Room(q) == Len(q) < QueueSlots
Put(q, m) == IF Room(q) THEN Append(q, m) ELSE q

Response(o, status) ==
  [kind |-> "response", id |-> o.id, phase |-> o.phase, status |-> status, offset |-> 0,
   data |-> <<>>, code |-> o.parser.status]

send_progress(s, status) == [s EXCEPT !.tf = Put(@, Response(s.o, status))]

send_body_chunk(s) ==
  LET o == s.o
      body == o.parser.body
      last == IF o.offset + FETCH_BODY_CHUNK < Len(body) THEN o.offset + FETCH_BODY_CHUNK
              ELSE Len(body)
      chunk == [kind |-> "chunk", id |-> o.id, phase |-> o.phase, status |-> "InProgress",
                offset |-> o.offset, data |-> SubSeq(body, o.offset + 1, last), code |-> 0]
      later == [s EXCEPT !.o.pending = <<"Body", 0>>]
  IN  IF o.offset >= Len(body) THEN [s EXCEPT !.status = "Ok"]
      ELSE IF ~Room(s.tf) THEN later
      ELSE IF last = Len(body)
           THEN [s EXCEPT !.tf = Append(@, chunk), !.o.offset = last, !.status = "Ok"]
           ELSE [later EXCEPT !.tf = Append(@, chunk), !.o.offset = last]

send_network(s, kind) ==
  LET o == s.o
      request == [kind |-> kind, id |-> o.nid, slot |-> o.slot, gen |-> o.gen, by |-> o.id]
      next == [s EXCEPT !.o.nid = @ + 1]
  IN  IF Room(s.tn)
      THEN [next EXCEPT !.tn = Append(@, request), !.o.pending = <<"Network", o.nid>>]
      ELSE [next EXCEPT !.status = "Network"]

retry_network(s) ==
  CASE s.o.phase = "Connect" -> send_network(s, "TcpConnect")
    [] s.o.phase = "SendRequest" -> send_network(s, "TcpWrite")
    [] s.o.phase = "ReadResponse" -> send_network(s, "TcpRead")

\* storage_request and send_storage
send_storage(s, action, offset, data) ==
  LET o == s.o
      request == [kind |-> action, id |-> o.sid, stage |-> o.stage, offset |-> offset,
                  data |-> data, by |-> o.id]
      next == [s EXCEPT !.o.sid = @ + 1]
  IN  IF Room(s.ts)
      THEN [next EXCEPT !.ts = Append(@, request), !.o.pending = <<"Storage", o.sid>>]
      ELSE [next EXCEPT !.status = "Storage"]

\* Fetch tells an unset handle by its value zero, which is also slot zero's.
cleanup(s, abort_stage) ==
  LET o == s.o
      asks == (IF o.pending[1] = "Network"
               THEN <<[kind |-> "Cancel", id |-> o.pending[2], slot |-> 0, gen |-> 0, by |-> o.id]>>
               ELSE <<>>)
              \o (IF o.slot # 0
                  THEN <<[kind |-> "Close", id |-> o.nid, slot |-> o.slot, gen |-> o.gen, by |-> o.id]>>
                  ELSE <<>>)
      abort == [kind |-> "Abort", id |-> o.sid, stage |-> o.stage, offset |-> 0, data |-> <<>>,
                by |-> o.id]
  IN  [s EXCEPT !.tn = FoldLeft(Put, @, asks),
                !.ts = IF abort_stage /\ o.stage # 0 THEN Put(@, abort) ELSE @]

Terminal(status) ==
  CASE status = "Ok" -> "Complete" [] status = "Cancelled" -> "Cancelled" [] OTHER -> "Failed"

finish(s, status) ==
  LET c == [cleanup(s, status # "Ok") EXCEPT !.o.phase = Terminal(status)]
  IN  [send_progress(c, status) EXCEPT !.o = NoOp]

----------------------------------------------------------------------------
\* Answers.

ReadMore(s, r) ==
  LET parsed == [s EXCEPT !.o.parser = feed(@, r.data)]
      fed == IF r.data # <<>> /\ Len(parsed.o.parser.body) >= s.o.mark
             THEN send_progress([parsed EXCEPT !.o.mark = @ + PROGRESS], "InProgress")
             ELSE parsed
      o == fed.o
      staging == send_progress([fed EXCEPT !.o.phase = "StageStorage"], "InProgress")
  IN  IF o.parser.err # "none"
      THEN [parsed EXCEPT !.status = IF o.parser.err = "TooLarge" THEN "Oversized" ELSE "Malformed"]
      ELSE IF o.parser.state # "Complete" THEN send_network(fed, "TcpRead")
      ELSE IF o.mode = "response" THEN send_body_chunk([fed EXCEPT !.o.phase = "Complete"])
      ELSE send_storage(staging, "Begin", 0, <<>>)

handle_network(s, r) ==
  LET taken == [s EXCEPT !.o.pending = <<"none", 0>>]
      progress(t, p) == send_progress([t EXCEPT !.o.phase = p], "InProgress")
  IN  IF r.id # s.o.pending[2] THEN [s EXCEPT !.status = "Stale"]
      ELSE IF r.result = "WouldBlock" THEN retry_network(taken)
      ELSE IF r.result # "Ok"
           THEN [taken EXCEPT !.status = IF r.result \in {"Timeout", "Stale"} THEN r.result ELSE "Network"]
      ELSE CASE s.o.phase = "Connect" ->
                  send_network(progress([taken EXCEPT !.o.slot = r.slot, !.o.gen = r.gen],
                                        "SendRequest"), "TcpWrite")
             [] s.o.phase = "SendRequest" ->
                  send_network(progress(taken, "ReadResponse"), "TcpRead")
             [] s.o.phase = "ReadResponse" -> ReadMore(taken, r)

\* The next chunk of the body, or the commit once every byte is staged.
StageMore(s) ==
  LET body == s.o.parser.body
      from == s.o.staged
      to == IF from + STAGE_CHUNK < Len(body) THEN from + STAGE_CHUNK ELSE Len(body)
      commit == send_progress([s EXCEPT !.o.phase = "Commit"], "InProgress")
  IN  IF from < Len(body)
      THEN send_storage([s EXCEPT !.o.staged = to], "Chunk", from, SubSeq(body, from + 1, to))
      ELSE send_storage(commit, "Commit", 0, <<>>)

handle_storage(s, r) ==
  LET taken == [s EXCEPT !.o.pending = <<"none", 0>>]
  IN  IF r.id # s.o.pending[2] THEN [s EXCEPT !.status = "Stale"]
      ELSE IF r.result # "Ok"
           THEN [taken EXCEPT !.status = IF r.result = "TooLarge" THEN "Oversized" ELSE "Storage"]
      ELSE CASE s.o.phase = "StageStorage" /\ s.o.stage = 0 ->
                  StageMore([taken EXCEPT !.o.stage = r.stage])
             [] s.o.phase = "StageStorage" /\ s.o.stage # 0 -> StageMore(taken)
             [] s.o.phase = "Commit" -> [taken EXCEPT !.o.phase = "Complete", !.status = "Ok"]

----------------------------------------------------------------------------
\* Flow's FetchClient.

FlowIdle == [active |-> FALSE, id |-> 0, url |-> 1, mode |-> "response", cancel |-> FALSE,
             ok |-> FALSE, body |-> <<>>]

Init ==
  /\ world \in DOMAIN Scenarios
  /\ flow = FlowIdle /\ pc = "control" /\ op = NoOp
  /\ toFetch = <<>> /\ toFlow = <<>> /\ toNet = <<>> /\ fromNet = <<>>
  /\ toStore = <<>> /\ fromStore = <<>>
  /\ net = [socks |-> [s \in Slots |-> [url |-> 0, at |-> 0, gen |-> 0, by |-> 0]],
            waiting |-> [id |-> 0, slot |-> 0, by |-> 0]]
  /\ store = [stage |-> 0, by |-> 0, data |-> <<>>, next |-> 1, files |-> <<>>]
  /\ left = [requests |-> World.requests, cancels |-> World.cancels,
             timeouts |-> World.timeouts, faults |-> World.faults]
  /\ told = <<>>
  /\ lost = [requests |-> {}, terminals |-> {}, crossed |-> {}, orphans |-> {}]

Asked == Len(told)
Queues == <<toFetch, toFlow, toNet, fromNet, toStore, fromStore>>

\* FetchClient::start_with_mode.  told gains the request's own entry, which
\* remembers the page and the mode asked for.
FlowStart ==
  /\ ~flow.active /\ left.requests > 0 /\ Room(toFetch)
  /\ \E u \in DOMAIN World.pages, mode \in {"response", "file"} :
       LET id == Asked + 1
       IN  /\ toFetch' = Append(toFetch, [kind |-> "request", id |-> id, url |-> u, mode |-> mode])
           /\ flow' = [active |-> TRUE, id |-> id, url |-> u, mode |-> mode, cancel |-> FALSE,
                       ok |-> FALSE, body |-> <<>>]
           /\ told' = Append(told, [url |-> u, mode |-> mode, ends |-> <<>>])
  /\ left' = [left EXCEPT !.requests = @ - 1]
  /\ UNCHANGED <<world, pc, op, toFlow, toNet, fromNet, toStore, fromStore, net, store, lost>>

\* FetchClient::cancel, through handle_control.
FlowCancel ==
  /\ flow.active /\ ~flow.cancel /\ left.cancels > 0
  /\ flow' = [flow EXCEPT !.cancel = TRUE]
  /\ left' = [left EXCEPT !.cancels = @ - 1]
  /\ UNCHANGED <<world, pc, op, net, store, told, lost>> /\ UNCHANGED Queues

\* What FetchClient::drive makes of a message.
Received(f, m) ==
  IF m.kind = "chunk"
  THEN IF f.mode # "response" \/ m.id # f.id \/ m.offset # Len(f.body)
          \/ m.offset + Len(m.data) > MAX_VALUE
       THEN [f EXCEPT !.active = FALSE]
       ELSE [f EXCEPT !.body = @ \o m.data]
  ELSE IF m.id # f.id THEN [f EXCEPT !.active = FALSE]
  ELSE IF m.phase \in {"Complete", "Failed", "Cancelled"}
  THEN [f EXCEPT !.active = FALSE, !.cancel = FALSE, !.ok = (m.status = "Ok")]
  ELSE f

\* FetchClient::drive: a queued cancel goes first and waits for room, then one
\* message is read.
FlowDrive ==
  LET sent == [flow EXCEPT !.cancel = FALSE]
  IN  /\ flow.active
      /\ flow.cancel => Room(toFetch)
      /\ flow.cancel \/ toFlow # <<>>
      /\ toFetch' = IF flow.cancel
                    THEN Append(toFetch, [kind |-> "control", id |-> flow.id, url |-> 0, mode |-> "none"])
                    ELSE toFetch
      /\ flow' = IF toFlow = <<>> THEN sent ELSE Received(sent, Head(toFlow))
      /\ toFlow' = IF toFlow = <<>> THEN toFlow ELSE Tail(toFlow)
      /\ UNCHANGED <<world, pc, op, toNet, fromNet, toStore, fromStore, net, store, left, told, lost>>

----------------------------------------------------------------------------
\* The loop of _start, a receive at a time.

State == [o |-> op, tn |-> toNet, ts |-> toStore, tf |-> toFlow, status |-> "none"]

\* The operation ended with status; what it could not hand over is remembered.
EndedBy(s, status, crossed) ==
  LET o == s.o
      f == finish(s, status)
  IN  /\ told' = [told EXCEPT ![o.id].ends = Append(@, status)]
      /\ lost' = [lost EXCEPT
           !.crossed = @ \cup crossed,
           !.terminals = IF Room(s.tf) THEN @ ELSE @ \cup {o.id},
           !.orphans = IF \/ o.pending[1] = "Storage" /\ o.stage = 0
                          \/ o.pending[1] = "Network" /\ o.phase = "Connect"
                          \/ ~Room(s.tn) \/ Len(s.tn) + 1 = QueueSlots \/ ~Room(s.ts)
                       THEN @ \cup {o.id} ELSE @]
      /\ op' = NoOp /\ toNet' = f.tn /\ toStore' = f.ts /\ toFlow' = f.tf
Ended(s, status) == EndedBy(s, status, {})

Applied(s) ==
  IF s.status # "none" THEN Ended(s, s.status)
  ELSE /\ op' = s.o /\ toNet' = s.tn /\ toStore' = s.ts /\ toFlow' = s.tf
       /\ UNCHANGED <<told, lost>>

\* The first receive takes whatever Flow sent: a control of the operation cancels
\* it, a request is not one and is gone.
Control ==
  /\ pc = "control"
  /\ LET m == Head(toFetch)
         cancels == toFetch # <<>> /\ m.kind = "control" /\ m.id = op.id
         s == IF cancels THEN [State EXCEPT !.o.cancel = TRUE] ELSE State
     IN  /\ toFetch' = IF toFetch = <<>> THEN toFetch ELSE Tail(toFetch)
         /\ \/ /\ op # NoOp /\ (cancels \/ op.cancel)
               /\ Ended(s, "Cancelled") /\ pc' = "control" /\ UNCHANGED left
            \/ /\ op # NoOp /\ ~cancels /\ ~op.cancel /\ left.timeouts > 0
               /\ Ended(s, "Timeout") /\ pc' = "control"
               /\ left' = [left EXCEPT !.timeouts = @ - 1]
            \/ /\ (op # NoOp => ~cancels /\ ~op.cancel)
               /\ lost' = IF toFetch # <<>> /\ m.kind = "request"
                          THEN [lost EXCEPT !.requests = @ \cup {m.id}] ELSE lost
               /\ pc' = "request"
               /\ UNCHANGED <<op, toNet, toStore, toFlow, told, left>>
  /\ UNCHANGED <<world, flow, fromNet, fromStore, net, store>>

\* The second receive, without an operation, starts one.  A request whose connect
\* finds no room is dropped without an answer.
Request ==
  /\ pc = "request" /\ pc' = "answer"
  /\ IF op # NoOp \/ toFetch = <<>>
     THEN UNCHANGED <<op, toFetch, toNet, toStore, toFlow, told, lost>>
     ELSE LET m == Head(toFetch)
              fresh == [State EXCEPT !.o = NewOperation(m)]
              s == send_network(send_progress(fresh, "InProgress"), "TcpConnect")
              invalid == [Response(fresh.o, "Invalid") EXCEPT !.phase = "Failed"]
          IN  /\ toFetch' = Tail(toFetch)
              /\ \/ /\ m.kind # "request"
                    /\ UNCHANGED <<op, toNet, toStore, toFlow, told, lost>>
                 \/ /\ m.kind = "request" /\ ~Valid(World.pages[m.url])
                    /\ toFlow' = Put(toFlow, invalid)
                    /\ told' = [told EXCEPT ![m.id].ends = Append(@, "Invalid")]
                    /\ lost' = [lost EXCEPT !.terminals = IF Room(toFlow) THEN @ ELSE @ \cup {m.id}]
                    /\ UNCHANGED <<op, toNet, toStore>>
                 \/ /\ m.kind = "request" /\ Valid(World.pages[m.url])
                    /\ toFlow' = s.tf /\ toNet' = s.tn
                    /\ op' = IF s.status = "none" THEN s.o ELSE NoOp
                    /\ lost' = IF s.status = "none" THEN lost
                               ELSE [lost EXCEPT !.requests = @ \cup {m.id}]
                    /\ UNCHANGED <<toStore, told>>
  /\ UNCHANGED <<world, flow, fromNet, fromStore, net, store, left>>

\* The third part takes the answer the operation waits for, or sends the next
\* piece of the body.
Answer ==
  LET kind == op.pending[1]
      crosses(r) == r.by # op.id /\ r.id = op.pending[2]
      takes(s, r) ==
        IF s.status # "none" THEN EndedBy(s, s.status, IF crosses(r) THEN {op.id} ELSE {})
        ELSE /\ op' = s.o /\ toNet' = s.tn /\ toStore' = s.ts /\ toFlow' = s.tf
             /\ lost' = IF crosses(r) THEN [lost EXCEPT !.crossed = @ \cup {op.id}] ELSE lost
             /\ UNCHANGED told
  IN  /\ pc = "answer" /\ pc' = "control"
      /\ \/ /\ op # NoOp /\ kind = "Network" /\ fromNet # <<>>
            /\ takes(handle_network(State, Head(fromNet)), Head(fromNet))
            /\ fromNet' = Tail(fromNet) /\ UNCHANGED fromStore
         \/ /\ op # NoOp /\ kind = "Storage" /\ fromStore # <<>>
            /\ takes(handle_storage(State, Head(fromStore)), Head(fromStore))
            /\ fromStore' = Tail(fromStore) /\ UNCHANGED fromNet
         \/ /\ op # NoOp /\ kind = "Body"
            /\ Applied(send_body_chunk([State EXCEPT !.o.pending = <<"none", 0>>]))
            /\ UNCHANGED <<fromNet, fromStore>>
         \/ /\ op # NoOp => \/ kind = "Network" /\ fromNet = <<>>
                            \/ kind = "Storage" /\ fromStore = <<>>
            /\ UNCHANGED <<op, toNet, toStore, toFlow, fromNet, fromStore, told, lost>>
      /\ UNCHANGED <<world, flow, toFetch, net, store, left>>

----------------------------------------------------------------------------
\* Network, as its command loop serves Fetch (its own machine is Networking).

Sock(m) == net.socks[m.slot]
Holds(m) == m.slot \in Slots /\ Sock(m).url # 0 /\ Sock(m).gen = m.gen
FreeSock == [url |-> 0, at |-> 0, gen |-> 0, by |-> 0]
Freed(slot) == [net.socks EXCEPT ![slot] = [FreeSock EXCEPT !.gen = net.socks[slot].gen + 1]]
Reply(m, result, slot, gen, data) ==
  [id |-> m.id, result |-> result, slot |-> slot, gen |-> gen, data |-> data, by |-> m.by]

\* A command that is answered at once.
NetAnswers(m) ==
  \/ /\ m.kind = "TcpConnect" /\ \A s \in Slots : net.socks[s].url # 0
     /\ fromNet' = Append(fromNet, Reply(m, "Full", 0, 1, <<>>))
     /\ UNCHANGED <<net, left>>
  \/ /\ m.kind \in {"TcpWrite", "TcpRead", "Close"} /\ ~Holds(m)
     /\ fromNet' = Append(fromNet, Reply(m, "Stale", m.slot, m.gen, <<>>))
     /\ UNCHANGED <<net, left>>
  \/ /\ m.kind \in {"TcpWrite", "TcpRead"} /\ Holds(m) /\ m.id < MaxAsked
     /\ fromNet' = Append(fromNet, Reply(m, "WouldBlock", m.slot, m.gen, <<>>))
     /\ left.faults > 0 /\ left' = [left EXCEPT !.faults = @ - 1]
     /\ UNCHANGED net
  \/ /\ m.kind = "TcpWrite" /\ Holds(m)
     /\ fromNet' = Append(fromNet, Reply(m, "Ok", m.slot, m.gen, <<>>))
     /\ UNCHANGED <<net, left>>
  \/ /\ m.kind = "TcpRead" /\ Holds(m)
     /\ LET wire == Wire(World.pages[Sock(m).url])
            at == Sock(m).at
        IN  \E n \in World.reads :
              LET to == IF at + n < Len(wire) THEN at + n ELSE Len(wire)
              IN  /\ fromNet' = Append(fromNet, Reply(m, "Ok", m.slot, m.gen, SubSeq(wire, at + 1, to)))
                  /\ to > at
                  /\ net' = [net EXCEPT !.socks[m.slot].at = to]
     /\ UNCHANGED left
  \/ /\ m.kind = "Close" /\ Holds(m)
     /\ fromNet' = Append(fromNet, Reply(m, "Ok", m.slot, m.gen, <<>>))
     /\ net' = [net EXCEPT !.socks = Freed(m.slot)]
     /\ UNCHANGED left

NetServes ==
  /\ toNet # <<>> /\ toNet' = Tail(toNet)
  /\ LET m == Head(toNet)
         slot == CHOOSE s \in Slots : net.socks[s].url = 0 /\ \A z \in Slots : net.socks[z].url = 0 => s <= z
         opened == [url |-> told[m.by].url, at |-> 0, gen |-> net.socks[slot].gen + 1, by |-> m.by]
     IN  \/ /\ Room(fromNet) /\ NetAnswers(m)
         \/ /\ m.kind = "TcpConnect" /\ \E s \in Slots : net.socks[s].url = 0
            /\ net' = [socks |-> [net.socks EXCEPT ![slot] = opened],
                       waiting |-> [id |-> m.id, slot |-> slot, by |-> m.by]]
            /\ UNCHANGED <<fromNet, left>>
         \/ /\ m.kind = "Cancel"
            /\ net' = IF net.waiting.id # m.id THEN net
                      ELSE [socks |-> Freed(net.waiting.slot),
                            waiting |-> [id |-> 0, slot |-> 0, by |-> 0]]
            /\ UNCHANGED <<fromNet, left>>
  /\ UNCHANGED <<world, flow, pc, op, toFetch, toFlow, toStore, fromStore, store, told, lost>>

\* The awaited connect comes about, or its deadline passes.
NetConnects ==
  /\ net.waiting.id # 0 /\ Room(fromNet)
  /\ LET w == net.waiting
         idle == [id |-> 0, slot |-> 0, by |-> 0]
     IN  \/ /\ fromNet' = Append(fromNet, Reply(w, "Ok", w.slot, net.socks[w.slot].gen, <<>>))
            /\ net' = [net EXCEPT !.waiting = idle] /\ UNCHANGED left
         \/ /\ left.faults > 0 /\ left' = [left EXCEPT !.faults = @ - 1]
            /\ fromNet' = Append(fromNet, Reply(w, "Timeout", w.slot, net.socks[w.slot].gen, <<>>))
            /\ net' = [socks |-> Freed(w.slot), waiting |-> idle]
  /\ UNCHANGED <<world, flow, pc, op, toFetch, toFlow, toNet, toStore, fromStore, store, told, lost>>

\* Storage's staged write: stage_begin, stage_chunk, stage_commit, stage_abort.
\* A commit may fail; the stage is gone all the same.
StoreServes ==
  /\ toStore # <<>> /\ Room(fromStore) /\ toStore' = Tail(toStore)
  /\ LET m == Head(toStore)
         held == store.stage # 0 /\ store.stage = m.stage
         empty == [store EXCEPT !.stage = 0, !.by = 0, !.data = <<>>]
         answer(result, stage) ==
           fromStore' = Append(fromStore, [id |-> m.id, result |-> result, stage |-> stage, by |-> m.by])
     IN  \/ /\ m.kind = "Begin" /\ store.stage # 0 /\ answer("Busy", 0) /\ UNCHANGED <<store, left>>
         \/ /\ m.kind = "Begin" /\ store.stage = 0 /\ answer("Ok", store.next)
            /\ store' = [store EXCEPT !.stage = store.next, !.by = m.by, !.next = @ + 1]
            /\ UNCHANGED left
         \/ /\ m.kind # "Begin" /\ ~held /\ answer("Stale", m.stage) /\ UNCHANGED <<store, left>>
         \/ /\ m.kind = "Chunk" /\ held /\ UNCHANGED left
            /\ IF m.offset # Len(store.data) THEN answer("Invalid", m.stage) /\ UNCHANGED store
               ELSE answer("Ok", m.stage) /\ store' = [store EXCEPT !.data = @ \o m.data]
         \/ /\ m.kind = "Abort" /\ held /\ answer("Ok", m.stage) /\ store' = empty /\ UNCHANGED left
         \/ /\ m.kind = "Commit" /\ held /\ answer("Ok", m.stage) /\ UNCHANGED left
            /\ store' = [empty EXCEPT !.files = Append(@, [by |-> store.by, data |-> store.data])]
         \/ /\ m.kind = "Commit" /\ held /\ left.faults > 0 /\ answer("Io", m.stage)
            /\ store' = empty /\ left' = [left EXCEPT !.faults = @ - 1]
  /\ UNCHANGED <<world, flow, pc, op, toFetch, toFlow, toNet, fromNet, net, told, lost>>

Next == FlowStart \/ FlowCancel \/ FlowDrive \/ Control \/ Request \/ Answer
        \/ NetServes \/ NetConnects \/ StoreServes

Spec == Init /\ [][Next]_vars

----------------------------------------------------------------------------
\* Properties.

Bodies == {World.pages[u].body : u \in DOMAIN World.pages}
Asks(id) == World.pages[told[id].url]

\* The state has its shape: queues within their capacity, one operation, a
\* staged offset and a sent offset inside the body.
TypeOK ==
  /\ pc \in {"control", "request", "answer"}
  /\ \A i \in 1..6 : Len(Queues[i]) <= QueueSlots
  /\ op # NoOp =>
       /\ op.phase \in {"Connect", "SendRequest", "ReadResponse", "StageStorage", "Commit", "Complete"}
       /\ op.pending[1] \in {"Network", "Storage", "Body"}
       /\ op.staged <= Len(op.parser.body) /\ op.offset <= Len(op.parser.body)
       /\ op.id \in 1..Asked

\* The parser is independent of how TCP cuts the response: whenever it is
\* complete it holds the body of a page, and a page the limits admit never
\* fails in it (ResponseParser::feed).
ParserExact ==
  op # NoOp =>
    /\ op.parser.state = "Complete" => op.parser.body \in Bodies
    /\ op.parser.err = "none"

\* A URL is taken exactly when it names four octets, at most one port of 16 bits
\* other than zero and a printable path that fits, and it is taken for what it
\* says; the Host header of its request names the same address and port
\* (Url::parse, Url::request).
Number(ds) == FoldLeft(LAMBDA v, d : v * 10 + d, 0, ds)
UrlsExact ==
  Asked = 0 => \A i \in DOMAIN World.pages :
    LET ask == World.pages[i].ask
        u == parse(Text(ask))
        sent == RequestText(u)
        named == SubSeq(sent, At(sent, "host") + 1, Len(sent) - 1)
    IN  /\ u.err = "none" <=>
             /\ ask.scheme = <<Tok("http")>> /\ Len(ask.host) = 4
             /\ \A k \in 1..4 : Len(ask.host[k]) \in 1..3 /\ Number(ask.host[k]) <= 255
             /\ Len(ask.ports) <= 1
             /\ \A k \in DOMAIN ask.ports : ask.ports[k] # <<>> /\ Number(ask.ports[k]) \in 1..65535
             /\ Len(ask.path) <= MAX_PATH_BYTES /\ Tok("ctl") \notin ToSet(ask.path)
        /\ u.err = "none" =>
             /\ u.address = [k \in 1..4 |-> Number(ask.host[k])]
             /\ u.port = IF ask.ports = <<>> THEN 80 ELSE Number(ask.ports[1])
             /\ sent # <<>> => parse(<<Tok("http")>> \o named) = [u EXCEPT !.path = <<Tok("slash")>>]

\* A failure blamed on the page is the page's: Malformed and Oversized end only
\* a fetch of a page that is so, unless the answers were another fetch's.
VerdictsFit ==
  \A id \in 1..Asked : \A e \in ToSet(told[id].ends) :
    id \notin lost.crossed =>
      /\ e = "Malformed" => Asks(id).fault = "Malformed"
      /\ e = "Oversized" => Asks(id).fault = "Oversized"
      /\ e = "Ok" => Asks(id).fault = "none"

\* A published file is whole: what a commit made visible is the body of the page
\* that was asked for, never a part of it and never another fetch's, as long as
\* no answer was taken for another's (docs/processes/fetch.md: "a partial
\* destination is never visible").
PublishedWhole ==
  \A i \in DOMAIN store.files :
    LET f == store.files[i]
    IN  f.data \in Bodies /\ (f.by \in lost.crossed \/ f.data = Asks(f.by).body)

\* Ok is said of a file only after its commit.
OkIsPublished ==
  \A id \in 1..Asked :
    "Ok" \in ToSet(told[id].ends) /\ told[id].mode = "file" =>
      \E i \in DOMAIN store.files : store.files[i].by = id

\* A response Flow holds as good has the whole body, in order, whatever messages
\* found the queue full.
ResponseWhole ==
  flow.ok /\ flow.mode = "response" =>
    flow.body \in Bodies /\ (flow.id \in lost.crossed \/ flow.body = Asks(flow.id).body)

\* A request ends at most once, and one that ended has no operation any more.
EndsOnce ==
  \A id \in 1..Asked : Len(told[id].ends) <= 1 /\ (told[id].ends # <<>> => op.id # id)

\* Nothing is left behind by an ended fetch but what it could not know of: a
\* socket or a stage without an operation is being released, or its answer was
\* still under way when the fetch ended, or the release found the queue full, or
\* the socket is in slot zero, which cleanup takes for no socket.
Released ==
  /\ \A s \in Slots :
       LET k == net.socks[s]
       IN  k.url # 0 /\ k.by # op.id /\ s # 0 =>
             \/ k.by \in lost.orphans \/ k.by \in lost.crossed
             \/ \E i \in DOMAIN toNet : toNet[i].kind = "Close" /\ toNet[i].slot = s
  /\ store.stage # 0 /\ store.by # op.id =>
       \/ store.by \in lost.orphans \/ store.by \in lost.crossed
       \/ \E i \in DOMAIN toStore : toStore[i].kind \in {"Abort", "Commit"} /\ toStore[i].stage = store.stage

\* A waiting Flow is waited for: while its fetch is active the request is queued,
\* runs, or has ended with its message under way, except for the losses the loop
\* allows (a request read as a control, a connect or a terminal without room, a
\* message of an earlier fetch read first).
FetchAccounted ==
  flow.active =>
    LET id == flow.id
    IN  \/ op.id = id
        \/ \E i \in DOMAIN toFetch : toFetch[i].kind = "request" /\ toFetch[i].id = id
        \/ \E i \in DOMAIN toFlow : toFlow[i].id = id /\ toFlow[i].phase \in {"Complete", "Failed", "Cancelled"}
        \/ id \in lost.requests \cup lost.terminals

=============================================================================
