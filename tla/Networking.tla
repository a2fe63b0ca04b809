----------------------------- MODULE Networking -----------------------------
\* The Network service (network/src/lib.rs and services/images/src/network.rs)
\* with its two clients: Flow's synchronous NetworkClient
\* (services/flow/src/client/network.rs) and Fetch, which asks and reads answers
\* on its own.  The service is one loop of five steps: poll the stack, take one
\* packet descriptor from the Core, settle the request it is waiting on, serve one
\* command, hand one frame to the Core.  smoltcp is external: what it does with a
\* frame is a choice among the outcomes the service can see.
EXTENDS Integers, Sequences, FiniteSets, FiniteSetsExt, SequencesExt

CONSTANTS
  SocketSlots, ListenerSlots,       \* NETWORK_MAX_SOCKET_SLOTS, NETWORK_MAX_LISTENER_SLOTS
  GenMod,                           \* socket generations wrap here (2^16 in the code)
  RX, TX,                           \* PacketDevice ring sizes
  QueueSlots,                       \* capacity of each of the four request/response queues
  GatewayDeadline, DhcpDeadline,    \* the profile's deadlines, in loop turns
  POLLS,                            \* Flow gives up after this many polls (256 in the code)
  Timeouts,                         \* timeout_ticks a client may ask for; 0 means the gateway's
  Profiles,                         \* NETWORK.CFG files: sequences of <<key, value>> lines
  Ops,                              \* peer -> the operations it asks for
  Links, Frames,                    \* link states the Core reports; frames that arrive
  Eager,                            \* whether clients ask while the network is configuring
  MaxTicks, MaxAsked, MaxFrames     \* bounds: loop turns, requests per peer, frames that arrive

VARIABLES
  config,    \* the parsed boot profile: "disabled" or "static"
  svc,       \* NetworkService: state, dhcp_active, socket and listener slots
  net,       \* mod stack: interface, sockets and packet rings
  link,      \* network_packet_response: the Core's LinkState, until it is delivered
  wire,      \* frames the Core's driver holds for the service
  pc, tick,  \* the step of the loop; elapsed_ticks
  echoed,    \* icmp_reply_received of this turn
  pending,   \* pending_request: <<>> or one request
  out,       \* an answer being sent: <<>> or <<peer, response, step after it>>
  asks, replies,          \* the queues between each peer and the service
  flow,                   \* Flow's request in progress
  asked,                  \* next_request_id of each peer's id space
  taken, answered, displaced, cancelled, \* history: what became of each request
  held, lost,             \* handles answered and not closed; handles of displaced requests
  misused,                \* a request went through on a handle its client no longer held
  premature,              \* a connect went to the stack while the network was configuring
  arrived, early, ended   \* frames so far; Unavailable before the deadlines; Flow's results

svcVars == <<svc, net, link, wire, pc, tick, echoed, pending, out>>
history == <<taken, answered, displaced, cancelled, held, lost, misused, premature, arrived, early, ended>>
vars == <<config, svcVars, asks, replies, flow, asked, history>>

Peers == {"Flow", "Fetch"}
None == -1

-----------------------------------------------------------------------------
\* network_config.rs: a profile is taken only whole.

\* valid_static_ipv4: an address is <<network, host>>, the mask separates the two.
valid_static_ipv4(address, mask, gateway) ==
  /\ mask = "contiguous"
  /\ \A a \in {address, gateway} : a # <<"zero", 0>> /\ a[1] \notin {"loopback", "multicast"}
  /\ address # gateway /\ address[1] = gateway[1]

Keys == {"profile", "address", "netmask", "gateway", "gateway_deadline_ticks", "dhcp_deadline_ticks"}
\* parse: every line a known key, seen once, with a value that parses; a disabled
\* profile names no address; anything else fails closed.
parse(lines) ==
  LET Is(k) == {i \in DOMAIN lines : lines[i][1] = k}
      Value(k) == lines[CHOOSE i \in Is(k) : TRUE][2]
      wellFormed == /\ lines # <<>>
                    /\ \A i \in DOMAIN lines : lines[i][1] \in Keys /\ Len(lines[i]) = 2
                    /\ \A k \in Keys : Cardinality(Is(k)) <= 1
                    /\ Is("profile") # {} /\ Value("profile") \in {"disabled", "static_then_dhcp"}
      addressed == {k \in {"address", "netmask", "gateway"} : Is(k) # {}} IN
  IF /\ wellFormed /\ Value("profile") = "static_then_dhcp" /\ Cardinality(addressed) = 3
     /\ valid_static_ipv4(Value("address"), Value("netmask"), Value("gateway"))
  THEN "static" ELSE "disabled"

-----------------------------------------------------------------------------
\* NetworkService: the slot tables.

EMPTY == [kind |-> "none", gen |-> 1, peer |-> None]
bump(g) == IF (g + 1) % GenMod = 0 THEN 1 ELSE (g + 1) % GenMod
Table(listener) == IF listener THEN "listeners" ELSE "sockets"
NoHandle == [slot |-> 0, gen |-> 0]

\* allocate_socket_kind: the first free slot, under a new generation.
allocate_socket_kind(s, kind) ==
  LET t == Table(kind = "Listener")
      free == {i \in DOMAIN s[t] : s[t][i].kind = "none"}
      i == Min(free)
      g == bump(s[t][i].gen) IN
  IF s.state \notin {"Ready", "Configuring"} THEN [result |-> "Stale", svc |-> s, handle |-> NoHandle]
  ELSE IF free = {} THEN [result |-> "Full", svc |-> s, handle |-> NoHandle]
  ELSE [result |-> "Ok", handle |-> [slot |-> i, gen |-> g],
        svc |-> [s EXCEPT ![t][i] = [kind |-> kind, gen |-> g, peer |-> None]]]

\* valid_handle: an allocated slot of an expected kind, under this generation.
valid_handle(s, h, listener, kinds) ==
  LET t == s[Table(listener)] IN
  h.slot \in DOMAIN t /\ t[h.slot].kind \in kinds /\ t[h.slot].gen = h.gen

\* close: a listener takes its accepted socket with it, an accepted socket leaves
\* its listener free to accept again.
CloseMutant(s, h, listener) ==
  [s EXCEPT ![Table(listener)][h.slot] = [@ EXCEPT !.kind = "none", !.peer = None]]
close(s, h, listener) ==
  IF ~valid_handle(s, h, listener, IF listener THEN {"Listener"} ELSE {"Tcp", "Udp"}) THEN s ELSE
  LET Freed(e) == [kind |-> "none", gen |-> bump(e.gen), peer |-> None]
      peer == s[Table(listener)][h.slot].peer
      s1 == [s EXCEPT ![Table(listener)][h.slot] = Freed(@)] IN
  IF peer = None THEN s1
  ELSE IF listener THEN [s1 EXCEPT !.sockets[peer] = Freed(@)]
  ELSE [s1 EXCEPT !.listeners[peer].peer = None]

\* accept: a listener holds one accepted socket at a time.
accept(s, h) ==
  LET free == {i \in DOMAIN s.sockets : s.sockets[i].kind = "none"}
      i == Min(free)
      g == bump(s.sockets[i].gen) IN
  IF ~valid_handle(s, h, TRUE, {"Listener"}) THEN [result |-> "Stale", svc |-> s, handle |-> NoHandle]
  ELSE IF s.listeners[h.slot].peer # None \/ free = {}
    THEN [result |-> "Full", svc |-> s, handle |-> NoHandle]
  ELSE [result |-> "Ok", handle |-> [slot |-> i, gen |-> g],
        svc |-> [s EXCEPT !.sockets[i] = [kind |-> "Tcp", gen |-> g, peer |-> h.slot],
                          !.listeners[h.slot].peer = i]]

\* poll_configuration: the gateway's answer, or a lease, before the two deadlines.
poll_configuration(s, now, reachable, bound) ==
  LET dhcp == s.dhcp \/ now >= GatewayDeadline IN
  IF s.state # "Configuring" THEN s
  ELSE IF reachable THEN [s EXCEPT !.state = "Ready"]
  ELSE [s EXCEPT !.dhcp = dhcp,
                 !.state = IF dhcp /\ bound THEN "Ready"
                           ELSE IF dhcp /\ now >= GatewayDeadline + DhcpDeadline THEN "Unavailable"
                           ELSE @]

Opens(op) == CASE op = "UdpBind" -> "Udp" [] op = "TcpConnect" -> "Tcp" [] op = "TcpListen" -> "Listener"
                  [] OTHER -> "none"
Expected(q) == CASE q.op \in {"UdpSend", "UdpReceive"} -> {"Udp"}
                 [] q.op = "TcpAccept" \/ (q.op = "Close" /\ q.listener) -> {"Listener"}
                 [] q.op \in {"TcpRead", "TcpWrite"} -> {"Tcp"}
                 [] OTHER -> {"Tcp", "Udp", "Listener"}
Response(q, result, h) == [op |-> q.op, id |-> q.id, result |-> result, slot |-> h.slot, gen |-> h.gen]

\* NetworkService::handle: what the slot tables alone decide.  An answer that names
\* no socket carries slot 0 and the service's own generation, 1.
handle(s, q) ==
  LET own == [slot |-> 0, gen |-> 1]
      onListener == q.op = "TcpAccept" \/ (q.op = "Close" /\ q.listener)
      h == [slot |-> q.slot, gen |-> q.gen]
      a == allocate_socket_kind(s, Opens(q.op)) IN
  IF s.state # "Ready" /\ q.op # "Status"
    THEN [svc |-> s, resp |-> Response(q, IF s.state = "Configuring" THEN "WouldBlock" ELSE "Unavailable",
                                       NoHandle)]
  ELSE CASE q.op = "Status" -> [svc |-> s, resp |-> Response(q, "Ok", own)]
         [] q.op = "IcmpPing" -> [svc |-> s, resp |-> Response(q, "WouldBlock", own)]
         [] Opens(q.op) # "none" ->
              [svc |-> a.svc,
               resp |-> IF a.result # "Ok" THEN Response(q, a.result, own)
                        ELSE Response(q, IF q.op = "TcpConnect" THEN "WouldBlock" ELSE "Ok", a.handle)]
         [] OTHER ->
              IF ~valid_handle(s, h, onListener, Expected(q))
                THEN [svc |-> s, resp |-> Response(q, "Stale", own)]
              ELSE IF q.op = "Close"
                THEN [svc |-> close(s, h, q.listener), resp |-> Response(q, "Ok", own)]
              ELSE [svc |-> s, resp |-> Response(q, "WouldBlock", own)]

-----------------------------------------------------------------------------
\* mod stack: the interface, its sockets and the packet rings.

Ports == 0..(SocketSlots + ListenerSlots - 1)
FreshStack ==
  [ready |-> FALSE, probed |-> FALSE, addr |-> "none", dhcp |-> "none", icmp |-> FALSE,
   rx |-> <<>>, tx |-> 0, queued |-> 0, staged |-> FALSE, tcp |-> [i \in Ports |-> "Closed"],
   udp |-> [i \in 0..(SocketSlots - 1) |-> FALSE], from |-> [i \in 0..(SocketSlots - 1) |-> None]]

\* initialize: once; the static address of the profile, every socket closed.
initialize(n) == IF n.ready THEN n ELSE [n EXCEPT !.ready = TRUE, !.addr = "static"]

Queue(n) == [n EXCEPT !.queued = IF @ < TX THEN @ + 1 ELSE @]
\* ping, and the one probe of the gateway.
ping(n) == Queue(n)
probe_gateway(n) == IF n.probed THEN n ELSE ping([n EXCEPT !.probed = TRUE])

\* poll_ingress_single: one frame, if a transmit slot is free for the answer to it.
Ingress(n) ==
  LET m == [n EXCEPT !.rx = Tail(@)]
      Move(from, to) == {m} \cup {[m EXCEPT !.tcp[i] = to] : i \in {j \in Ports : n.tcp[j] \in from}} IN
  IF n.rx = <<>> \/ n.tx >= TX THEN {n}
  ELSE IF n.addr = "none" /\ Head(n.rx) # "lease" THEN {m}
  ELSE CASE Head(n.rx) = "echo" -> {[m EXCEPT !.icmp = TRUE]}
         [] Head(n.rx) = "lease" -> {IF n.dhcp = "asked" THEN [m EXCEPT !.dhcp = "leased"] ELSE m}
         [] Head(n.rx) = "syn" -> Move({"Listen"}, "Established")
         [] Head(n.rx) = "synack" -> Move({"SynSent"}, "Established")
         [] Head(n.rx) = "reset" -> Move({"SynSent", "Established"}, "Closed")

\* poll_network: one frame in, a lease taken up once DHCP runs, waiting frames out.
poll_network(n, dhcpActive) ==
  {LET bound == dhcpActive /\ m.dhcp = "leased"
       k == Min({m.queued, TX - m.tx}) IN
   [bound |-> bound,
    net |-> [m EXCEPT !.addr = IF bound THEN "dhcp" ELSE @, !.dhcp = IF bound THEN "bound" ELSE @,
                      !.queued = @ - k, !.tx = @ + k]] : m \in Ingress(n)}

\* start_dhcp: the static address goes, a discover is queued.
start_dhcp(n) == Queue([n EXCEPT !.addr = "none", !.dhcp = "asked"])

\* enqueue_rx: a frame that finds the ring full is dropped.
enqueue_rx(n, f) == IF Len(n.rx) >= RX THEN n ELSE [n EXCEPT !.rx = Append(@, f)]

tcp_index(n, slot) == IF n.from[slot] # None THEN SocketSlots + n.from[slot] ELSE slot
\* close aborts the TCP socket behind a slot and forgets what was accepted from it.
stack_close(n, slot, listener) ==
  [n EXCEPT !.tcp[IF listener THEN SocketSlots + slot ELSE tcp_index(n, slot)] = "Closed",
            !.from = [s \in DOMAIN @ |-> IF IF listener THEN @[s] = slot ELSE s = slot
                                         THEN None ELSE @[s]]]
udp_close(n, slot) == [n EXCEPT !.udp[slot] = FALSE]
\* What the stack may make of a connect, and whether a slot's socket is connected.
tcp_connect(n, slot) ==
  IF n.tcp[slot] = "Closed" /\ n.addr # "none" THEN {Queue([n EXCEPT !.tcp[slot] = "SynSent"])} ELSE {}
tcp_listen(n, slot) == [n EXCEPT !.tcp[SocketSlots + slot] = "Listen"]
tcp_accept(n, slot) == n.tcp[SocketSlots + slot] = "Established"

-----------------------------------------------------------------------------
\* One command: what the slot tables decide, then what the stack does.  A socket
\* the stack cannot open is closed again and answered Full; a ping and a connect
\* wait for their result.  A request met while the network is still configuring is
\* refused by handle() and passed to the stack all the same.
ServeMutant(s, n, q) ==
  LET b == handle(s, q) IN {[svc |-> b.svc, net |-> n, resp |-> b.resp, wait |-> FALSE]}
Serve(s, n, q) ==
  LET b == handle(s, q)
      r == b.resp
      h == [slot |-> r.slot, gen |-> r.gen]
      Done(s1, n1, result) == [svc |-> s1, net |-> n1, resp |-> [r EXCEPT !.result = result], wait |-> FALSE]
      Wait(n1) == [svc |-> b.svc, net |-> n1, resp |-> r, wait |-> TRUE]
      Plain == Done(b.svc, n, r.result)
      connected == n.tcp[tcp_index(n, q.slot)] = "Established" IN
  CASE q.op = "UdpBind" /\ r.result = "Ok" ->
         {Done(b.svc, [n EXCEPT !.udp[r.slot] = TRUE], "Ok"),
          Done(close(b.svc, h, FALSE), udp_close(n, r.slot), "Full")}
    [] q.op = "TcpListen" /\ r.result = "Ok" ->
         {Done(b.svc, tcp_listen(n, r.slot), "Ok"),
          Done(close(b.svc, h, TRUE), stack_close(n, r.slot, TRUE), "Full")}
    [] q.op = "IcmpPing" /\ r.result = "WouldBlock" ->
         (IF n.ready THEN {Wait(ping(n))} ELSE {}) \cup {Done(b.svc, n, "Full")}
    [] q.op = "TcpConnect" /\ r.result = "WouldBlock" ->
         {Wait(n1) : n1 \in tcp_connect(n, r.slot)} \cup {Done(close(b.svc, h, FALSE), stack_close(n, r.slot, FALSE), "Full")}
    [] q.op \in {"UdpSend", "UdpReceive"} /\ r.result = "WouldBlock" ->
         {Done(b.svc, n, "WouldBlock")}
           \cup (IF n.udp[q.slot] THEN {Done(b.svc, IF q.op = "UdpSend" THEN Queue(n) ELSE n, "Ok")} ELSE {})
    [] q.op \in {"TcpRead", "TcpWrite"} /\ r.result = "WouldBlock" ->
         {Done(b.svc, n, IF connected THEN "Ok" ELSE "WouldBlock")}
    [] q.op = "TcpAccept" /\ r.result = "WouldBlock" ->
         LET a == accept(b.svc, h) IN
         IF a.result # "Ok" THEN {Done(b.svc, n, a.result)}
         ELSE IF ~tcp_accept(n, q.slot)
           THEN {Done(close(a.svc, a.handle, FALSE), n, "WouldBlock")}
         ELSE {[svc |-> a.svc, net |-> [n EXCEPT !.from[a.handle.slot] = q.slot],
                resp |-> Response(q, "Ok", a.handle), wait |-> FALSE]}
    [] q.op = "Close" /\ r.result = "Ok" ->
         {Done(b.svc, stack_close(IF q.listener THEN n ELSE udp_close(n, q.slot), q.slot, q.listener), "Ok")}
    [] OTHER -> {Plain}

-----------------------------------------------------------------------------
Id(p, q) == <<p, q.id, q.op>>
Handle(listener, r) == [listener |-> listener, slot |-> r.slot, gen |-> r.gen]
NoFlow == [phase |-> "Idle", op |-> "Status", id |-> 0, polls |-> 0, want |-> FALSE, sent |-> FALSE]

Init ==
  /\ \E p \in Profiles : config = parse(p)
  /\ svc = [state |-> IF config = "static" THEN "Configuring" ELSE "Disabled", dhcp |-> FALSE,
            sockets |-> [i \in 0..(SocketSlots - 1) |-> EMPTY],
            listeners |-> [i \in 0..(ListenerSlots - 1) |-> EMPTY]]
  /\ net = FreshStack /\ link \in Links /\ wire = <<>>
  /\ pc = (IF config = "static" THEN "Poll" ELSE "Off") /\ tick = 0 /\ echoed = FALSE
  /\ pending = <<>> /\ out = <<>>
  /\ asks = [p \in Peers |-> <<>>] /\ replies = [p \in Peers |-> <<>>]
  /\ flow = NoFlow /\ asked = [p \in Peers |-> 0]
  /\ taken = {} /\ answered = <<>> /\ displaced = {} /\ cancelled = {}
  /\ held = {} /\ lost = {} /\ misused = FALSE /\ premature = FALSE /\ arrived = 0 /\ early = FALSE /\ ended = {}

\* The top of the loop: probe, poll, configure, start DHCP once the gateway's
\* deadline has passed; a lease makes the service ready.
Poll ==
  /\ pc = "Poll" /\ tick < MaxTicks
  /\ tick' = tick + 1
  /\ pc' = "Core"
  /\ IF ~net.ready THEN echoed' = FALSE /\ UNCHANGED <<net, svc, early>>
     ELSE \E r \in poll_network(IF svc.dhcp THEN net ELSE probe_gateway(net), svc.dhcp) :
            LET s1 == poll_configuration(svc, tick + 1, r.net.icmp, r.bound)
                n1 == [r.net EXCEPT !.icmp = FALSE] IN
            /\ echoed' = r.net.icmp
            /\ net' = IF s1.dhcp /\ ~svc.dhcp THEN start_dhcp(n1) ELSE n1
            /\ svc' = IF r.bound THEN [s1 EXCEPT !.state = "Ready"] ELSE s1
            /\ early' = (early \/ (s1.state = "Unavailable" /\ svc.state # "Unavailable"
                                    /\ tick + 1 < GatewayDeadline + DhcpDeadline))
  /\ UNCHANGED <<config, link, wire, pending, out, asks, replies, flow, asked, taken, answered,
                 displaced, cancelled, held, lost, misused, premature, arrived, ended>>
\* One descriptor from the Core: the link, once, or a received frame, which goes
\* to the ring and through the stack at once.  The lease a frame may bring is not
\* looked at here.
Core ==
  /\ pc = "Core" /\ pc' = "Pending"
  /\ \/ /\ link # "none" /\ link' = "none"
        /\ svc' = IF link = "up" THEN svc ELSE [svc EXCEPT !.state = "Unavailable"]
        /\ net' = IF link = "up" THEN initialize(net) ELSE net
        /\ UNCHANGED <<wire, echoed>>
     \/ /\ link = "none" /\ wire # <<>> /\ wire' = Tail(wire)
        /\ IF ~net.ready THEN UNCHANGED <<svc, net, echoed>>
           ELSE \E r \in poll_network(enqueue_rx(net, Head(wire)), svc.dhcp) :
                  /\ net' = [r.net EXCEPT !.icmp = FALSE]
                  /\ svc' = IF r.net.icmp THEN poll_configuration(svc, tick, TRUE, FALSE) ELSE svc
                  /\ echoed' = (echoed \/ r.net.icmp)
        /\ UNCHANGED link
     \/ link = "none" /\ wire = <<>> /\ UNCHANGED <<link, wire, svc, net, echoed>>
  /\ UNCHANGED <<config, tick, pending, out, asks, replies, flow, asked, history>>

\* send_network_response begins: the loop goes on once the answer is in the queue.
Answer(p, r, after) == out' = <<p, r, after>> /\ pc' = "Send"

\* The request the service waits on: answered when its result is there, or Timeout
\* at its deadline, when a connect also gives its socket back.
DeadlineOf(q) == IF q.timeout = 0 THEN GatewayDeadline ELSE q.timeout
Pending ==
  /\ pc = "Pending"
  /\ LET w == pending[1]
         complete == IF w.q.op = "IcmpPing" THEN echoed ELSE net.tcp[w.resp.slot] = "Established"
         late == tick - w.started >= DeadlineOf(w.q)
         drop == w.q.op = "TcpConnect" /\ ~complete IN
     IF pending = <<>> \/ ~(complete \/ late)
       THEN pc' = "Command" /\ UNCHANGED <<svc, net, pending, out, answered, held>>
       ELSE /\ svc' = IF drop THEN close(svc, [slot |-> w.resp.slot, gen |-> w.resp.gen], FALSE) ELSE svc
            /\ net' = IF drop THEN stack_close(net, w.resp.slot, FALSE) ELSE net
            /\ pending' = <<>>
            /\ Answer(w.peer, [w.resp EXCEPT !.result = IF complete THEN "Ok" ELSE "Timeout"], "Command")
            /\ answered' = Append(answered, Id(w.peer, w.q))
            /\ held' = IF complete /\ w.q.op = "TcpConnect" /\ w.resp.gen # 0
                       THEN held \cup {Handle(FALSE, w.resp)} ELSE held
  /\ UNCHANGED <<config, link, wire, tick, echoed, asks, replies, flow, asked, taken, displaced,
                 cancelled, lost, misused, premature, arrived, early, ended>>

\* Cancel: only the peer's own waiting request; only Flow is told.
Cancel(p, q) ==
  LET w == pending[1]
      mine == pending # <<>> /\ w.peer = p /\ w.q.id = q.id
      drop == mine /\ w.q.op = "TcpConnect" IN
  /\ pending' = IF mine THEN <<>> ELSE pending
  /\ svc' = IF drop THEN close(svc, [slot |-> w.resp.slot, gen |-> w.resp.gen], FALSE) ELSE svc
  /\ net' = IF drop THEN stack_close(net, w.resp.slot, FALSE) ELSE net
  /\ cancelled' = cancelled \cup (IF mine THEN {Id(p, w.q)} ELSE {})
                            \cup (IF p = "Fetch" THEN {Id(p, q)} ELSE {})
  /\ IF p = "Flow"
       THEN /\ Answer(p, Response(q, IF mine THEN "Cancelled" ELSE "Stale", NoHandle), "Transmit")
            /\ answered' = Append(answered, Id(p, q))
       ELSE pc' = "Transmit" /\ UNCHANGED <<out, answered>>
  /\ UNCHANGED <<held, lost, displaced, misused, premature>>

\* Any other request.  A second request to wait for takes the place of the first.
Request(p, q) ==
  \E o \in Serve(svc, net, q) :
    /\ svc' = o.svc /\ net' = o.net
    /\ misused' = (misused \/ (/\ svc.state = "Ready" /\ Opens(q.op) = "none"
                               /\ q.op \notin {"Status", "IcmpPing"} /\ o.resp.result # "Stale"
                               /\ Handle(q.listener, q) \notin held))
    /\ premature' = (premature \/ (o.wait /\ q.op = "TcpConnect" /\ o.resp.gen = 0))
    /\ IF o.wait
         THEN /\ pending' = <<[q |-> q, resp |-> o.resp, peer |-> p, started |-> tick]>>
              /\ pc' = "Transmit"
              /\ displaced' = displaced \cup {Id(w.peer, w.q) : w \in ToSet(pending)}
              /\ lost' = lost \cup {Handle(FALSE, w.resp) :
                                     w \in {v \in ToSet(pending) : v.q.op = "TcpConnect" /\ v.resp.gen # 0}}
              /\ UNCHANGED <<out, answered, held>>
         ELSE /\ Answer(p, o.resp, "Transmit")
              /\ answered' = Append(answered, Id(p, q))
              /\ held' = IF o.resp.result # "Ok" THEN held
                         ELSE IF Opens(q.op) # "none" THEN held \cup {Handle(q.op = "TcpListen", o.resp)}
                         ELSE IF q.op = "TcpAccept" THEN held \cup {Handle(FALSE, o.resp)}
                         ELSE IF q.op = "Close"
                           THEN {h \in held : valid_handle(o.svc, h, h.listener, {"Tcp", "Udp", "Listener"})}
                         ELSE held
              /\ UNCHANGED <<pending, displaced, lost>>
    /\ UNCHANGED cancelled

\* One command of the turn, Flow's before Fetch's.
Command ==
  /\ pc = "Command"
  /\ LET p == IF asks["Flow"] # <<>> THEN "Flow" ELSE "Fetch" IN
     IF asks[p] = <<>>
       THEN pc' = "Transmit" /\ UNCHANGED <<svc, net, pending, out, asks, taken, answered, displaced,
                                            cancelled, held, lost, misused, premature>>
       ELSE LET q == Head(asks[p]) IN
            /\ asks' = [asks EXCEPT ![p] = Tail(@)]
            /\ taken' = taken \cup {Id(p, q)}
            /\ IF q.op = "Cancel" THEN Cancel(p, q) ELSE Request(p, q)
  /\ UNCHANGED <<config, link, wire, tick, echoed, replies, flow, asked, arrived, early, ended>>

\* The answer waits for room in the peer's queue.
Send ==
  /\ pc = "Send" /\ Len(replies[out[1]]) < QueueSlots
  /\ replies' = [replies EXCEPT ![out[1]] = Append(@, out[2])]
  /\ pc' = out[3] /\ out' = <<>>
  /\ UNCHANGED <<config, svc, net, link, wire, tick, echoed, pending, asks, flow, asked, history>>

\* The bottom of the loop: one frame staged in the transmit page and kept there
\* until the Core's driver takes it.
Transmit ==
  /\ pc = "Transmit" /\ pc' = "Poll"
  /\ LET staged == net.staged \/ (net.ready /\ net.tx > 0)
         tx == IF ~net.staged /\ staged THEN net.tx - 1 ELSE net.tx IN
     \E full \in BOOLEAN : net' = [net EXCEPT !.tx = tx, !.staged = staged /\ full]
  /\ UNCHANGED <<config, svc, link, wire, tick, echoed, pending, out, asks, replies, flow, asked, history>>

\* The driver receives a frame.
Arrive ==
  /\ arrived < MaxFrames /\ pc # "Off"
  /\ \E f \in Frames : wire' = Append(wire, f)
  /\ arrived' = arrived + 1
  /\ UNCHANGED <<config, svc, net, link, pc, tick, echoed, pending, out, asks, replies, flow, asked,
                 taken, answered, displaced, cancelled, held, lost, misused, premature, early, ended>>
-----------------------------------------------------------------------------
Ask(p, op, id, h, t) ==
  [op |-> op, id |-> id, listener |-> h.listener, slot |-> h.slot, gen |-> h.gen, timeout |-> t]
NullHandle == [listener |-> FALSE, slot |-> 0, gen |-> 0]
Served == pc # "Off" /\ (Eager \/ svc.state # "Configuring")
Push(p, q) == asks' = [asks EXCEPT ![p] = Append(@, q)]

\* NetworkClient::request: one request in flight; a full queue ends the command.
FlowAsk ==
  /\ Served /\ flow.phase = "Idle" /\ asked["Flow"] < MaxAsked
  /\ \E op \in Ops["Flow"], t \in Timeouts :
       LET id == asked["Flow"] + 1 IN
       /\ asked' = [asked EXCEPT !["Flow"] = id]
       /\ IF Len(asks["Flow"]) >= QueueSlots
            THEN ended' = ended \cup {<<id, op, "Full">>} /\ UNCHANGED <<asks, flow>>
            ELSE /\ Push("Flow", Ask("Flow", op, id, NullHandle, t))
                 /\ flow' = [NoFlow EXCEPT !.phase = "Waiting", !.op = op, !.id = id]
                 /\ UNCHANGED ended
  /\ UNCHANGED <<config, svcVars, replies, taken, answered, displaced, cancelled, held, lost, misused,
                 premature, arrived, early>>

\* close_tcp_response: a connect that was answered with a handle is closed again,
\* with a request of its own.
CloseAfter(r) ==
  IF flow.op = "TcpConnect" /\ r.gen # 0 /\ Len(asks["Flow"]) < QueueSlots
    THEN LET id == asked["Flow"] + 1 IN
         /\ asked' = [asked EXCEPT !["Flow"] = id]
         /\ Push("Flow", Ask("Flow", "Close", id, [listener |-> FALSE, slot |-> r.slot, gen |-> r.gen], 0))
         /\ flow' = [NoFlow EXCEPT !.phase = "Waiting", !.op = "Close", !.id = id]
    ELSE flow' = NoFlow /\ UNCHANGED <<asked, asks>>

\* One turn of request_message: perhaps a cancel from the session, which is sent
\* once there is room; then an answer, if one is there.  An answer that is not for
\* this request ends it as Stale, unless a cancel is out.
FlowPoll ==
  /\ flow.phase = "Waiting"
  /\ \E cancel \in BOOLEAN :
       LET want == flow.want \/ cancel
           full == want /\ ~flow.sent /\ Len(asks["Flow"]) >= QueueSlots
           sends == want /\ ~flow.sent /\ ~full
           sent == flow.sent \/ sends
           r == Head(replies["Flow"])
           reads == ~full /\ replies["Flow"] # <<>>
           own == r.id = flow.id /\ r.op = flow.op
           stop == IF ~reads THEN "none"
                   ELSE IF sent THEN IF r.op = "Cancel" /\ r.id = flow.id THEN "Cancelled" ELSE "none"
                   ELSE IF own THEN r.result ELSE "Mismatch"
           last == flow.polls + 1 >= POLLS IN
       /\ replies' = IF reads THEN [replies EXCEPT !["Flow"] = Tail(@)] ELSE replies
       /\ IF stop \notin {"none", "Cancelled", "Mismatch"} /\ ~sends
            THEN CloseAfter(r)
            ELSE /\ asks' = IF sends THEN [asks EXCEPT !["Flow"] =
                                Append(@, Ask("Flow", "Cancel", flow.id, NullHandle, 0))] ELSE asks
                 /\ flow' = IF stop # "none" \/ last THEN NoFlow
                            ELSE [flow EXCEPT !.polls = @ + 1, !.want = want, !.sent = sent]
                 /\ UNCHANGED asked
       /\ ended' = IF stop # "none" THEN ended \cup {<<flow.id, flow.op, stop>>}
                   ELSE IF last THEN ended \cup {<<flow.id, flow.op, IF sent THEN "Cancelled" ELSE "Empty">>}
                   ELSE ended
  /\ UNCHANGED <<config, svcVars, taken, answered, displaced, cancelled, held, lost, misused, premature, arrived, early>>

\* Fetch asks on a handle it was given, or cancels the request it waits on, and
\* takes its answers as they come.
FetchAsk ==
  /\ Served /\ asked["Fetch"] < MaxAsked /\ Len(asks["Fetch"]) < QueueSlots
  /\ \E op \in Ops["Fetch"], t \in Timeouts :
       \E h \in IF op \in {"TcpConnect", "UdpBind", "TcpListen", "Cancel"} THEN {NullHandle}
                ELSE held \cup {NullHandle} :
         \E id \in IF op = "Cancel" THEN {i \in {asked["Fetch"]} : i > 0 /\ <<"Fetch", i, "Cancel">> \notin cancelled}
                   ELSE {asked["Fetch"] + 1} :
           /\ Push("Fetch", Ask("Fetch", op, id, h, t))
           /\ asked' = [asked EXCEPT !["Fetch"] = IF op = "Cancel" THEN @ ELSE id]
  /\ UNCHANGED <<config, svcVars, replies, flow, history>>

FetchTake ==
  /\ replies["Fetch"] # <<>>
  /\ replies' = [replies EXCEPT !["Fetch"] = Tail(@)]
  /\ UNCHANGED <<config, svcVars, asks, flow, asked, history>>

Next == Poll \/ Core \/ Pending \/ Command \/ Send \/ Transmit \/ Arrive
        \/ FlowAsk \/ FlowPoll \/ FetchAsk \/ FetchTake

Spec == Init /\ [][Next]_vars

-----------------------------------------------------------------------------
States == {"Disabled", "Configuring", "Ready", "Unavailable"}
TypeOK ==
  /\ svc.state \in States /\ Len(net.rx) <= RX /\ net.tx \in 0..TX /\ Len(pending) <= 1
  /\ \A p \in Peers : Len(asks[p]) <= QueueSlots /\ Len(replies[p]) <= QueueSlots

\* A profile turns the network on only if it is whole: the four required lines,
\* no line twice, a host address and a gateway on one network.
ProfileFailsClosed ==
  \A p \in Profiles :
    parse(p) = "static" =>
      /\ \A k \in {"profile", "address", "netmask", "gateway"} :
           \E i \in DOMAIN p : p[i][1] = k /\ \A j \in DOMAIN p \ {i} : p[j][1] # k
      /\ \A i \in DOMAIN p : Len(p[i]) = 2 /\ (p[i][1] = "netmask" => p[i][2] = "contiguous")

\* Every request the service took has one fate: it is answered once, it is waited
\* on, it was cancelled, or a later ping or connect took its place.
RequestsSettled ==
  LET done == {answered[i] : i \in DOMAIN answered}
      waits == {Id(w.peer, w.q) : w \in ToSet(pending)} IN
  /\ Cardinality(done) = Len(answered)
  /\ taken = done \cup waits \cup cancelled \cup displaced
  /\ done \cap waits = {} /\ done \cap displaced = {} /\ waits \cap (cancelled \cup displaced) = {}

\* No socket slot leaks: an allocated slot is one a client holds, the waiting
\* connect's, or that of a connect whose place was taken.
SlotsAccountedFor ==
  LET live == {[listener |-> FALSE, slot |-> i, gen |-> svc.sockets[i].gen] :
                 i \in {j \in DOMAIN svc.sockets : svc.sockets[j].kind # "none"}}
              \cup {[listener |-> TRUE, slot |-> i, gen |-> svc.listeners[i].gen] :
                     i \in {j \in DOMAIN svc.listeners : svc.listeners[j].kind # "none"}}
      waits == {Handle(FALSE, w.resp) : w \in {v \in ToSet(pending) : v.q.op = "TcpConnect" /\ v.resp.gen # 0}} IN
  live = held \cup waits \cup {h \in lost : h \in live} /\ waits \cap held = {}

\* A request that names a socket goes through, once the network is ready, only
\* while the client it was handed to has not closed it.
OnlyHeldHandlesUsed == ~misused

\* The stack keeps nothing open behind a free slot, as long as no connect was let
\* through while the network was configuring.
FreeSlotsAreClosed ==
  \A i \in DOMAIN svc.sockets :
    svc.sockets[i].kind = "none" =>
      /\ ~net.udp[i] /\ net.from[i] = None
      /\ net.tcp[i] = "Closed" \/ premature

\* Ready means an address: the static one, or the lease that replaced it.
ReadyHasAddress == svc.state = "Ready" => net.ready /\ net.addr # "none"

\* The service gives up configuring only after both deadlines.
NotGivenUpEarly == ~early

\* No request is waited on past its deadline.
PendingInTime == \A w \in ToSet(pending) : pc = "Command" => tick - w.started < DeadlineOf(w.q)

\* A ping or a connect Flow reports as done was answered Ok to that very request.
FlowResultsOwn ==
  \A e \in ended : e[3] \in {"Ok", "Timeout"} => <<"Flow", e[1], e[2]>> \in ToSet(answered)
=============================================================================
