---------------------------- MODULE ClientSuite -----------------------------
\* The terminal, the Flow language, its fetches and the users, one component
\* per behaviour: the initial state picks a component and only that one takes
\* steps, so one run covers each of them on its own small instance.
EXTENDS Integers, Sequences, FiniteSets

EditorMessages == {<<"w">>, <<"L", "K">>, <<" ">>, <<"cr">>, <<"tab">>, <<"bs">>, <<"^W">>, <<"^K">>, <<"^U">>, <<"esc", "[", "A">>,
   <<"esc", "[", "B">>, <<"esc", "[", "D">>, <<"esc", "[", "3", "~">>, <<"esc", "[", "1", ";", "5", "D">>, <<"esc", "[", "1", ";", "5", "C">>,<<"esc", "[", "3", ";", "5", "~">>, <<"esc">>, <<"L", "K", "cr">>}
EditorCandidates == {<<[text |-> <<"w", "w">>, at |-> 2], [text |-> <<"w", "(">>, at |-> 2]>>}

\* Flow programs: a fetch kept in a variable, reassigned, awaited, cancelled, and
\* chained with expression and block callbacks.
FlowSources ==
  LET f == <<"net", ".", "fetch", "(", "str", ")">>
      status == <<"(", "r", ")", "=>", "r", ".", "status">>
      block == <<"(", "r", ")", "=>", "{", "return", "r", ".", "status", ";", "}">>
  IN  {<<"var", "p", "=">> \o f, <<"p", "=">> \o f, <<"var", "q", "=">> \o f,
       <<"await", "p">>, <<"p", ".", "cancel", "(", ")">>,
       <<"var", "q", "=", "p", ".", "then", "(">> \o status \o <<")">>,
       <<"await", "p", ".", "then", "(">> \o block \o <<")">>,
       <<"var", "q", "=", "await", "p">>, <<"q">>}
FlowAlphabet == {"p", "str", "(", ")", "=>", "{", "}", ";", "return", ".", "await"}

\* What Flow asks for: an http URL of a host, a port and a path of some length.
Ask(host, ports, path) ==
    [scheme |-> <<<<"http", 0>>>>, host |-> host, ports |-> ports,
     path |-> [i \in 1..path |-> IF i = 1 THEN <<"slash", 0>> ELSE <<"char", 0>>]]
Address == <<<<1, 0>>, <<0>>, <<2, 5, 5>>, <<9, 9>>>>
Hosts == <<Address, Tail(Address), <<<<1>>>> \o Address, [Address EXCEPT ![3] = <<2, 5, 6>>],
           [Address EXCEPT ![2] = <<>>], [Address EXCEPT ![4] = <<0, 0, 0, 1>>],
           [Address EXCEPT ![1] = <<0, 0, 1>>], <<>>>>
Ports == <<<<>>, <<<<8, 0>>>>, <<<<0>>>>, <<<<6, 5, 5, 3, 5>>>>, <<<<6, 5, 5, 3, 6>>>>, <<<<>>>>,
           <<<<1>>, <<2>>>>, <<<<0, 0, 0, 0, 0, 7>>>>>>
Urls == [k \in 1..64 |-> Ask(Hosts[((k - 1) \div 8) + 1], Ports[((k - 1) % 8) + 1], 2)]
        \o [n \in 1..7 |-> Ask(Address, <<>>, n - 1)]
        \o <<[Ask(Address, <<>>, 1) EXCEPT !.path = @ \o <<<<"ctl", 0>>>>],
             [Ask(Address, <<>>, 1) EXCEPT !.scheme = <<<<"other", 0>>>>]>>

\* A page a server sends: its head, its body, the chunks it is cut into, and
\* what is wrong with it.
Bytes(from, n) == [i \in 1..n |-> <<"data", from + i>>]
Page(head, n, chunks, fault) ==
    [ask |-> Ask(<<<<1>>, <<2, 5, 5>>, <<0, 0, 7>>, <<4, 0>>>>, <<>>, 1), head |-> head,
     body |-> Bytes(0, n), chunks |-> chunks, fault |-> fault]
OK == <<"status", 200>>
Sized(n) == <<"length", n>>
Chunked == <<"transfer", 1>>
Field == <<"field", 0>>
Whole(n) == Page(<<OK, Sized(n)>>, n, <<>>, "none")
Cut == Page(<<<<"status", 206>>, Field, Chunked>>, 3, <<2, 1>>, "none")
Faulty ==
    <<Page(<<<<"status", 404>>, Sized(1)>>, 1, <<>>, "Malformed"), Page(<<OK>>, 1, <<>>, "Malformed"),
      Page(<<OK, Sized(1), Sized(2)>>, 1, <<>>, "Malformed"), Page(<<OK, Sized(1), Chunked>>, 1, <<1>>, "Malformed"),
      Page(<<OK, Sized(9)>>, 1, <<>>, "Oversized"), Page(<<OK, Chunked>>, 5, <<3, 2>>, "Oversized"),
      Page(<<OK, <<"encoding", 0>>, Sized(1)>>, 1, <<>>, "Malformed"),
      Page(<<OK, <<"transfer", 2>>>>, 1, <<1>>, "Malformed"), Page(<<Sized(1), OK>>, 1, <<>>, "Malformed"),
      Page(<<OK, Field, Field, Field, Sized(1)>>, 1, <<>>, "Malformed"),
      Page(<<OK, Chunked>>, 5, <<5>>, "Oversized"),
      [Whole(1) EXCEPT !.ask = Ask(Address, <<<<0>>>>, 1)], Whole(0)>>
FetchScenario(pages, reads, requests, cancels, timeouts, faults) ==
    [pages |-> pages, reads |-> reads, requests |-> requests, cancels |-> cancels,
     timeouts |-> timeouts, faults |-> faults]
Two == <<Whole(1), [Whole(2) EXCEPT !.body = Bytes(10, 2)]>>
FetchScenarios ==
    <<FetchScenario([k \in 1..Len(Urls) |-> [Whole(1) EXCEPT !.ask = Urls[k]]], {20}, 1, 0, 0, 0),
      FetchScenario(<<Cut, Whole(4)>>, 1..6, 1, 0, 0, 0),
      FetchScenario(Faulty, {20}, 1, 0, 0, 0),
      FetchScenario(Two, {20}, 2, 1, 1, 0), FetchScenario(Two, {20}, 2, 0, 0, 1)>>

VARIABLES part,   \* the component that runs in this behaviour
          le_ed, le_queued, le_inflight, le_commands, le_torn, le_typed,
          st_pc, st_slot, st_owner, st_orphaned, st_control, st_uses, st_keys, st_toFlow, st_fromFlow,
          st_flow, st_others,
          tp_sessions, tp_panes, tp_current, tp_render_cursor, tp_last_sent, tp_pending_closes,
          tp_pending_input, tp_pending_render, tp_pc, tp_toAtrium, tp_known, tp_toRender,
          tp_grid, tp_toSession, tp_held, tp_output, tp_gone, tp_dropped, tp_foreign, tp_changes,
          fl_tokens, fl_rt, fl_last, fl_loose, fl_taken, fl_runs,
          fp_tokens, fp_rt, fp_last, fp_loose, fp_taken, fp_runs,
          fc_pc, fc_inq, fc_outq, fc_active_session, fc_pending, fc_completion, fc_client, fc_fetch,
          fc_promise, fc_waiting, fc_asker, fc_n, fc_answer, fc_detached, fc_misplaced,
          fh_world, fh_flow, fh_pc, fh_op, fh_toFetch, fh_toFlow, fh_toNet, fh_fromNet, fh_toStore,
          fh_fromStore, fh_net, fh_store, fh_left, fh_told, fh_lost,
          fs_client, fs_packages, fs_request, fs_response, fs_dead, fs_storage, fs_truth, fs_commands,
          fs_restarts,
          us_catalog, us_sessions, us_generations, us_durable, us_held, us_ready, us_life, us_logins,
          us_changes, us_known, us_unsure,
          lo_lock, lo_shell, lo_atrium, lo_flow, lo_user, lo_queue, lo_restarts, lo_abandoned, lo_dropped,
          lo_ignored, lo_crossed,
          lf_mode, lf_field, lf_controls, lf_components, lf_valid, lf_submitting, lf_retries, lf_failure,
          lf_auth, lf_asked,
          ls_visible, ls_held, ls_pending, ls_sent, ls_destroy, ls_cached, ls_draw, ls_splash, ls_serial,
          ls_hooks, ls_control, ls_response, ls_surfaces, ls_made, ls_orphans

\* The line editor: lines of three bytes, one history entry, one completion
\* row.
Le == INSTANCE SessionTabs WITH
    ed <- le_ed, queued <- le_queued, inflight <- le_inflight, commands <- le_commands,
    torn <- le_torn, typed <- le_typed, Slots <- 0..1, NoSlot <- -1, QueueSlots <- 1,
    MaxOthers <- 2, ResponseParts <- 1, Messages <- EditorMessages,
    Candidates <- EditorCandidates, MAX_LINE_BYTES <- 3, MAX_HISTORY_ENTRIES <- 1,
    MAX_COMPLETION_LINE_BYTES <- 2, MAX_VISIBLE_COMPLETION_ROWS <- 1,
    COMPLETION_TIMEOUT_TICKS <- 1, Ids <- 2, MaxMessages <- 4, pc <- 0, slot <- 0,
    owner <- 0, orphaned <- 0, control <- 0, uses <- 0, keys <- 0, toFlow <- 0,
    fromFlow <- 0, flow <- 0, others <- 0

\* The session multiplexer: two tabs, queues of one message.
St == INSTANCE SessionTabs WITH
    pc <- st_pc, slot <- st_slot, owner <- st_owner, orphaned <- st_orphaned,
    control <- st_control, uses <- st_uses, keys <- st_keys, toFlow <- st_toFlow,
    fromFlow <- st_fromFlow, flow <- st_flow, others <- st_others, Slots <- 0..1,
    NoSlot <- -1, QueueSlots <- 1, MaxOthers <- 2, ResponseParts <- 1,
    Messages <- EditorMessages, Candidates <- EditorCandidates, MAX_LINE_BYTES <- 3,
    MAX_HISTORY_ENTRIES <- 1, MAX_COMPLETION_LINE_BYTES <- 2,
    MAX_VISIBLE_COMPLETION_ROWS <- 1, COMPLETION_TIMEOUT_TICKS <- 1, Ids <- 2,
    MaxMessages <- 4, ed <- 0, queued <- 0, inflight <- 0, commands <- 0, torn <- 0,
    typed <- 0

\* The panes and tabs of the terminal: two sessions, two surfaces.
Tp == INSTANCE TerminalPanes WITH
    sessions <- tp_sessions, panes <- tp_panes, current <- tp_current,
    render_cursor <- tp_render_cursor, last_sent <- tp_last_sent,
    pending_closes <- tp_pending_closes, pending_input <- tp_pending_input,
    pending_render <- tp_pending_render, pc <- tp_pc, toAtrium <- tp_toAtrium,
    known <- tp_known, toRender <- tp_toRender, grid <- tp_grid,
    toSession <- tp_toSession, held <- tp_held, output <- tp_output, gone <- tp_gone,
    dropped <- tp_dropped, foreign <- tp_foreign, changes <- tp_changes,
    MAX_TERMINAL_SESSIONS <- 2, Surfaces <- 1..2, GenMod <- 3, Capacity <- 1,
    MaxChanges <- 2

\* The Flow language: programs of up to four statements over a fetch kept in
\* variables.
Fl == INSTANCE FlowLanguage WITH
    tokens <- fl_tokens, rt <- fl_rt, last <- fl_last, loose <- fl_loose, taken <- fl_taken,
    runs <- fl_runs, Sources <- FlowSources, Alphabet <- FlowAlphabet, MaxTokens <- 0,
    MaxRuns <- 4, MAX_EXPR_NODES <- 64, MAX_STATEMENTS <- 16, MAX_ARGUMENTS <- 3,
    MAX_CALLBACK_DEPTH <- 4, MAX_VARIABLES <- 8, MAX_PROMISES <- 3

\* The Flow parser, over every source of up to eight tokens of a small
\* alphabet.
Fp == INSTANCE FlowLanguage WITH
    tokens <- fp_tokens, rt <- fp_rt, last <- fp_last, loose <- fp_loose, taken <- fp_taken,
    runs <- fp_runs, Sources <- {}, Alphabet <- FlowAlphabet, MaxTokens <- 8,
    MaxRuns <- 0, MAX_EXPR_NODES <- 5, MAX_STATEMENTS <- 3, MAX_ARGUMENTS <- 3,
    MAX_CALLBACK_DEPTH <- 1, MAX_VARIABLES <- 8, MAX_PROMISES <- 3

\* The command loop of Flow: two sessions and every kind of command.
Fc == INSTANCE FlowCommands WITH
    pc <- fc_pc, inq <- fc_inq, outq <- fc_outq, active_session <- fc_active_session,
    pending <- fc_pending, completion <- fc_completion, client <- fc_client,
    fetch <- fc_fetch, promise <- fc_promise, waiting <- fc_waiting, asker <- fc_asker,
    n <- fc_n, answer <- fc_answer, detached <- fc_detached, misplaced <- fc_misplaced,
    Sessions <- 0..1,
    Ops <- {"local", "storage", "device", "fetch", "fetchVariable", "fetchThenWrite", "cancelPromise", "awaitPromise"},
    QueueSlots <- 2, MaxCommands <- 3

\* Fetch between Flow, Network and Storage: URLs, pages cut by TCP, faulty
\* pages, two requests with a cancel, a timeout and a fault.
Fh == INSTANCE Fetch WITH
    world <- fh_world, flow <- fh_flow, pc <- fh_pc, op <- fh_op, toFetch <- fh_toFetch,
    toFlow <- fh_toFlow, toNet <- fh_toNet, fromNet <- fh_fromNet, toStore <- fh_toStore,
    fromStore <- fh_fromStore, net <- fh_net, store <- fh_store, left <- fh_left,
    told <- fh_told, lost <- fh_lost, Scenarios <- FetchScenarios, MAX_HEADER_BYTES <- 4,
    MAX_BODY_BYTES <- 4, SIZE_DIGITS <- 2, MAX_PATH_BYTES <- 5, MAX_REQUEST_BYTES <- 20,
    MAX_VALUE <- 3, STAGE_CHUNK <- 2, FETCH_BODY_CHUNK <- 2, PROGRESS <- 3,
    Slots <- {0, 1}, QueueSlots <- 3, MaxAsked <- 4

\* The storage client of Flow: two commands, one restart of Storage.
Fs == INSTANCE FlowStorage WITH
    client <- fs_client, packages <- fs_packages, request <- fs_request,
    response <- fs_response, dead <- fs_dead, storage <- fs_storage, truth <- fs_truth,
    commands <- fs_commands, restarts <- fs_restarts,
    Works <- {"List", "Touch", "TouchWrite", "AbortProof"}, MaxChunks <- 2, Pages <- 3,
    ResultPages <- 2, IdMod <- 3, MaxCommands <- 2, MaxRestarts <- 1

\* The user service: two names, one session, one restart.
Us == INSTANCE UserService WITH
    catalog <- us_catalog, sessions <- us_sessions, generations <- us_generations,
    durable <- us_durable, held <- us_held, ready <- us_ready, life <- us_life,
    logins <- us_logins, changes <- us_changes, known <- us_known, unsure <- us_unsure,
    Names <- {"a", "b"}, Passwords <- {"p", "q"}, Owner <- "a", Initial <- "p",
    MAX_USERS <- 2, MAX_ROLES <- 2, MAX_SESSIONS <- 1, MAX_ROLE_GRANTS <- 3,
    MAX_CAPABILITIES_PER_SESSION <- 4, GenerationMod <- 4, MaxChanges <- 2,
    MaxLineages <- 7, MaxLogins <- 2, MaxRestarts <- 1

\* Login and logout through LockScreen, Shell, User, Flow and Atrium.
Lo == INSTANCE Login WITH
    lock <- lo_lock, shell <- lo_shell, atrium <- lo_atrium, flow <- lo_flow, user <- lo_user,
    queue <- lo_queue, restarts <- lo_restarts, abandoned <- lo_abandoned,
    dropped <- lo_dropped, ignored <- lo_ignored, crossed <- lo_crossed,
    MAX_LOGIN_RETRIES <- 2, Slots <- 1, MaxSubmits <- 3, MaxSessions <- 2,
    MaxRestarts <- 1, MAX_FIELD_BYTES <- 2, MAX_UI_TEXT_BYTES <- 3, MAX_RETRIES <- 1,
    ControlSlots <- 2, ResponseSlots <- 1, MAX_SURFACES <- 3, MaxRequests <- 7,
    MaxHooks <- 4, mode <- 0, field <- 0, controls <- 0, components <- 0, valid <- 0,
    submitting <- 0, retries <- 0, failure <- 0, auth <- 0, asked <- 0, visible <- 0,
    held <- 0, pending <- 0, sent <- 0, destroy <- 0, cached <- 0, draw <- 0, splash <- 0,
    serial <- 0, hooks <- 0, control <- 0, response <- 0, surfaces <- 0, made <- 0,
    orphans <- 0

\* The form of LockScreen.
Lf == INSTANCE Login WITH
    mode <- lf_mode, field <- lf_field, controls <- lf_controls, components <- lf_components,
    valid <- lf_valid, submitting <- lf_submitting, retries <- lf_retries,
    failure <- lf_failure, auth <- lf_auth, asked <- lf_asked, MAX_LOGIN_RETRIES <- 2,
    Slots <- 1, MaxSubmits <- 3, MaxSessions <- 2, MaxRestarts <- 1, MAX_FIELD_BYTES <- 2,
    MAX_UI_TEXT_BYTES <- 3, MAX_RETRIES <- 1, ControlSlots <- 2, ResponseSlots <- 1,
    MAX_SURFACES <- 3, MaxRequests <- 7, MaxHooks <- 4, lock <- 0, shell <- 0,
    atrium <- 0, flow <- 0, user <- 0, queue <- 0, restarts <- 0, abandoned <- 0,
    dropped <- 0, ignored <- 0, crossed <- 0, visible <- 0, held <- 0, pending <- 0,
    sent <- 0, destroy <- 0, cached <- 0, draw <- 0, splash <- 0, serial <- 0, hooks <- 0,
    control <- 0, response <- 0, surfaces <- 0, made <- 0, orphans <- 0

\* The surfaces of LockScreen at Display: three surfaces, queues of two and
\* one.
Ls == INSTANCE Login WITH
    visible <- ls_visible, held <- ls_held, pending <- ls_pending, sent <- ls_sent,
    destroy <- ls_destroy, cached <- ls_cached, draw <- ls_draw, splash <- ls_splash,
    serial <- ls_serial, hooks <- ls_hooks, control <- ls_control,
    response <- ls_response, surfaces <- ls_surfaces, made <- ls_made,
    orphans <- ls_orphans, MAX_LOGIN_RETRIES <- 2, Slots <- 1, MaxSubmits <- 3,
    MaxSessions <- 2, MaxRestarts <- 1, MAX_FIELD_BYTES <- 2, MAX_UI_TEXT_BYTES <- 3,
    MAX_RETRIES <- 1, ControlSlots <- 2, ResponseSlots <- 1, MAX_SURFACES <- 3,
    MaxRequests <- 7, MaxHooks <- 4, lock <- 0, shell <- 0, atrium <- 0, flow <- 0,
    user <- 0, queue <- 0, restarts <- 0, abandoned <- 0, dropped <- 0, ignored <- 0,
    crossed <- 0, mode <- 0, field <- 0, controls <- 0, components <- 0, valid <- 0,
    submitting <- 0, retries <- 0, failure <- 0, auth <- 0, asked <- 0

LeVars == <<le_ed, le_queued, le_inflight, le_commands, le_torn, le_typed>>
StVars == <<st_pc, st_slot, st_owner, st_orphaned, st_control, st_uses, st_keys, st_toFlow, st_fromFlow,
    st_flow, st_others>>
TpVars == <<tp_sessions, tp_panes, tp_current, tp_render_cursor, tp_last_sent, tp_pending_closes,
    tp_pending_input, tp_pending_render, tp_pc, tp_toAtrium, tp_known, tp_toRender, tp_grid,
    tp_toSession, tp_held, tp_output, tp_gone, tp_dropped, tp_foreign, tp_changes>>
FlVars == <<fl_tokens, fl_rt, fl_last, fl_loose, fl_taken, fl_runs>>
FpVars == <<fp_tokens, fp_rt, fp_last, fp_loose, fp_taken, fp_runs>>
FcVars == <<fc_pc, fc_inq, fc_outq, fc_active_session, fc_pending, fc_completion, fc_client, fc_fetch,
    fc_promise, fc_waiting, fc_asker, fc_n, fc_answer, fc_detached, fc_misplaced>>
FhVars == <<fh_world, fh_flow, fh_pc, fh_op, fh_toFetch, fh_toFlow, fh_toNet, fh_fromNet, fh_toStore,
    fh_fromStore, fh_net, fh_store, fh_left, fh_told, fh_lost>>
FsVars == <<fs_client, fs_packages, fs_request, fs_response, fs_dead, fs_storage, fs_truth, fs_commands,
    fs_restarts>>
UsVars == <<us_catalog, us_sessions, us_generations, us_durable, us_held, us_ready, us_life, us_logins,
    us_changes, us_known, us_unsure>>
LoVars == <<lo_lock, lo_shell, lo_atrium, lo_flow, lo_user, lo_queue, lo_restarts, lo_abandoned, lo_dropped,
    lo_ignored, lo_crossed>>
LfVars == <<lf_mode, lf_field, lf_controls, lf_components, lf_valid, lf_submitting, lf_retries, lf_failure,
    lf_auth, lf_asked>>
LsVars == <<ls_visible, ls_held, ls_pending, ls_sent, ls_destroy, ls_cached, ls_draw, ls_splash, ls_serial,
    ls_hooks, ls_control, ls_response, ls_surfaces, ls_made, ls_orphans>>
vars == <<part, LeVars, StVars, TpVars, FlVars, FpVars, FcVars, FhVars, FsVars, UsVars, LoVars, LfVars, LsVars>>

\* A component that does not run in the behaviour has no state.
LeAbsent == le_ed = 0 /\ le_queued = 0 /\ le_inflight = 0 /\ le_commands = 0 /\ le_torn = 0
            /\ le_typed = 0
StAbsent == st_pc = 0 /\ st_slot = 0 /\ st_owner = 0 /\ st_orphaned = 0 /\ st_control = 0
            /\ st_uses = 0 /\ st_keys = 0 /\ st_toFlow = 0 /\ st_fromFlow = 0
            /\ st_flow = 0 /\ st_others = 0
TpAbsent == tp_sessions = 0 /\ tp_panes = 0 /\ tp_current = 0 /\ tp_render_cursor = 0
            /\ tp_last_sent = 0 /\ tp_pending_closes = 0 /\ tp_pending_input = 0
            /\ tp_pending_render = 0 /\ tp_pc = 0 /\ tp_toAtrium = 0 /\ tp_known = 0
            /\ tp_toRender = 0 /\ tp_grid = 0 /\ tp_toSession = 0 /\ tp_held = 0
            /\ tp_output = 0 /\ tp_gone = 0 /\ tp_dropped = 0 /\ tp_foreign = 0
            /\ tp_changes = 0
FlAbsent == fl_tokens = 0 /\ fl_rt = 0 /\ fl_last = 0 /\ fl_loose = 0 /\ fl_taken = 0 /\ fl_runs = 0
FpAbsent == fp_tokens = 0 /\ fp_rt = 0 /\ fp_last = 0 /\ fp_loose = 0 /\ fp_taken = 0 /\ fp_runs = 0
FcAbsent == fc_pc = 0 /\ fc_inq = 0 /\ fc_outq = 0 /\ fc_active_session = 0 /\ fc_pending = 0
            /\ fc_completion = 0 /\ fc_client = 0 /\ fc_fetch = 0 /\ fc_promise = 0
            /\ fc_waiting = 0 /\ fc_asker = 0 /\ fc_n = 0 /\ fc_answer = 0
            /\ fc_detached = 0 /\ fc_misplaced = 0
FhAbsent == fh_world = 0 /\ fh_flow = 0 /\ fh_pc = 0 /\ fh_op = 0 /\ fh_toFetch = 0 /\ fh_toFlow = 0
            /\ fh_toNet = 0 /\ fh_fromNet = 0 /\ fh_toStore = 0 /\ fh_fromStore = 0
            /\ fh_net = 0 /\ fh_store = 0 /\ fh_left = 0 /\ fh_told = 0 /\ fh_lost = 0
FsAbsent == fs_client = 0 /\ fs_packages = 0 /\ fs_request = 0 /\ fs_response = 0 /\ fs_dead = 0
            /\ fs_storage = 0 /\ fs_truth = 0 /\ fs_commands = 0 /\ fs_restarts = 0
UsAbsent == us_catalog = 0 /\ us_sessions = 0 /\ us_generations = 0 /\ us_durable = 0 /\ us_held = 0
            /\ us_ready = 0 /\ us_life = 0 /\ us_logins = 0 /\ us_changes = 0
            /\ us_known = 0 /\ us_unsure = 0
LoAbsent == lo_lock = 0 /\ lo_shell = 0 /\ lo_atrium = 0 /\ lo_flow = 0 /\ lo_user = 0
            /\ lo_queue = 0 /\ lo_restarts = 0 /\ lo_abandoned = 0 /\ lo_dropped = 0
            /\ lo_ignored = 0 /\ lo_crossed = 0
LfAbsent == lf_mode = 0 /\ lf_field = 0 /\ lf_controls = 0 /\ lf_components = 0 /\ lf_valid = 0
            /\ lf_submitting = 0 /\ lf_retries = 0 /\ lf_failure = 0 /\ lf_auth = 0
            /\ lf_asked = 0
LsAbsent == ls_visible = 0 /\ ls_held = 0 /\ ls_pending = 0 /\ ls_sent = 0 /\ ls_destroy = 0
            /\ ls_cached = 0 /\ ls_draw = 0 /\ ls_splash = 0 /\ ls_serial = 0
            /\ ls_hooks = 0 /\ ls_control = 0 /\ ls_response = 0 /\ ls_surfaces = 0
            /\ ls_made = 0 /\ ls_orphans = 0

Init ==
  /\ part \in {"Le", "St", "Tp", "Fl", "Fp", "Fc", "Fh", "Fs", "Us", "Lo", "Lf", "Ls"}
  /\ IF part = "Le" THEN Le!EditInit ELSE LeAbsent
  /\ IF part = "St" THEN St!Init ELSE StAbsent
  /\ IF part = "Tp" THEN Tp!Init ELSE TpAbsent
  /\ IF part = "Fl" THEN Fl!Init ELSE FlAbsent
  /\ IF part = "Fp" THEN Fp!Init ELSE FpAbsent
  /\ IF part = "Fc" THEN Fc!Init ELSE FcAbsent
  /\ IF part = "Fh" THEN Fh!Init ELSE FhAbsent
  /\ IF part = "Fs" THEN Fs!Init ELSE FsAbsent
  /\ IF part = "Us" THEN Us!Init ELSE UsAbsent
  /\ IF part = "Lo" THEN Lo!Init ELSE LoAbsent
  /\ IF part = "Lf" THEN Lf!FormInit ELSE LfAbsent
  /\ IF part = "Ls" THEN Ls!SurfacesInit ELSE LsAbsent

LeNext == /\ part = "Le" /\ Le!EditNext
          /\ UNCHANGED <<part, StVars, TpVars, FlVars, FpVars, FcVars, FhVars, FsVars, UsVars, LoVars, LfVars, LsVars>>
StNext == /\ part = "St" /\ St!Next
          /\ UNCHANGED <<part, LeVars, TpVars, FlVars, FpVars, FcVars, FhVars, FsVars, UsVars, LoVars, LfVars, LsVars>>
TpNext == /\ part = "Tp" /\ Tp!Next
          /\ UNCHANGED <<part, LeVars, StVars, FlVars, FpVars, FcVars, FhVars, FsVars, UsVars, LoVars, LfVars, LsVars>>
FlNext == /\ part = "Fl" /\ Fl!Next
          /\ UNCHANGED <<part, LeVars, StVars, TpVars, FpVars, FcVars, FhVars, FsVars, UsVars, LoVars, LfVars, LsVars>>
FpNext == /\ part = "Fp" /\ Fp!Next
          /\ UNCHANGED <<part, LeVars, StVars, TpVars, FlVars, FcVars, FhVars, FsVars, UsVars, LoVars, LfVars, LsVars>>
FcNext == /\ part = "Fc" /\ Fc!Next
          /\ UNCHANGED <<part, LeVars, StVars, TpVars, FlVars, FpVars, FhVars, FsVars, UsVars, LoVars, LfVars, LsVars>>
FhNext == /\ part = "Fh" /\ Fh!Next
          /\ UNCHANGED <<part, LeVars, StVars, TpVars, FlVars, FpVars, FcVars, FsVars, UsVars, LoVars, LfVars, LsVars>>
FsNext == /\ part = "Fs" /\ Fs!Next
          /\ UNCHANGED <<part, LeVars, StVars, TpVars, FlVars, FpVars, FcVars, FhVars, UsVars, LoVars, LfVars, LsVars>>
UsNext == /\ part = "Us" /\ Us!Next
          /\ UNCHANGED <<part, LeVars, StVars, TpVars, FlVars, FpVars, FcVars, FhVars, FsVars, LoVars, LfVars, LsVars>>
LoNext == /\ part = "Lo" /\ Lo!Next
          /\ UNCHANGED <<part, LeVars, StVars, TpVars, FlVars, FpVars, FcVars, FhVars, FsVars, UsVars, LfVars, LsVars>>
LfNext == /\ part = "Lf" /\ Lf!FormNext
          /\ UNCHANGED <<part, LeVars, StVars, TpVars, FlVars, FpVars, FcVars, FhVars, FsVars, UsVars, LoVars, LsVars>>
LsNext == /\ part = "Ls" /\ Ls!SurfacesNext
          /\ UNCHANGED <<part, LeVars, StVars, TpVars, FlVars, FpVars, FcVars, FhVars, FsVars, UsVars, LoVars, LfVars>>

Next ==
  \/ LeNext
  \/ StNext
  \/ TpNext
  \/ FlNext
  \/ FpNext
  \/ FcNext
  \/ FhNext
  \/ FsNext
  \/ UsNext
  \/ LoNext
  \/ LfNext
  \/ LsNext

Spec ==
  /\ Init /\ [][Next]_vars

\* What two services keep about the same thing agrees: a pane owns its tab, a
\* session has one exchange, a storage command leaves nothing open, a fetch
\* releases what it held of Network and Storage, a snapshot reopens to the
\* users it was taken of, and Flow, Atrium and LockScreen follow the context of
\* Shell.
StateAgrees ==
  /\ part = "Le" => Le!EditTypeOK /\ Le!EditorSound /\ Le!HistoryIsCommands
  /\ part = "St" => St!TypeOK /\ St!OneExchange
  /\ part = "Tp" => Tp!TypeOK /\ Tp!PanesOwnTheirTabs
  /\ part = "Fl" => Fl!TypeOK /\ Fl!PromisesKeepTheirSlot
  /\ part = "Fp" => Fp!TypeOK
  /\ part = "Fc" => Fc!TypeOK
  /\ part = "Fh" => Fh!TypeOK /\ Fh!ParserExact /\ Fh!Released /\ Fh!FetchAccounted
  /\ part = "Fs" => Fs!TypeOK /\ Fs!NothingLeftOpen
  /\ part = "Us" => Us!TypeOK /\ Us!SnapshotReopens /\ Us!HandlesNeverRevive
                    /\ Us!CapabilitiesAttenuate
  /\ part = "Lo" => Lo!TypeOK /\ Lo!FlowFollowsShell /\ Lo!EveryoneAgrees
                    /\ Lo!SessionsAccounted
  /\ part = "Lf" => Lf!FormTypeOK /\ Lf!FieldsAgree
  /\ part = "Ls" => Ls!SurfacesTypeOK /\ Ls!SurfacesKnown

=============================================================================
