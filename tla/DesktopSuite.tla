---------------------------- MODULE DesktopSuite ----------------------------
\* The desktop, its input devices and the network, one component per behaviour:
\* the initial state picks a component and only that one takes steps, so one
\* run covers each of them on its own small instance.
EXTENDS Integers, Sequences, FiniteSets

(***************************************************************************)
(* Draw commands of a few pixels, in every combination of size, radius,    *)
(* stroke and blur that the graphics ABI accepts.                          *)
(***************************************************************************)
Shape(kind, w, h, radius, stroke, blur, d) ==
    [kind |-> kind, x |-> 1, y |-> 1, w |-> w, h |-> h, radius |-> radius, stroke |-> stroke,
     blur |-> blur, dx |-> d, dy |-> 0 - d, length |-> 0, scale |-> 1,
     t |-> [x |-> 0, y |-> 0, scale |-> 256, rotation |-> 0]]

Draws ==
    {Shape("FillRect", 2, 3, 0, 0, 0, 0), Shape("StrokeRect", 5, 4, 0, 1, 0, 0),
     Shape("Line", 4, 2, 0, 2, 0, 0), Shape("Line", 0, 4, 0, 1, 0, 0)}
    \cup {Shape("FillRoundedRect", w, h, r, 0, 0, 0) : w \in 4..7, h \in 4..5, r \in 0..2}
    \cup {Shape("StrokeRoundedRect", w, 6, r, s, 0, 0) : w \in 4..6, r \in 0..2, s \in 1..3}
    \cup {Shape("Shadow", w, 4, r, 0, b, d) : w \in 4..5, r \in 0..2, b \in 0..2, d \in 0..1}
    \cup {[Shape("GlyphRun", 0, 0, 0, 0, 0, 0) EXCEPT !.length = 2, !.scale = s] : s \in 1..2}
    \cup {[Shape("StrokeRect", 4, 3, 0, 1, 0, 0) EXCEPT !.x = 3, !.y = 2, !.t.scale = s,
           !.t.rotation = 15 * n, !.t.x = x] : s \in {192, 256, 300}, n \in 0..23, x \in 0..1}

Tiles == {[x |-> 0, y |-> 0, w |-> 10, h |-> 9], [x |-> 0, y |-> 0, w |-> 4, h |-> 9],
          [x |-> 4, y |-> 2, w |-> 3, h |-> 3]}

(***************************************************************************)
(* A screen of three pixels, a fill, a tint, a clip and a text grid that   *)
(* overlap.                                                                *)
(***************************************************************************)
Span(x, w) == [x |-> x, y |-> 0, w |-> w, h |-> 1]

NodeCommands ==
    <<{[kind |-> "FillRect", rect |-> Span(0, 2), name |-> "a"],
       [kind |-> "TextGrid", rect |-> Span(1, 2), name |-> "g"]},
      {[kind |-> "Tint", rect |-> Span(1, 2), name |-> "t"],
       [kind |-> "ClipRect", rect |-> Span(1, 1), name |-> "c"],
       [kind |-> "TextGrid", rect |-> Span(1, 2), name |-> "g"]}>>

\* What keyboard and mouse send: every code of three bytes over a small alphabet,
\* a shifted key, keys while a reader is gone, packets of three and four bytes.
Typed(k, m, p, w, d, r, c) ==
    [keyboard |-> k, mouse |-> m, smp |-> p, acks |-> 7, id |-> IF w THEN 3 ELSE 0, dead |-> d,
     restarts |-> r, changes |-> c]
InputScenarios ==
  {Typed(k, <<>>, FALSE, FALSE, {}, 0, 0) : k \in [1..3 -> {224, 240, 225, 18, 20}]}
  \cup {Typed(<<18, 30, 240, 18, 30>>, <<>>, p, FALSE, {}, 0, 1) : p \in BOOLEAN}
  \cup {Typed(<<88, 30, 119>>, <<>>, TRUE, FALSE, d, 1, 0) : d \in {{}, {"shell"}, {"atrium"}}}
  \cup {Typed(<<>>, m, FALSE, FALSE, {}, 0, 1) :
          m \in {<<9, 3, 0, 8, 130, 1, 10, 2, 255>>, <<0, 8, 1, 1, 200, 1, 1>>}}
  \cup {Typed(<<>>, <<8, 100, 100, 0, 8, 2, 255, 15>>, TRUE, TRUE, {}, 0, 0),
        Typed(<<28>>, <<12, 0, 0, 10, 0, 0>>, TRUE, FALSE, {}, 0, 0),
        Typed(<<28>>, <<9, 0, 0>>, FALSE, FALSE, {"shell"}, 1, 0)}

\* Boot profiles: a whole one, one that disables the network, an empty one, one
\* with a line twice, one without a gateway.
Profile == <<<<"profile", "static_then_dhcp">>, <<"address", <<"lan", 2>>>>, <<"netmask", "contiguous">>,
             <<"gateway", <<"lan", 1>>>>>>
BootProfiles == {Profile, <<<<"profile", "disabled">>>>, <<>>, Profile \o <<Profile[2]>>, SubSeq(Profile, 1, 3)}

VARIABLES part,   \* the component that runs in this behaviour
          ra_cmd, ra_clip, ra_row, ra_ink,
          gs_slots, gs_gens, gs_damage, gs_focused, gs_order, gs_plan, gs_grids, gs_screen, gs_lost,
          gs_recast, gs_calls,
          co_want, co_background, co_damage, co_gui_background, co_gui_damage, co_tile, co_priority,
          co_layers, co_hardware_cursor, co_back, co_fb, co_presented, co_seen, co_lost,
          co_strayed, co_edits, co_moves,
          dp_pc, dp_queue, dp_signaled, dp_mask, dp_progressed, dp_cursor_dirty, dp_cursor_activity,
          dp_coordinator, dp_damage, dp_slices, dp_priority, dp_presented, dp_hw, dp_wanted,
          dp_pointer, dp_published, dp_fps, dp_dark, dp_sends, dp_toggles, dp_replaced,
          al_surfaces, al_nodes, al_root, al_focused, al_flags, al_nextSplit, al_capture, al_pending,
          al_panicked, al_changes,
          ao_at, ao_io, ao_answers, ao_shown, ao_fresh, ao_requests, ao_inbox, ao_client, ao_context,
          ao_pc, ao_changes, ao_forgotten, ao_crossed, ao_untold, ao_overtaken,
          ah_home, ah_menu, ah_popover, ah_hover, ah_grid, ah_open, ah_launching, ah_dropped,
          at_page, at_search, at_searching, at_keyboard, at_mouse, at_record, at_push, at_load, at_save,
          at_last, at_changed, at_commands, at_toDisplay, at_overlay, at_toInput, at_driver,
          at_toUser, at_fromUser, at_stored, at_durable, at_failed, at_swallowed, at_changes,
          ip_smp, ip_wheel, ip_stream, ip_irq, ip_enabled, ip_attached, ip_core, ip_left, ip_ring,
          ip_accepted, ip_taken, ip_events, ip_asleep, ip_keys, ip_mouse, ip_pending, ip_mask,
          ip_turn, ip_pointer, ip_settings, ip_dead, ip_queued, ip_got, ip_gotPointer,
          ip_decoded, ip_moved,
          nw_config, nw_svc, nw_net, nw_link, nw_wire, nw_pc, nw_tick, nw_echoed, nw_pending, nw_out,
          nw_asks, nw_replies, nw_flow, nw_asked, nw_taken, nw_answered, nw_displaced,
          nw_cancelled, nw_held, nw_lost, nw_misused, nw_premature, nw_arrived, nw_early,
          nw_ended

\* The rasteriser, over draw commands of a few pixels.
Ra == INSTANCE Raster WITH
    cmd <- ra_cmd, clip <- ra_clip, row <- ra_row, ink <- ra_ink, Commands <- Draws,
    Clips <- Tiles, Screen <- [x |-> 0, y |-> 0, w |-> 10, h |-> 9], GLYPH_WIDTH <- 2,
    GLYPH_HEIGHT <- 3, GlyphInk <- {<<0, 0>>, <<1, 1>>, <<0, 2>>, <<1, 2>>}

\* The retained scene: three pixels, two nodes, one text grid.
Gs == INSTANCE GuiScene WITH
    slots <- gs_slots, gens <- gs_gens, damage <- gs_damage, focused <- gs_focused,
    order <- gs_order, plan <- gs_plan, grids <- gs_grids, screen <- gs_screen,
    lost <- gs_lost, recast <- gs_recast, calls <- gs_calls, Slots <- 0..2, Grids <- {1},
    MAX_GUI_DAMAGE_RECTS <- 2, MAX_GUI_NODES <- 2, Screen <- Span(0, 3),
    Commands <- NodeCommands, Bounds <- {Span(0, 3), Span(1, 2)}, MaxGeneration <- 2,
    MaxFrame <- 3, MaxCalls <- 4

\* The compositor: six tiles, two damage rectangles, a cursor.
Co == INSTANCE Compositor WITH
    want <- co_want, background <- co_background, damage <- co_damage,
    gui_background <- co_gui_background, gui_damage <- co_gui_damage, tile <- co_tile,
    priority <- co_priority, layers <- co_layers, hardware_cursor <- co_hardware_cursor,
    back <- co_back, fb <- co_fb, presented <- co_presented, seen <- co_seen,
    lost <- co_lost, strayed <- co_strayed, edits <- co_edits, moves <- co_moves,
    Screen <- [x |-> 0, y |-> 0, w |-> 3, h |-> 2], GUI_TILE_SIZE <- 1, TilesPerStep <- 2,
    MAX_GUI_DAMAGE_RECTS <- 2, MAX_DISPLAY_PRESENT_RECTS <- 1, Layers <- {1, 2},
    Centre <- <<1, 0>>, EditAt <- {<<0, 0>>, <<1, 0>>, <<2, 1>>},
    MoveTo <- {<<0, 1>>, <<2, 0>>}, MaxEdits <- 3, MaxMoves <- 2

\* The loop of the display service.
Dp == INSTANCE DisplayLoop WITH
    pc <- dp_pc, queue <- dp_queue, signaled <- dp_signaled, mask <- dp_mask,
    progressed <- dp_progressed, cursor_dirty <- dp_cursor_dirty,
    cursor_activity <- dp_cursor_activity, coordinator <- dp_coordinator,
    damage <- dp_damage, slices <- dp_slices, priority <- dp_priority,
    presented <- dp_presented, hw <- dp_hw, wanted <- dp_wanted, pointer <- dp_pointer,
    published <- dp_published, fps <- dp_fps, dark <- dp_dark, sends <- dp_sends,
    toggles <- dp_toggles, replaced <- dp_replaced, Capacity <- 2, Slices <- 2,
    MaxSends <- 2, MaxToggles <- 1, MaxReplaced <- 1

\* The window layout: three surfaces on a small desktop.
Al == INSTANCE AtriumLayout WITH
    surfaces <- al_surfaces, nodes <- al_nodes, root <- al_root, focused <- al_focused,
    flags <- al_flags, nextSplit <- al_nextSplit, capture <- al_capture,
    pending <- al_pending, panicked <- al_panicked, changes <- al_changes,
    MAX_ATRIUM_SURFACES <- 3, Desktop <- [x |-> 1, y |-> 0, w |-> 12, h |-> 8],
    MIN_PANE_WIDTH <- 4, MIN_PANE_HEIGHT <- 2, Deltas <- {-3, 2}, MaxChanges <- 4

\* The event loop of Atrium: two surfaces, a terminal and a program.
Ao == INSTANCE AtriumLoop WITH
    at <- ao_at, io <- ao_io, answers <- ao_answers, shown <- ao_shown, fresh <- ao_fresh,
    requests <- ao_requests, inbox <- ao_inbox, client <- ao_client,
    context <- ao_context, pc <- ao_pc, changes <- ao_changes, forgotten <- ao_forgotten,
    crossed <- ao_crossed, untold <- ao_untold, overtaken <- ao_overtaken,
    MAX_ATRIUM_SURFACES <- 2, MAX_PENDING_SURFACE_COMMANDS <- 4, Ids <- 1..3, Slots <- 1,
    MaxChanges <- 2, Active <- {"Terminal", "Prog"}

\* Home: command menu, popovers and tiles.
Ah == INSTANCE AtriumShell WITH
    home <- ah_home, menu <- ah_menu, popover <- ah_popover, hover <- ah_hover,
    grid <- ah_grid, open <- ah_open, launching <- ah_launching, dropped <- ah_dropped,
    Labels <- <<<<1, 2>>, <<2, 1>>, <<1>>, <<2>>>>, Texts <- {<<1>>, <<2>>, <<1, 2>>},
    MAX_UI_TEXT_BYTES <- 2, MAX_ATRIUM_SURFACES <- 1,
    Mods <- {{}, {"Ctrl"}, {"Alt"}, {"Ctrl", "Alt"}, {"Ctrl", "Shift"}},
    PageLabels <- <<<<1>>, <<2>>, <<1, 2>>, <<2>>>>, Letters <- {1}, Speeds <- 2,
    Capacity <- 1, MAX_PENDING_SURFACE_COMMANDS <- 2, MaxChanges <- 1, page <- 0,
    search <- 0, searching <- 0, keyboard <- 0, mouse <- 0, record <- 0, push <- 0,
    load <- 0, save <- 0, last <- 0, changed <- 0, commands <- 0, toDisplay <- 0,
    overlay <- 0, toInput <- 0, driver <- 0, toUser <- 0, fromUser <- 0, stored <- 0,
    durable <- 0, failed <- 0, swallowed <- 0, changes <- 0

\* The settings surface and its mirrors.
At == INSTANCE AtriumShell WITH
    page <- at_page, search <- at_search, searching <- at_searching, keyboard <- at_keyboard,
    mouse <- at_mouse, record <- at_record, push <- at_push, load <- at_load,
    save <- at_save, last <- at_last, changed <- at_changed, commands <- at_commands,
    toDisplay <- at_toDisplay, overlay <- at_overlay, toInput <- at_toInput,
    driver <- at_driver, toUser <- at_toUser, fromUser <- at_fromUser,
    stored <- at_stored, durable <- at_durable, failed <- at_failed,
    swallowed <- at_swallowed, changes <- at_changes,
    Labels <- <<<<1, 2>>, <<2, 1>>, <<1>>, <<2>>>>, Texts <- {<<1>>, <<2>>, <<1, 2>>},
    MAX_UI_TEXT_BYTES <- 2, MAX_ATRIUM_SURFACES <- 1,
    Mods <- {{}, {"Ctrl"}, {"Alt"}, {"Ctrl", "Alt"}, {"Ctrl", "Shift"}},
    PageLabels <- <<<<1>>, <<2>>, <<1, 2>>, <<2>>>>, Letters <- {1}, Speeds <- 2,
    Capacity <- 1, MAX_PENDING_SURFACE_COMMANDS <- 2, MaxChanges <- 1, home <- 0,
    menu <- 0, popover <- 0, hover <- 0, grid <- 0, open <- 0, launching <- 0,
    dropped <- 0

\* Keyboard and mouse, from their interrupts to the readers of their events.
Ip == INSTANCE InputPath WITH
    smp <- ip_smp, wheel <- ip_wheel, stream <- ip_stream, irq <- ip_irq,
    enabled <- ip_enabled, attached <- ip_attached, core <- ip_core, left <- ip_left,
    ring <- ip_ring, accepted <- ip_accepted, taken <- ip_taken, events <- ip_events,
    asleep <- ip_asleep, keys <- ip_keys, mouse <- ip_mouse, pending <- ip_pending,
    mask <- ip_mask, turn <- ip_turn, pointer <- ip_pointer, settings <- ip_settings,
    dead <- ip_dead, queued <- ip_queued, got <- ip_got, gotPointer <- ip_gotPointer,
    decoded <- ip_decoded, moved <- ip_moved, Scenarios <- InputScenarios, CAPACITY <- 2,
    WORD <- 4, QueueSlots <- 1, SCREEN <- <<100, 60>>

\* The Network service while it configures itself: every profile, link and
\* frame, one request of each client.
Nc == INSTANCE Networking WITH
    config <- nw_config, svc <- nw_svc, net <- nw_net, link <- nw_link, wire <- nw_wire,
    pc <- nw_pc, tick <- nw_tick, echoed <- nw_echoed, pending <- nw_pending,
    out <- nw_out, asks <- nw_asks, replies <- nw_replies, flow <- nw_flow,
    asked <- nw_asked, taken <- nw_taken, answered <- nw_answered,
    displaced <- nw_displaced, cancelled <- nw_cancelled, held <- nw_held,
    lost <- nw_lost, misused <- nw_misused, premature <- nw_premature,
    arrived <- nw_arrived, early <- nw_early, ended <- nw_ended, SocketSlots <- 2,
    ListenerSlots <- 1, GenMod <- 16, RX <- 1, TX <- 1, QueueSlots <- 1,
    DhcpDeadline <- 1, POLLS <- 2, Profiles <- BootProfiles,
    Ops <- [Flow |-> {"IcmpPing", "TcpConnect"}, Fetch |-> {"TcpConnect", "TcpRead", "Close", "Cancel"}],
    GatewayDeadline <- 2, Timeouts <- {1}, Eager <- TRUE,
    Links <- {"up", "absent", "broken"},
    Frames <- {"echo", "lease", "syn", "synack", "reset"}, MaxTicks <- 3, MaxAsked <- 1,
    MaxFrames <- 1

\* The Network service once it is ready: the pings of one client and the
\* connects of the other.
Nr == INSTANCE Networking WITH
    config <- nw_config, svc <- nw_svc, net <- nw_net, link <- nw_link, wire <- nw_wire,
    pc <- nw_pc, tick <- nw_tick, echoed <- nw_echoed, pending <- nw_pending,
    out <- nw_out, asks <- nw_asks, replies <- nw_replies, flow <- nw_flow,
    asked <- nw_asked, taken <- nw_taken, answered <- nw_answered,
    displaced <- nw_displaced, cancelled <- nw_cancelled, held <- nw_held,
    lost <- nw_lost, misused <- nw_misused, premature <- nw_premature,
    arrived <- nw_arrived, early <- nw_early, ended <- nw_ended, SocketSlots <- 2,
    ListenerSlots <- 1, GenMod <- 16, RX <- 1, TX <- 1, QueueSlots <- 1,
    DhcpDeadline <- 1, POLLS <- 2, Profiles <- {Profile},
    Ops <- [Flow |-> {"IcmpPing"}, Fetch |-> {"TcpConnect"}], GatewayDeadline <- 3,
    Timeouts <- {2}, Eager <- FALSE, Links <- {"up"}, Frames <- {"echo", "synack"},
    MaxTicks <- 5, MaxAsked <- 2, MaxFrames <- 2

\* The sockets of one client: connects, cancels and closes.
Nk == INSTANCE Networking WITH
    config <- nw_config, svc <- nw_svc, net <- nw_net, link <- nw_link, wire <- nw_wire,
    pc <- nw_pc, tick <- nw_tick, echoed <- nw_echoed, pending <- nw_pending,
    out <- nw_out, asks <- nw_asks, replies <- nw_replies, flow <- nw_flow,
    asked <- nw_asked, taken <- nw_taken, answered <- nw_answered,
    displaced <- nw_displaced, cancelled <- nw_cancelled, held <- nw_held,
    lost <- nw_lost, misused <- nw_misused, premature <- nw_premature,
    arrived <- nw_arrived, early <- nw_early, ended <- nw_ended, SocketSlots <- 2,
    ListenerSlots <- 1, GenMod <- 16, RX <- 1, TX <- 1, QueueSlots <- 1,
    DhcpDeadline <- 1, POLLS <- 2, Profiles <- {Profile},
    Ops <- [Flow |-> {}, Fetch |-> {"TcpConnect", "Cancel", "Close"}],
    GatewayDeadline <- 3, Timeouts <- {2}, Eager <- FALSE, Links <- {"up"},
    Frames <- {"echo", "synack"}, MaxTicks <- 5, MaxAsked <- 2, MaxFrames <- 2

\* The sockets of the Network service: binds, listens, accepts and closes.
Ns == INSTANCE Networking WITH
    config <- nw_config, svc <- nw_svc, net <- nw_net, link <- nw_link, wire <- nw_wire,
    pc <- nw_pc, tick <- nw_tick, echoed <- nw_echoed, pending <- nw_pending,
    out <- nw_out, asks <- nw_asks, replies <- nw_replies, flow <- nw_flow,
    asked <- nw_asked, taken <- nw_taken, answered <- nw_answered,
    displaced <- nw_displaced, cancelled <- nw_cancelled, held <- nw_held,
    lost <- nw_lost, misused <- nw_misused, premature <- nw_premature,
    arrived <- nw_arrived, early <- nw_early, ended <- nw_ended, SocketSlots <- 2,
    ListenerSlots <- 1, GenMod <- 16, RX <- 1, TX <- 1, QueueSlots <- 1,
    DhcpDeadline <- 1, POLLS <- 2, Profiles <- {Profile},
    Ops <- [Flow |-> {}, Fetch |-> {"UdpBind", "UdpSend", "TcpListen", "TcpAccept", "TcpConnect", "Close"}],
    GatewayDeadline <- 3, Timeouts <- {1}, Eager <- FALSE, Links <- {"up"},
    Frames <- {"echo", "syn"}, MaxTicks <- 4, MaxAsked <- 3, MaxFrames <- 2

RaVars == <<ra_cmd, ra_clip, ra_row, ra_ink>>
GsVars == <<gs_slots, gs_gens, gs_damage, gs_focused, gs_order, gs_plan, gs_grids, gs_screen, gs_lost,
    gs_recast, gs_calls>>
CoVars == <<co_want, co_background, co_damage, co_gui_background, co_gui_damage, co_tile, co_priority,
    co_layers, co_hardware_cursor, co_back, co_fb, co_presented, co_seen, co_lost, co_strayed,
    co_edits, co_moves>>
DpVars == <<dp_pc, dp_queue, dp_signaled, dp_mask, dp_progressed, dp_cursor_dirty, dp_cursor_activity,
    dp_coordinator, dp_damage, dp_slices, dp_priority, dp_presented, dp_hw, dp_wanted,
    dp_pointer, dp_published, dp_fps, dp_dark, dp_sends, dp_toggles, dp_replaced>>
AlVars == <<al_surfaces, al_nodes, al_root, al_focused, al_flags, al_nextSplit, al_capture, al_pending,
    al_panicked, al_changes>>
AoVars == <<ao_at, ao_io, ao_answers, ao_shown, ao_fresh, ao_requests, ao_inbox, ao_client, ao_context,
    ao_pc, ao_changes, ao_forgotten, ao_crossed, ao_untold, ao_overtaken>>
AhVars == <<ah_home, ah_menu, ah_popover, ah_hover, ah_grid, ah_open, ah_launching, ah_dropped>>
AtVars == <<at_page, at_search, at_searching, at_keyboard, at_mouse, at_record, at_push, at_load, at_save,
    at_last, at_changed, at_commands, at_toDisplay, at_overlay, at_toInput, at_driver,
    at_toUser, at_fromUser, at_stored, at_durable, at_failed, at_swallowed, at_changes>>
IpVars == <<ip_smp, ip_wheel, ip_stream, ip_irq, ip_enabled, ip_attached, ip_core, ip_left, ip_ring,
    ip_accepted, ip_taken, ip_events, ip_asleep, ip_keys, ip_mouse, ip_pending, ip_mask,
    ip_turn, ip_pointer, ip_settings, ip_dead, ip_queued, ip_got, ip_gotPointer, ip_decoded,
    ip_moved>>
NwVars == <<nw_config, nw_svc, nw_net, nw_link, nw_wire, nw_pc, nw_tick, nw_echoed, nw_pending, nw_out,
    nw_asks, nw_replies, nw_flow, nw_asked, nw_taken, nw_answered, nw_displaced, nw_cancelled,
    nw_held, nw_lost, nw_misused, nw_premature, nw_arrived, nw_early, nw_ended>>
vars == <<part, RaVars, GsVars, CoVars, DpVars, AlVars, AoVars, AhVars, AtVars, IpVars, NwVars>>

\* A component that does not run in the behaviour has no state.
RaAbsent == ra_cmd = 0 /\ ra_clip = 0 /\ ra_row = 0 /\ ra_ink = 0
GsAbsent == gs_slots = 0 /\ gs_gens = 0 /\ gs_damage = 0 /\ gs_focused = 0 /\ gs_order = 0
            /\ gs_plan = 0 /\ gs_grids = 0 /\ gs_screen = 0 /\ gs_lost = 0
            /\ gs_recast = 0 /\ gs_calls = 0
CoAbsent == co_want = 0 /\ co_background = 0 /\ co_damage = 0 /\ co_gui_background = 0
            /\ co_gui_damage = 0 /\ co_tile = 0 /\ co_priority = 0 /\ co_layers = 0
            /\ co_hardware_cursor = 0 /\ co_back = 0 /\ co_fb = 0 /\ co_presented = 0
            /\ co_seen = 0 /\ co_lost = 0 /\ co_strayed = 0 /\ co_edits = 0
            /\ co_moves = 0
DpAbsent == dp_pc = 0 /\ dp_queue = 0 /\ dp_signaled = 0 /\ dp_mask = 0 /\ dp_progressed = 0
            /\ dp_cursor_dirty = 0 /\ dp_cursor_activity = 0 /\ dp_coordinator = 0
            /\ dp_damage = 0 /\ dp_slices = 0 /\ dp_priority = 0 /\ dp_presented = 0
            /\ dp_hw = 0 /\ dp_wanted = 0 /\ dp_pointer = 0 /\ dp_published = 0
            /\ dp_fps = 0 /\ dp_dark = 0 /\ dp_sends = 0 /\ dp_toggles = 0
            /\ dp_replaced = 0
AlAbsent == al_surfaces = 0 /\ al_nodes = 0 /\ al_root = 0 /\ al_focused = 0 /\ al_flags = 0
            /\ al_nextSplit = 0 /\ al_capture = 0 /\ al_pending = 0 /\ al_panicked = 0
            /\ al_changes = 0
AoAbsent == ao_at = 0 /\ ao_io = 0 /\ ao_answers = 0 /\ ao_shown = 0 /\ ao_fresh = 0
            /\ ao_requests = 0 /\ ao_inbox = 0 /\ ao_client = 0 /\ ao_context = 0
            /\ ao_pc = 0 /\ ao_changes = 0 /\ ao_forgotten = 0 /\ ao_crossed = 0
            /\ ao_untold = 0 /\ ao_overtaken = 0
AhAbsent == ah_home = 0 /\ ah_menu = 0 /\ ah_popover = 0 /\ ah_hover = 0 /\ ah_grid = 0
            /\ ah_open = 0 /\ ah_launching = 0 /\ ah_dropped = 0
AtAbsent == at_page = 0 /\ at_search = 0 /\ at_searching = 0 /\ at_keyboard = 0 /\ at_mouse = 0
            /\ at_record = 0 /\ at_push = 0 /\ at_load = 0 /\ at_save = 0 /\ at_last = 0
            /\ at_changed = 0 /\ at_commands = 0 /\ at_toDisplay = 0 /\ at_overlay = 0
            /\ at_toInput = 0 /\ at_driver = 0 /\ at_toUser = 0 /\ at_fromUser = 0
            /\ at_stored = 0 /\ at_durable = 0 /\ at_failed = 0 /\ at_swallowed = 0
            /\ at_changes = 0
IpAbsent == ip_smp = 0 /\ ip_wheel = 0 /\ ip_stream = 0 /\ ip_irq = 0 /\ ip_enabled = 0
            /\ ip_attached = 0 /\ ip_core = 0 /\ ip_left = 0 /\ ip_ring = 0
            /\ ip_accepted = 0 /\ ip_taken = 0 /\ ip_events = 0 /\ ip_asleep = 0
            /\ ip_keys = 0 /\ ip_mouse = 0 /\ ip_pending = 0 /\ ip_mask = 0
            /\ ip_turn = 0 /\ ip_pointer = 0 /\ ip_settings = 0 /\ ip_dead = 0
            /\ ip_queued = 0 /\ ip_got = 0 /\ ip_gotPointer = 0 /\ ip_decoded = 0
            /\ ip_moved = 0
NwAbsent == nw_config = 0 /\ nw_svc = 0 /\ nw_net = 0 /\ nw_link = 0 /\ nw_wire = 0 /\ nw_pc = 0
            /\ nw_tick = 0 /\ nw_echoed = 0 /\ nw_pending = 0 /\ nw_out = 0
            /\ nw_asks = 0 /\ nw_replies = 0 /\ nw_flow = 0 /\ nw_asked = 0
            /\ nw_taken = 0 /\ nw_answered = 0 /\ nw_displaced = 0 /\ nw_cancelled = 0
            /\ nw_held = 0 /\ nw_lost = 0 /\ nw_misused = 0 /\ nw_premature = 0
            /\ nw_arrived = 0 /\ nw_early = 0 /\ nw_ended = 0

Init ==
  /\ part \in {"Ra", "Gs", "Co", "Dp", "Al", "Ao", "Ah", "At", "Ip", "Nc", "Nr", "Nk", "Ns"}
  /\ IF part = "Ra" THEN Ra!Init ELSE RaAbsent
  /\ IF part = "Gs" THEN Gs!Init ELSE GsAbsent
  /\ IF part = "Co" THEN Co!Init ELSE CoAbsent
  /\ IF part = "Dp" THEN Dp!Init ELSE DpAbsent
  /\ IF part = "Al" THEN Al!Init ELSE AlAbsent
  /\ IF part = "Ao" THEN Ao!Init ELSE AoAbsent
  /\ IF part = "Ah" THEN Ah!Init ELSE AhAbsent
  /\ IF part = "At" THEN At!SettingsInit ELSE AtAbsent
  /\ IF part = "Ip" THEN Ip!Init ELSE IpAbsent
  /\ CASE part = "Nc" -> Nc!Init
       [] part = "Nr" -> Nr!Init
       [] part = "Nk" -> Nk!Init
       [] part = "Ns" -> Ns!Init
       [] OTHER -> NwAbsent

RaNext == /\ part = "Ra" /\ Ra!Next
          /\ UNCHANGED <<part, GsVars, CoVars, DpVars, AlVars, AoVars, AhVars, AtVars, IpVars, NwVars>>
GsNext == /\ part = "Gs" /\ Gs!Next
          /\ UNCHANGED <<part, RaVars, CoVars, DpVars, AlVars, AoVars, AhVars, AtVars, IpVars, NwVars>>
CoNext == /\ part = "Co" /\ Co!Next
          /\ UNCHANGED <<part, RaVars, GsVars, DpVars, AlVars, AoVars, AhVars, AtVars, IpVars, NwVars>>
DpNext == /\ part = "Dp" /\ Dp!Next
          /\ UNCHANGED <<part, RaVars, GsVars, CoVars, AlVars, AoVars, AhVars, AtVars, IpVars, NwVars>>
AlNext == /\ part = "Al" /\ Al!Next
          /\ UNCHANGED <<part, RaVars, GsVars, CoVars, DpVars, AoVars, AhVars, AtVars, IpVars, NwVars>>
AoNext == /\ part = "Ao" /\ Ao!Next
          /\ UNCHANGED <<part, RaVars, GsVars, CoVars, DpVars, AlVars, AhVars, AtVars, IpVars, NwVars>>
AhNext == /\ part = "Ah" /\ Ah!Next
          /\ UNCHANGED <<part, RaVars, GsVars, CoVars, DpVars, AlVars, AoVars, AtVars, IpVars, NwVars>>
AtNext == /\ part = "At" /\ At!SettingsNext
          /\ UNCHANGED <<part, RaVars, GsVars, CoVars, DpVars, AlVars, AoVars, AhVars, IpVars, NwVars>>
IpNext == /\ part = "Ip" /\ Ip!Next
          /\ UNCHANGED <<part, RaVars, GsVars, CoVars, DpVars, AlVars, AoVars, AhVars, AtVars, NwVars>>
NcNext == /\ part = "Nc" /\ Nc!Next
          /\ UNCHANGED <<part, RaVars, GsVars, CoVars, DpVars, AlVars, AoVars, AhVars, AtVars, IpVars>>
NrNext == /\ part = "Nr" /\ Nr!Next
          /\ UNCHANGED <<part, RaVars, GsVars, CoVars, DpVars, AlVars, AoVars, AhVars, AtVars, IpVars>>
NkNext == /\ part = "Nk" /\ Nk!Next
          /\ UNCHANGED <<part, RaVars, GsVars, CoVars, DpVars, AlVars, AoVars, AhVars, AtVars, IpVars>>
NsNext == /\ part = "Ns" /\ Ns!Next
          /\ UNCHANGED <<part, RaVars, GsVars, CoVars, DpVars, AlVars, AoVars, AhVars, AtVars, IpVars>>

Next ==
  \/ RaNext
  \/ GsNext
  \/ CoNext
  \/ DpNext
  \/ AlNext
  \/ AoNext
  \/ AhNext
  \/ AtNext
  \/ IpNext
  \/ NcNext
  \/ NrNext
  \/ NkNext
  \/ NsNext

Spec ==
  /\ Init /\ [][Next]_vars

\* What the services of the desktop keep about the same thing agrees: grids and
\* scenes, the work that is left and the wake that was requested, the tree of
\* windows, the surfaces Atrium and Display know, a setting and its mirrors,
\* the ring of a device and its reader, and the slots of the Network service
\* and the handles its clients hold.
StateAgrees ==
  /\ part = "Ra" => Ra!TypeOK
  /\ part = "Gs" => Gs!TypeOK /\ Gs!GridsFollowScenes
  /\ part = "Co" => Co!TypeOK
  /\ part = "Dp" => Dp!TypeOK /\ Dp!SleepsWhenDone /\ Dp!WorkIsRequested
  /\ part = "Al" => Al!TypeOK /\ Al!ArenaIsTree /\ Al!OneFocus
  /\ part = "Ao" => Ao!TypeOK /\ Ao!SurfacesAccounted /\ Ao!PanesKnown
  /\ part = "Ah" => Ah!TypeOK /\ Ah!OneOverlay
  /\ part = "At" => At!SettingsTypeOK /\ At!SettledEverywhere /\ At!OverlayFollows
  /\ part = "Ip" => Ip!TypeOK /\ Ip!RingExact /\ Ip!RingOutlivesHandler /\ Ip!NoSleepOverBytes
                    /\ Ip!ModifiersFollow
  /\ part = "Nc" => Nc!TypeOK /\ Nc!SlotsAccountedFor /\ Nc!FreeSlotsAreClosed
                    /\ Nc!ReadyHasAddress /\ Nc!PendingInTime
  /\ part = "Nr" => Nr!TypeOK /\ Nr!SlotsAccountedFor /\ Nr!FreeSlotsAreClosed
                    /\ Nr!ReadyHasAddress /\ Nr!PendingInTime
  /\ part = "Nk" => Nk!TypeOK /\ Nk!SlotsAccountedFor /\ Nk!FreeSlotsAreClosed
                    /\ Nk!ReadyHasAddress /\ Nk!PendingInTime
  /\ part = "Ns" => Ns!TypeOK /\ Ns!SlotsAccountedFor /\ Ns!FreeSlotsAreClosed
                    /\ Ns!ReadyHasAddress /\ Ns!PendingInTime

=============================================================================
