----------------------------- MODULE AtriumShell -----------------------------
(***************************************************************************)
(* Atrium's Home: the command menu with its query, the two sidebar         *)
(* popovers, the tile grid, and the order in which one input event is      *)
(* offered to them (Atrium in services/atrium/src/lib.rs, the input loop   *)
(* of services/images/src/atrium.rs, UiCommandMenu in ui/components.rs).   *)
(*                                                                         *)
(* One Input step is one turn of the image's inner loop.  A pointer event  *)
(* carries the control it falls on, a label is a short sequence of         *)
(* letters, and what the tiled surfaces look like is AtriumLayout's.  The  *)
(* Settings surface is a second machine with its own variables, below:     *)
(* Home only knows whether it consumes a key or not.                       *)
(***************************************************************************)
EXTENDS Integers, Sequences, FiniteSets

CONSTANTS Labels,               \* the letters of the four menu labels
          Texts,                \* what a text or paste event may carry
          MAX_UI_TEXT_BYTES,    \* longest query
          MAX_ATRIUM_SURFACES,  \* application surfaces
          Mods                  \* the sets of modifiers held with a key

VARIABLES home,      \* Atrium's phase is Home
          menu,      \* the command menu: open, query, matches, selected
          popover,   \* the open sidebar popover
          hover,     \* the sidebar control under the pointer
          grid,      \* the focused tile
          open,      \* applications with a surface, in focus order
          launching, \* the application whose surface Display is creating
          dropped    \* the last event chose an action that was not taken

vars == <<home, menu, popover, hover, grid, open, launching, dropped>>

COMMAND_MENU_ITEMS == <<"Calculator", "Files", "Terminal", "System">>

HOME_GRID_APPS == COMMAND_MENU_ITEMS \o <<"Settings">>

Items == 1..Len(COMMAND_MENU_ITEMS)

None == [act |-> "None"]

Act(name) == [act |-> name]

Launch(app) == [act |-> "Launch", app |-> app]

-----------------------------------------------------------------------------
(* The command menu. *)

query_matches(label, query) ==
  \/ query = <<>>
  \/ \E i \in 1..Len(label) - Len(query) + 1 :
        SubSeq(label, i, i + Len(query) - 1) = query

Matches(query) == SelectSeq(<<1, 2, 3, 4>>, LAMBDA i : query_matches(Labels[i], query))

ClosedMenu == [open |-> FALSE, query |-> <<>>, matches |-> <<1, 2, 3, 4>>, selected |-> 0]

(* The selection is clamped when the list shrinks. *)
set_item_countMutant(m, matches) == [m EXCEPT !.matches = matches]

set_item_count(m, matches) ==
  [m EXCEPT !.matches = matches,
            !.selected = IF matches = <<>> THEN 0
                         ELSE IF @ >= Len(matches) THEN Len(matches) - 1 ELSE @]


refresh_command_menu_results(m) == set_item_count(m, Matches(m.query))

append_text(m, text) ==
  LET room == MAX_UI_TEXT_BYTES - Len(m.query)
      kept == SubSeq(text, 1, IF Len(text) < room THEN Len(text) ELSE room)
  IN [m EXCEPT !.query = @ \o kept]

pop_query_scalar(m) == [m EXCEPT !.query = SubSeq(@, 1, Len(@) - 1)]

(* With no item the selection does not move; the code's item_count - 1     *)
(* wraps there and the result is thrown away.                              *)
set_selected(m, index) ==
  IF m.matches = <<>> THEN m
  ELSE [m EXCEPT !.selected = IF index < Len(m.matches) THEN index ELSE Len(m.matches) - 1]

launcher_result_app(m, index) == COMMAND_MENU_ITEMS[m.matches[index + 1]]

open_command_menu == IF menu.open THEN menu ELSE [ClosedMenu EXCEPT !.open = TRUE]

(* What the open menu makes of a key: its new state and an action, or      *)
(* <<>> when it emits nothing and the key goes on.                         *)
command_menu_action(code) ==
  CASE code \in {"UP", "LEFT"} ->
         LET next == set_selected(menu, IF menu.selected = 0 THEN 0 ELSE menu.selected - 1)
         IN [m |-> next, a |-> IF next = menu THEN <<>> ELSE <<Act("LauncherChanged")>>]
    [] code \in {"DOWN", "RIGHT"} ->
         LET next == set_selected(menu, menu.selected + 1)
         IN [m |-> next, a |-> IF next = menu THEN <<>> ELSE <<Act("LauncherChanged")>>]
    [] code = "ENTER" ->
         [m |-> menu, a |-> IF menu.matches = <<>> THEN <<>>
                            ELSE <<Launch(launcher_result_app(menu, menu.selected))>>]
    [] code = "BACKSPACE" /\ menu.query # <<>> ->
         [m |-> refresh_command_menu_results(pop_query_scalar(menu)),
          a |-> <<Act("LauncherChanged")>>]
    [] OTHER -> [m |-> menu, a |-> <<>>]

-----------------------------------------------------------------------------
(* Focus and the grid. *)

Focused == IF open = <<>> THEN "none" ELSE open[1]

home_grid_showing(p) == home /\ ~menu.open /\ p = "none" /\ open = <<>>

Focus(app) == <<app>> \o SelectSeq(open, LAMBDA a : a # app)

-----------------------------------------------------------------------------
(* Atrium::input: what a key means, in the code's order. *)

Keys == {"META", "ESC", "ENTER", "UP", "DOWN", "LEFT", "RIGHT", "TAB", "BACKTAB",
         "BACKSPACE", "F4", "v", "h", "t", "l", "1", "2", "3", "4", "a"}

Shortcut(code, ctrl) ==
  CASE code = "TAB" -> Act("FocusNext")
    [] code = "BACKTAB" -> Act("FocusPrevious")
    [] code = "ESC" -> Act("CloseFocused")
    [] ctrl /\ code \in {"LEFT", "RIGHT", "UP", "DOWN"} -> Act("MoveFocused")
    [] ctrl /\ code = "l" -> Act("Logout")
    [] ctrl /\ code = "1" -> Launch("Calculator")
    [] ctrl /\ code = "2" -> Launch("Files")
    [] ctrl /\ code = "3" -> Launch("Terminal")
    [] ctrl /\ code = "4" -> Launch("System")
    [] OTHER -> None

GridKey(code) ==
  CASE code = "LEFT" /\ grid > 0 -> [g |-> grid - 1, a |-> <<Act("LauncherChanged")>>]
    [] code = "RIGHT" /\ grid < Len(HOME_GRID_APPS) - 1 ->
         [g |-> grid + 1, a |-> <<Act("LauncherChanged")>>]
    [] code = "ENTER" -> [g |-> grid, a |-> <<Launch(HOME_GRID_APPS[grid + 1])>>]
    [] OTHER -> [g |-> grid, a |-> <<>>]

Deferred(code, mods) ==
  /\ Focused = "Terminal"
  /\ \/ code = "TAB" /\ mods = {}
     \/ /\ "Ctrl" \in mods /\ "Alt" \notin mods
        /\ code = "TAB" \/ (code = "t" /\ "Shift" \in mods)

input(code, mods) ==
  LET Is(a) == [m |-> menu, g |-> grid, a |-> a]
      cm == command_menu_action(code)
      gk == GridKey(code)
  IN CASE code = "META" -> Is(Act(IF menu.open THEN "CloseCommandMenu" ELSE "OpenCommandMenu"))
       [] code = "ESC" /\ popover # "none" -> Is(Act("CloseSettingsMenu"))
       [] code = "ESC" /\ menu.open -> Is(Act("CloseCommandMenu"))
       [] {"Ctrl", "Shift"} \subseteq mods /\ code \in {"v", "h"} -> Is(Act("Split"))
       [] "Alt" \in mods /\ code = "F4" -> Is(Act("CloseFocused"))
       [] {"Ctrl", "Alt"} \subseteq mods /\ code \in {"LEFT", "RIGHT", "UP", "DOWN"} ->
            Is(Act("MoveFocused"))
       [] Deferred(code, mods) -> Is(None)
       [] menu.open /\ cm.a # <<>> -> [m |-> cm.m, g |-> grid, a |-> cm.a[1]]
       [] home_grid_showing(popover) /\ mods = {} /\ gk.a # <<>> ->
            [m |-> menu, g |-> gk.g, a |-> gk.a[1]]
       [] OTHER -> Is(Shortcut(code, "Ctrl" \in mods))

(* Text goes into the open menu's query; elsewhere it is no key.           *)
TextInput(text) ==
  LET longer == append_text(menu, text) IN
  IF ~menu.open \/ longer = menu THEN [m |-> menu, g |-> grid, a |-> None]
  ELSE [m |-> refresh_command_menu_results(longer), g |-> grid, a |-> Act("LauncherChanged")]

-----------------------------------------------------------------------------
(* settings_menu_input: the sidebar and its popovers. *)

SettingsMenu == <<Act("Shutdown"), Act("Restart"), Launch("Settings")>>

SidebarHover(at) == IF at[1] = "account" THEN 1 ELSE IF at[1] = "settings" THEN 2 ELSE 0

PopoverAction(at) ==
  CASE popover = "account" /\ at = <<"option", 1>> -> Act("Logout")
    [] popover = "settings" /\ at[1] = "option" -> SettingsMenu[at[2]]
    [] OTHER -> None

NextPopover(at) ==
  IF popover # "none" THEN "none"
  ELSE IF at[1] \in {"account", "settings"} THEN at[1] ELSE "none"


-----------------------------------------------------------------------------
(* The loop's action match. *)

(* An action that is None is routed to the focused surface, which this      *)
(* module does not follow.                                                  *)
Apply(r, p) ==
  /\ popover' = CASE r.a.act \in {"OpenCommandMenu", "CloseSettingsMenu", "Logout"} -> "none"
                  [] OTHER -> p
  /\ menu' = CASE r.a.act = "OpenCommandMenu" -> open_command_menu
               [] r.a.act = "CloseCommandMenu" -> [r.m EXCEPT !.open = FALSE]
               [] r.a.act = "Launch" /\ launching = "none" -> [r.m EXCEPT !.open = FALSE]
               [] r.a.act = "Logout" -> ClosedMenu
               [] OTHER -> r.m
  /\ home' = (home /\ r.a.act # "Logout")
  /\ grid' = r.g
  /\ open' = CASE r.a.act = "Logout" -> <<>>
               [] r.a.act = "Launch" /\ launching = "none"
                    /\ \E i \in 1..Len(open) : open[i] = r.a.app -> Focus(r.a.app)
               [] r.a.act = "CloseFocused" /\ open # <<>> -> Tail(open)
               [] r.a.act \in {"FocusNext", "FocusPrevious"} /\ open # <<>> ->
                    Tail(open) \o <<open[1]>>
               [] OTHER -> open
  /\ launching' = IF /\ r.a.act = "Launch" /\ launching = "none"
                     /\ \A i \in 1..Len(open) : open[i] # r.a.app
                     /\ Len(open) < MAX_ATRIUM_SURFACES
                  THEN r.a.app ELSE launching

-----------------------------------------------------------------------------
(* Events. *)

Key(code, mods) ==
  /\ home
  /\ \/ /\ Focused = "Settings"                      \* settings_input consumes it
        /\ UNCHANGED vars
     \/ LET r == input(code, mods) IN
        /\ Apply(r, popover)
        /\ hover' = IF r.a.act = "Logout" THEN 0 ELSE hover
        /\ dropped' = FALSE

Text(text) ==
  /\ home
  /\ LET r == TextInput(text) IN
     /\ Apply(r, popover)
     /\ dropped' = FALSE
     /\ UNCHANGED hover

Controls ==
  ({"item"} \X Items) \cup ({"tile"} \X (1..Len(HOME_GRID_APPS))) \cup
  ({"option"} \X (1..3)) \cup
  {<<"account", 0>>, <<"settings", 0>>, <<"sidebar", 0>>, <<"close", 0>>, <<"elsewhere", 0>>}

OnSidebar(at) == at[1] \in {"account", "settings", "sidebar"}

(* A pointer event, in the order of the loop: the menu's items, the tiles, *)
(* the sidebar with its popovers, the open menu, the grid, the surfaces.   *)
Pointer(down, at) ==
  LET onItem  == menu.open /\ at[1] = "item" /\ at[2] <= Len(menu.matches)
      chosen  == IF onItem THEN set_selected(menu, at[2] - 1) ELSE menu
      onTile  == home_grid_showing(popover) /\ at[1] = "tile"
      tile    == IF onTile THEN at[2] - 1 ELSE grid
      sidebar == ~menu.open /\ (popover # "none" \/ hover # 0 \/ OnSidebar(at))
      p       == IF sidebar /\ down THEN NextPopover(at) ELSE popover
      action  == IF sidebar /\ down THEN PopoverAction(at) ELSE None
      Enter(r) == /\ Apply(r, p) /\ dropped' = FALSE
      Swallow == /\ menu' = chosen /\ grid' = tile /\ popover' = p
                 /\ dropped' = (action # None)
                 /\ UNCHANGED <<home, open, launching>>
  IN /\ home
     /\ hover' = IF sidebar THEN SidebarHover(at) ELSE hover
     /\ IF down /\ onItem
        THEN Enter([m |-> chosen, g |-> grid,
                    a |-> Launch(launcher_result_app(chosen, chosen.selected))])
        ELSE IF down /\ onTile
        THEN Enter([m |-> menu, g |-> tile, a |-> Launch(HOME_GRID_APPS[tile + 1])])
        ELSE IF menu.open \/ home_grid_showing(p) THEN Swallow
        ELSE IF sidebar
        THEN IF action = None THEN Swallow
             ELSE Enter([m |-> menu, g |-> grid, a |-> action])
        ELSE IF down /\ at[1] = "close" /\ open # <<>>
        THEN Enter([m |-> menu, g |-> grid, a |-> Act("CloseFocused")])
        ELSE Swallow

(* Display answers the pending creation. *)
SurfaceCreated ==
  /\ launching # "none" /\ home
  /\ open' = Focus(launching) /\ launching' = "none"
  /\ dropped' = FALSE
  /\ UNCHANGED <<home, menu, popover, hover, grid>>

SurfaceRefused ==
  /\ launching # "none"
  /\ launching' = "none"
  /\ dropped' = FALSE
  /\ UNCHANGED <<home, menu, popover, hover, grid, open>>

(* Shell's context: authenticated again after a logout, and lock. *)
authenticate ==
  /\ ~home
  /\ home' = TRUE /\ menu' = ClosedMenu /\ popover' = "none" /\ hover' = 0
  /\ grid' = 0 /\ open' = <<>>
  /\ dropped' = FALSE
  /\ UNCHANGED launching

lock ==
  /\ home
  /\ home' = FALSE /\ menu' = ClosedMenu /\ popover' = "none" /\ hover' = 0
  /\ open' = <<>>
  /\ dropped' = FALSE
  /\ UNCHANGED <<grid, launching>>

Init ==
  /\ home = FALSE /\ menu = ClosedMenu /\ popover = "none" /\ hover = 0 /\ grid = 0
  /\ open = <<>> /\ launching = "none"
  /\ dropped = FALSE

Next ==
  \/ \E code \in Keys, mods \in Mods : Key(code, mods)
  \/ \E text \in Texts : Text(text)
  \/ \E down \in BOOLEAN, at \in Controls : Pointer(down, at)
  \/ SurfaceCreated \/ SurfaceRefused \/ authenticate \/ lock

Spec == Init /\ [][Next]_vars

-----------------------------------------------------------------------------
TypeOK ==
  /\ home \in BOOLEAN /\ popover \in {"none", "account", "settings"} /\ hover \in 0..2
  /\ grid \in 0..Len(HOME_GRID_APPS) - 1
  /\ launching \in {"none"} \cup {HOME_GRID_APPS[i] : i \in 1..5}
  /\ dropped \in BOOLEAN

(* What the menu lists is what its query matches, the highlighted row is a *)
(* row of that list, and Enter or a click launches the application that    *)
(* row names: list, selection and query are three pieces of state updated  *)
(* by different handlers (refresh_command_menu_results, set_item_count,    *)
(* open_command_menu, clear_surface_records).                              *)
MenuListsItsQuery ==
  /\ menu.matches = Matches(menu.query)
  /\ menu.selected < Len(menu.matches) \/ (menu.matches = <<>> /\ menu.selected = 0)

(* At most one of the command menu and the popovers is up, none while      *)
(* Atrium is locked, and no application has the focus twice.               *)
OneOverlay ==
  /\ ~(menu.open /\ popover # "none")
  /\ ~home => ~menu.open /\ popover = "none" /\ open = <<>>
  /\ \A i, j \in 1..Len(open) : open[i] = open[j] => i = j

(* What a click on a sidebar popover's entry selects is carried out        *)
(* (Settings, whose entry point the sidebar is, Shut down, Restart, Log    *)
(* out).                                                                   *)
SidebarActionsTaken == ~dropped

------------------------------------------------------------------------------
(***************************************************************************)
(* The Settings surface and everything its settings are mirrored into: the *)
(* page widgets (settings_input, UiSelect, UiPopover, the search field),   *)
(* the record Atrium persists through User (ADR-0091), the keyboard and    *)
(* pointer settings pushed to Input, and the FPS overlay whose state       *)
(* Display keeps and Atrium mirrors (ADR-0089).                            *)
(*                                                                         *)
(* settings_turn is one turn of the image's outer loop as far as settings  *)
(* go; the events are turns of its inner loop.  Channels are bounded; the  *)
(* surface commands of other surfaces share the queue the overlay's toggle *)
(* goes through.  Accent, theme and reduced motion are one field, look.    *)
(***************************************************************************)
CONSTANTS PageLabels,  \* the letters of the four page labels
          Letters,     \* what may be typed into the search field
          Speeds,      \* number of pointer accelerations
          Capacity,    \* messages a channel holds
          MAX_PENDING_SURFACE_COMMANDS,
          MaxChanges   \* clicks and keys that change a setting

VARIABLES page, search, searching, keyboard, mouse, \* the surface's widgets
          record,    \* layout, speed, look, fps
          push,      \* pending_input_settings, <<>> or one
          load,      \* the Load request is still unsent
          save,      \* pending_settings_save, <<>> or one
          last,      \* last_saved_settings
          changed,   \* settings_changed_by_user
          commands,  \* SurfaceCommandQueue
          toDisplay, overlay, \* Display's channel and its overlay
          toInput, driver,    \* Input's channel and its settings
          toUser, fromUser, stored, durable, \* User and its record
          failed,    \* the last save was not made durable
          swallowed, \* a toggle was merged into a queued one or dropped
          changes

widgets == <<page, search, searching, keyboard, mouse>>
image == <<push, load, save, last, changed>>
display == <<commands, toDisplay, overlay, swallowed>>
settings_input == <<toInput, driver>>
user == <<toUser, fromUser, stored, durable, failed>>
settingsVars == <<page, search, searching, keyboard, mouse, record, push, load, save, last, changed,
          commands, toDisplay, overlay, toInput, driver, toUser, fromUser, stored, durable,
          failed, swallowed, changes>>

Pages == <<"Keyboard", "Mouse", "Appearance", "About">>

Records == [layout : 0..1, speed : 0..Speeds - 1, look : 0..1, fps : BOOLEAN]

DEFAULT == [layout |-> 0, speed |-> 1, look |-> 0, fps |-> TRUE]

-----------------------------------------------------------------------------
(* UiSelect. *)

Select(selected) == [open |-> FALSE, selected |-> selected]

select_close(s) == [s EXCEPT !.open = FALSE]

select_open(s) == [s EXCEPT !.open = TRUE]

select(s, index) == [open |-> FALSE, selected |-> index]

settings_select_open ==
  (page = "Keyboard" /\ keyboard.open) \/ (page = "Mouse" /\ mouse.open)

(* The search field hides the pages whose label does not contain it. *)
settings_category_visible(p) ==
  LET label == PageLabels[p] IN
  \/ search = <<>>
  \/ \E i \in 1..Len(label) : <<label[i]>> = search

-----------------------------------------------------------------------------
(* What the image does after settings_input returned true for a pointer    *)
(* event: the overlay's toggle, the push to Input, the save.               *)

Flushed(queue, channel) ==
  LET n == IF Len(queue) < Capacity - Len(channel) THEN Len(queue)
           ELSE Capacity - Len(channel)
  IN [queue |-> SubSeq(queue, n + 1, Len(queue)), channel |-> channel \o SubSeq(queue, 1, n)]

(* Two toggles that are queued together are one request, and a full queue  *)
(* refuses one.                                                            *)
push_command(queue, command) ==
  IF \/ Len(queue) = MAX_PENDING_SURFACE_COMMANDS
     \/ command = "toggle" /\ \E i \in 1..Len(queue) : queue[i] = "toggle"
  THEN queue ELSE Append(queue, command)

queue_fps_toggle(toggles) ==
  LET next == IF toggles THEN push_command(commands, "toggle") ELSE commands
      out == Flushed(next, toDisplay)
  IN /\ commands' = IF toggles THEN out.queue ELSE commands
     /\ toDisplay' = IF toggles THEN out.channel ELSE toDisplay
     /\ swallowed' = (swallowed \/ (toggles /\ next = commands))
     /\ UNCHANGED overlay

InputPart(r) == [layout |-> r.layout, speed |-> r.speed]

PersistMutant(r) ==
  /\ push' = IF r # last THEN <<InputPart(r)>> ELSE push
  /\ IF r # last THEN save' = <<r>> /\ changed' = TRUE
     ELSE UNCHANGED <<save, changed>>
  /\ UNCHANGED <<last, load>>

Persist(r) ==
  /\ push' = <<InputPart(r)>>
  /\ IF r # last THEN last' = r /\ save' = <<r>> /\ changed' = TRUE
     ELSE UNCHANGED <<last, save, changed>>
  /\ UNCHANGED load


(* A pointer event the surface consumed. *)
Consumed(r) ==
  /\ record' = r
  /\ queue_fps_toggle(r.fps # record.fps)
  /\ Persist(r)
  /\ changes' = IF r # record THEN changes + 1 ELSE changes
  /\ UNCHANGED <<toInput, driver, toUser, fromUser, stored, durable, failed>>

CanChange == changes < MaxChanges

-----------------------------------------------------------------------------
(* Pointer events on the Settings surface. *)

apply_settings_option(index) ==
  CASE page = "Keyboard" -> [record EXCEPT !.layout = index]
    [] page = "Mouse" -> [record EXCEPT !.speed = index]
    [] OTHER -> record

(* An option of the open list; its select closes and, if the choice is new, *)
(* the setting follows.                                                     *)
ClickOption(index) ==
  /\ settings_select_open /\ CanChange
  /\ page = "Keyboard" => index \in 0..1
  /\ keyboard' = IF page = "Keyboard" THEN select(keyboard, index) ELSE keyboard
  /\ mouse' = IF page = "Mouse" THEN select(mouse, index) ELSE mouse
  /\ Consumed(apply_settings_option(index))
  /\ UNCHANGED <<page, search, searching>>

(* Any other click while the list is open only closes it. *)
ClickAway ==
  /\ settings_select_open
  /\ keyboard' = IF page = "Keyboard" THEN select_close(keyboard) ELSE keyboard
  /\ mouse' = IF page = "Mouse" THEN select_close(mouse) ELSE mouse
  /\ Consumed(record)
  /\ UNCHANGED <<page, search, searching>>

ClickSearch ==
  /\ ~settings_select_open
  /\ searching' = TRUE
  /\ Consumed(record)
  /\ UNCHANGED <<page, search, keyboard, mouse>>

select_settings_page(p) ==
  /\ page' = Pages[p]
  /\ keyboard' = select_close(keyboard) /\ mouse' = select_close(mouse)


ClickCategory(p) ==
  /\ ~settings_select_open /\ settings_category_visible(p)
  /\ searching' = FALSE
  /\ select_settings_page(p)
  /\ Consumed(record)
  /\ UNCHANGED search

(* A swatch, the theme row, a toggle row. *)
appearance_click(what) ==
  /\ ~settings_select_open /\ page = "Appearance" /\ CanChange
  /\ Consumed(IF what = "fps" THEN [record EXCEPT !.fps = ~@]
              ELSE [record EXCEPT !.look = 1 - @])
  /\ UNCHANGED widgets

ClickSelect ==
  /\ ~settings_select_open /\ page \in {"Keyboard", "Mouse"}
  /\ keyboard' = IF page = "Keyboard" THEN select_open(keyboard) ELSE keyboard
  /\ mouse' = IF page = "Mouse" THEN select_open(mouse) ELSE mouse
  /\ Consumed(record)
  /\ UNCHANGED <<page, search, searching>>

-----------------------------------------------------------------------------
(* Keys: the image redraws and neither pushes nor saves. *)

OnlyWidgets == UNCHANGED <<record, push, load, save, last, changed, commands, toDisplay,
                           overlay, toInput, driver, toUser, fromUser, stored, durable,
                           failed, swallowed, changes>>

settings_search_input(key) ==
  /\ searching
  /\ \/ key \in Letters /\ search = <<>> /\ search' = <<key>> /\ UNCHANGED searching
     \/ key = 0 /\ search # <<>> /\ search' = <<>> /\ UNCHANGED searching
     \/ key = -1 /\ searching' = FALSE /\ UNCHANGED search
  /\ UNCHANGED <<page, keyboard, mouse>> /\ OnlyWidgets

EscapeSelect ==
  /\ ~searching /\ settings_select_open
  /\ keyboard' = IF page = "Keyboard" THEN select_close(keyboard) ELSE keyboard
  /\ mouse' = IF page = "Mouse" THEN select_close(mouse) ELSE mouse
  /\ UNCHANGED <<page, search, searching>> /\ OnlyWidgets

Position == CHOOSE p \in 1..4 : Pages[p] = page

(* The next visible category up or down, if there is one. *)
step_settings_page(forward) ==
  LET ahead == {p \in 1..4 : /\ settings_category_visible(p)
                             /\ IF forward THEN p > Position ELSE p < Position}
  IN /\ ~settings_select_open /\ ahead # {}
     /\ \E p \in ahead :
          /\ \A q \in ahead : IF forward THEN p <= q ELSE p >= q
          /\ select_settings_page(p)
     /\ UNCHANGED <<search, searching>> /\ OnlyWidgets

(* Ctrl+F12, anywhere: the mirror flips and a toggle is queued; nothing is  *)
(* saved.                                                                   *)
ToggleKey ==
  /\ CanChange
  /\ record' = [record EXCEPT !.fps = ~@]
  /\ queue_fps_toggle(TRUE)
  /\ changes' = changes + 1
  /\ UNCHANGED <<widgets, image, settings_input, user>>

(* Leaving Home closes the selects (clear_surface_records). *)
settings_lock ==
  /\ keyboard' = select_close(keyboard) /\ mouse' = select_close(mouse)
  /\ UNCHANGED <<page, search, searching>> /\ OnlyWidgets

(* Another surface's command goes through the same queue. *)
OtherCommand ==
  /\ Len(commands) < MAX_PENDING_SURFACE_COMMANDS /\ CanChange
  /\ LET out == Flushed(Append(commands, "other"), toDisplay) IN
     commands' = out.queue /\ toDisplay' = out.channel
  /\ changes' = changes + 1
  /\ UNCHANGED <<widgets, record, image, overlay, swallowed, settings_input, user>>

-----------------------------------------------------------------------------
(* One turn of the outer loop. *)

should_apply_loaded_settings == ~changed

apply_settings_recordMutant(r) ==
  /\ record' = r
  /\ UNCHANGED <<keyboard, mouse>>

apply_settings_record(r) ==
  /\ record' = r
  /\ keyboard' = [keyboard EXCEPT !.selected = r.layout]
  /\ mouse' = [mouse EXCEPT !.selected = r.speed]


(* Sends in order: the push, the Load, the save; a full channel leaves the  *)
(* request pending.  User's one channel takes what fits.                    *)
Sent ==
  LET requests == (IF load THEN <<[op |-> "Load", data |-> DEFAULT]>> ELSE <<>>)
                  \o (IF save # <<>> THEN <<[op |-> "Save", data |-> save[1]]>> ELSE <<>>)
      room == Capacity - Len(toUser)
      n == IF Len(requests) < room THEN Len(requests) ELSE room
  IN [to |-> toUser \o SubSeq(requests, 1, n),
      load |-> load /\ n = 0,
      save |-> IF n < Len(requests) THEN save ELSE <<>>]

LoadAnswers == SelectSeq(fromUser, LAMBDA r : r.op = "Load")

settings_turn ==
  LET answer == LoadAnswers
      applies == answer # <<>> /\ should_apply_loaded_settings
      r == IF applies THEN answer[1].data ELSE record
      next == IF r.fps # record.fps THEN push_command(commands, "toggle") ELSE commands
      out == Flushed(next, toDisplay)
      pushed == push # <<>> /\ Len(toInput) < Capacity
  IN /\ toInput' = IF pushed THEN toInput \o push ELSE toInput
     /\ push' = IF applies THEN <<InputPart(r)>> ELSE IF pushed THEN <<>> ELSE push
     /\ toUser' = Sent.to /\ load' = Sent.load /\ save' = Sent.save
     /\ fromUser' = <<>>
     /\ IF applies THEN apply_settings_record(r) ELSE UNCHANGED <<record, keyboard, mouse>>
     /\ last' = IF applies THEN r ELSE last
     /\ commands' = out.queue /\ toDisplay' = out.channel
     /\ swallowed' = (swallowed \/ (r.fps # record.fps /\ next = commands))
     /\ UNCHANGED <<page, search, searching, changed, overlay, driver, stored, durable,
                    failed, changes>>

-----------------------------------------------------------------------------
(* The peers. *)

DisplayServes ==
  /\ toDisplay # <<>>
  /\ overlay' = IF Head(toDisplay) = "toggle" THEN ~overlay ELSE overlay
  /\ toDisplay' = Tail(toDisplay)
  /\ UNCHANGED <<widgets, record, image, commands, swallowed, settings_input, user, changes>>

(* Input drains its channel; the last one wins. *)
InputServes ==
  /\ toInput # <<>>
  /\ driver' = toInput[Len(toInput)]
  /\ toInput' = <<>>
  /\ UNCHANGED <<widgets, record, image, display, user, changes>>

(* User keeps the record in its catalog and persists it, which may fail;    *)
(* its answer waits for room.                                               *)
handle_atrium_settings(ok) ==
  /\ toUser # <<>> /\ Len(fromUser) < Capacity
  /\ LET request == Head(toUser) IN
     IF request.op = "Load"
     THEN /\ fromUser' = Append(fromUser, [op |-> "Load", data |-> stored])
          /\ UNCHANGED <<stored, durable, failed>>
     ELSE /\ fromUser' = Append(fromUser, [op |-> "Save", data |-> DEFAULT])
          /\ stored' = request.data
          /\ durable' = IF ok THEN request.data ELSE durable
          /\ failed' = ~ok
  /\ toUser' = Tail(toUser)
  /\ UNCHANGED <<widgets, record, image, display, settings_input, changes>>

-----------------------------------------------------------------------------
(* Atrium starts on the defaults, which are Display's and Input's too; the  *)
(* catalog holds what an earlier boot saved.                                *)
SettingsInit ==
  /\ page = "Keyboard" /\ search = <<>> /\ searching = FALSE
  /\ keyboard = Select(DEFAULT.layout) /\ mouse = Select(DEFAULT.speed)
  /\ record = DEFAULT /\ push = <<>> /\ load = TRUE /\ save = <<>>
  /\ last = DEFAULT /\ changed = FALSE
  /\ commands = <<>> /\ toDisplay = <<>> /\ overlay = DEFAULT.fps
  /\ toInput = <<>> /\ driver = InputPart(DEFAULT)
  /\ toUser = <<>> /\ fromUser = <<>>
  /\ stored \in {DEFAULT, [layout |-> 1, speed |-> 1, look |-> 1, fps |-> FALSE]}
  /\ durable = stored /\ failed = FALSE
  /\ swallowed = FALSE /\ changes = 0

SettingsNext ==
  \/ \E index \in 0..Speeds - 1 : ClickOption(index)
  \/ ClickAway \/ ClickSearch \/ ClickSelect
  \/ \E p \in 1..4 : ClickCategory(p)
  \/ \E what \in {"fps", "look"} : appearance_click(what)
  \/ \E key \in Letters \cup {0, -1} : settings_search_input(key)
  \/ EscapeSelect
  \/ \E forward \in BOOLEAN : step_settings_page(forward)
  \/ ToggleKey \/ OtherCommand \/ settings_lock
  \/ settings_turn \/ DisplayServes \/ InputServes
  \/ \E ok \in BOOLEAN : handle_atrium_settings(ok)

SettingsSpec == SettingsInit /\ [][SettingsNext]_settingsVars

-----------------------------------------------------------------------------
SettingsTypeOK ==
  /\ record \in Records /\ last \in Records /\ stored \in Records /\ durable \in Records
  /\ Len(commands) <= MAX_PENDING_SURFACE_COMMANDS
  /\ Len(toDisplay) <= Capacity /\ Len(toUser) <= Capacity /\ Len(fromUser) <= Capacity

(* What the Settings surface shows is what is in effect: each select shows *)
(* its setting, and a list is open only on the page that has it, so a      *)
(* click on an option always changes the setting under the pointer.        *)
SelectsShowTheirSetting ==
  /\ keyboard.selected = record.layout /\ mouse.selected = record.speed
  /\ keyboard.open => page = "Keyboard"
  /\ mouse.open => page = "Mouse"

(* Once nothing is pending, Input decodes with the settings shown, User    *)
(* holds the record shown (up to the overlay, which Ctrl+F12 flips without *)
(* saving), and it is durable unless its last save failed.  A Load answer  *)
(* that arrives late, a full channel and a change made while a save is     *)
(* unsent must not break this.                                             *)
SettledEverywhere ==
  /\ push = <<>> /\ toInput = <<>> => driver = InputPart(record)
  /\ ~load /\ save = <<>> /\ toUser = <<>> /\ LoadAnswers = <<>> =>
       /\ stored = last
       /\ [last EXCEPT !.fps = record.fps] = record
       /\ ~failed => durable = stored

(* Once no toggle is on its way Display's overlay is what Atrium shows,     *)
(* unless a toggle was merged into another one or refused by a full queue. *)
OverlayFollows ==
  /\ ~swallowed
  /\ \A i \in 1..Len(commands) : commands[i] # "toggle"
  /\ \A i \in 1..Len(toDisplay) : toDisplay[i] # "toggle"
  => overlay = record.fps

(* The two stay in step: once no toggle is on its way, Display's overlay is *)
(* what Atrium shows.                                                       *)
OverlayInStep ==
  /\ \A i \in 1..Len(commands) : commands[i] # "toggle"
  /\ \A i \in 1..Len(toDisplay) : toDisplay[i] # "toggle"
  => overlay = record.fps
==============================================================================
