---------------------------- MODULE TerminalPanes ----------------------------
(***************************************************************************)
(* Terminal's panes and tabs (TerminalService in services/terminal) and    *)
(* the loop of its image (services/images/src/terminal.rs) that keeps      *)
(* Atrium told of the tab bars, Session told of closed tabs and Display's  *)
(* text grids showing the active tabs.                                     *)
(*                                                                         *)
(* A session's screen is one row with a version; its generation is the     *)
(* code's, and messages to and from Session carry it as history only: the  *)
(* wire has the slot.  pc is the stage of the loop.                        *)
(***************************************************************************)
EXTENDS Integers, Sequences, FiniteSets

CONSTANTS MAX_TERMINAL_SESSIONS, \* sessions, and panes
          Surfaces,              \* handles Atrium may admit
          GenMod,                \* generations wrap to 1 above it; 3 or more, as a
                                 \* close and an opening each take one
          Capacity,              \* messages a channel holds
          MaxChanges             \* resizes, events from the user that have an
                                 \* effect, and replies

Slots == 0..MAX_TERMINAL_SESSIONS - 1
Panes == Slots
NoSurface == 0

VARIABLES sessions,       \* open, generation, owner, version, dirty
          panes,          \* in_use, surface, active
          current, render_cursor,
          last_sent,      \* what Atrium was last told of each pane
          pending_closes, \* slots whose SessionClose is unsent
          pending_input,  \* <<>> or one message Session had no room for
          pending_render, \* <<>> or one row Atrium had no room for
          pc,
          toAtrium, known, \* tab reports, and Atrium's view of a surface
          toRender, grid,  \* rows, and the text grid of a surface
          toSession, held, \* messages, and whose state Session holds
          output,          \* Session's replies
          gone,            \* surfaces Atrium has revoked
          dropped,         \* slots whose best-effort SessionClose was lost
          foreign,         \* a reply was fed to another session
          changes

terminal == <<sessions, panes, current, render_cursor>>
pending == <<last_sent, pending_closes, pending_input, pending_render>>
peers == <<toAtrium, known, toRender, grid, toSession, held, output, gone>>
history == <<dropped, foreign>>
vars == <<sessions, panes, current, render_cursor, last_sent, pending_closes, pending_input,
          pending_render, pc, toAtrium, known, toRender, grid, toSession, held, output, gone,
          dropped, foreign, changes>>

-----------------------------------------------------------------------------
(* TerminalService. *)

owns(s, pane, slot) == s[slot].open /\ s[slot].owner = pane

Bound(pane) == panes[pane].in_use /\ panes[pane].surface # NoSurface

pane_index(surface) == {p \in Panes : panes[p].in_use /\ panes[p].surface = surface}

Least(set) == CHOOSE x \in set : \A y \in set : x <= y

bitmap_of(pane) == {slot \in Slots : owns(sessions, pane, slot)}

Bumped(g) == IF g = GenMod THEN 1 ELSE g + 1


(* A fresh session for a pane; its screen starts dirty. *)
Opened(s, slot, pane) ==
  [s EXCEPT ![slot] = [open |-> TRUE, generation |-> Bumped(@.generation),
                       owner |-> pane, version |-> 0, dirty |-> TRUE]]

force_redraw(s, slot) == [s EXCEPT ![slot].dirty = TRUE]

(* resize marks every session of the pane. *)
resize_to_surface(s, pane) ==
  [slot \in Slots |-> IF owns(s, pane, slot) THEN [s[slot] EXCEPT !.dirty = TRUE] ELSE s[slot]]

Closed(s, slots) ==
  [slot \in Slots |-> IF slot \in slots
                      THEN [s[slot] EXCEPT !.open = FALSE, !.generation = Bumped(@)]
                      ELSE s[slot]]

FreeSlots == {slot \in Slots : ~sessions[slot].open}

EmptyPane == [in_use |-> FALSE, surface |-> NoSurface, active |-> 0]

(* An admitted surface: known already, the retained pane, or a new pane    *)
(* with a new session if one is free.                                      *)
bind_surface(surface) ==
  LET retained == {p \in Panes : panes[p].in_use /\ panes[p].surface = NoSurface}
      vacant == {p \in Panes : ~panes[p].in_use}
  IN CASE retained # {} ->
            LET p == Least(retained)
                slot == panes[p].active
                blank == [sessions EXCEPT ![slot].version = 0, ![slot].dirty = TRUE]
            IN /\ panes' = [panes EXCEPT ![p].surface = surface]
               /\ current' = p
               /\ sessions' = resize_to_surface(blank, p)
       [] retained = {} /\ vacant # {} /\ FreeSlots # {} ->
            LET p == Least(vacant) slot == Least(FreeSlots) IN
            /\ panes' = [panes EXCEPT ![p] = [in_use |-> TRUE, surface |-> surface,
                                              active |-> slot]]
            /\ current' = p
            /\ sessions' = Opened(sessions, slot, p)
       [] OTHER -> UNCHANGED <<panes, current, sessions>>

(* A revoked surface: the last bound pane is kept for its sessions, any    *)
(* other is freed with them.                                               *)
FreedMutant(surface) == {}

Freed(surface) ==
  IF \/ pane_index(surface) = {}
     \/ Cardinality({p \in Panes : Bound(p)}) <= 1
  THEN {} ELSE bitmap_of(Least(pane_index(surface)))

unbind_surfaceMutant(surface) ==
  LET p == Least(pane_index(surface))
      left == {q \in Panes \ {p} : Bound(q)}
  IN IF pane_index(surface) = {} THEN UNCHANGED <<panes, current, sessions>>
     ELSE IF left = {}
     THEN /\ panes' = [panes EXCEPT ![p].surface = NoSurface]
          /\ UNCHANGED <<current, sessions>>
     ELSE /\ sessions' = sessions
          /\ panes' = [panes EXCEPT ![p] = EmptyPane]
          /\ current' = IF current = p THEN Least(left) ELSE current

unbind_surface(surface) ==
  LET p == Least(pane_index(surface))
      left == {q \in Panes \ {p} : Bound(q)}
  IN IF pane_index(surface) = {} THEN UNCHANGED <<panes, current, sessions>>
     ELSE IF left = {}
     THEN /\ panes' = [panes EXCEPT ![p].surface = NoSurface]
          /\ UNCHANGED <<current, sessions>>
     ELSE /\ sessions' = Closed(sessions, bitmap_of(p))
          /\ panes' = [panes EXCEPT ![p] = EmptyPane]
          /\ current' = IF current = p THEN Least(left) ELSE current


open_tab ==
  IF FreeSlots = {} THEN UNCHANGED <<sessions, panes>>
  ELSE LET slot == Least(FreeSlots) IN
       /\ sessions' = Opened(sessions, slot, current)
       /\ panes' = [panes EXCEPT ![current].active = slot]

(* Never a pane's last tab. *)
CanCloseMutant(slot) == slot \in bitmap_of(current)

CanClose(slot) == slot \in bitmap_of(current) /\ Cardinality(bitmap_of(current)) > 1


close_tab(slot) ==
  LET left == bitmap_of(current) \ {slot}
      next == IF left = {} THEN 0 ELSE Least(left)
      closed == Closed(sessions, {slot})
  IN IF panes[current].active = slot
     THEN /\ panes' = [panes EXCEPT ![current].active = next]
          /\ sessions' = force_redraw(closed, next)
     ELSE panes' = panes /\ sessions' = closed


switch_tab(slot) ==
  IF panes[current].active = slot THEN UNCHANGED <<sessions, panes>>
  ELSE /\ panes' = [panes EXCEPT ![current].active = slot]
       /\ sessions' = force_redraw(sessions, slot)


NextTab == LET after == {slot \in bitmap_of(current) : slot > panes[current].active} IN
           IF after # {} THEN Least(after) ELSE Least(bitmap_of(current))

next_tab ==
  /\ panes' = [panes EXCEPT ![current].active = NextTab]
  /\ sessions' = force_redraw(sessions, NextTab)

-----------------------------------------------------------------------------
(* Stage 1: tell Atrium of each tab bar that changed; a full channel ends   *)
(* the round.                                                               *)

pane_report(p) ==
  IF Bound(p) THEN <<[surface |-> panes[p].surface, open |-> bitmap_of(p),
                      active |-> panes[p].active]>>
  ELSE <<>>

Reports == [p \in Panes |-> pane_report(p) # <<>> /\ last_sent[p] # pane_report(p)]

Report ==
  LET room == Capacity - Len(toAtrium)
      due == {p \in Panes : Reports[p]}
      Before(p) == Cardinality({q \in due : q < p})
      Sends(p) == p \in due /\ Before(p) < room
      Ended(p) == \E q \in due : q < p /\ Before(q) >= room
      sent == SelectSeq([i \in 1..MAX_TERMINAL_SESSIONS |-> i - 1], Sends)
  IN /\ pc = "Report" /\ pc' = "Respond"
     /\ toAtrium' = toAtrium \o [i \in 1..Len(sent) |-> pane_report(sent[i])[1]]
     /\ last_sent' = [p \in Panes |-> IF Sends(p) THEN pane_report(p)
                                      ELSE IF pane_report(p) = <<>> /\ ~Ended(p) THEN <<>>
                                      ELSE last_sent[p]]
     /\ UNCHANGED <<terminal, pending_closes, pending_input, pending_render, known, toRender,
                    grid, toSession, held, output, gone, history, changes>>

-----------------------------------------------------------------------------
(* Stage 2: Atrium's responses. *)

Live == {panes[p].surface : p \in {q \in Panes : Bound(q)}}

(* Handles are new and only compared: the least of those not seen yet      *)
(* stands for any of them.                                                  *)
Unseen == Surfaces \ (Live \cup gone)
Named(surface) == surface \in Unseen => surface = Least(Unseen)

Admit(surface) ==
  /\ pc = "Respond"
  /\ surface \in Unseen /\ Named(surface)
  /\ bind_surface(surface)
  /\ UNCHANGED <<render_cursor, pending, pc, peers, history, changes>>

Update(surface) ==
  /\ pc = "Respond" /\ changes < MaxChanges
  /\ surface \in Live
  /\ current' = Least(pane_index(surface))
  /\ sessions' = resize_to_surface(sessions, Least(pane_index(surface)))
  /\ changes' = changes + 1
  /\ UNCHANGED <<panes, render_cursor, pending, pc, peers, history>>

(* A row for the revoked surface is thrown away. *)
Revoke(surface) ==
  /\ pc = "Respond"
  /\ surface \notin gone /\ Named(surface)
  /\ unbind_surface(surface)
  /\ pending_render' = IF pending_render # <<>> /\ pending_render[1].surface = surface
                       THEN <<>> ELSE pending_render
  /\ pending_closes' = pending_closes \cup Freed(surface)
  /\ gone' = gone \cup {surface}
  /\ UNCHANGED <<render_cursor, last_sent, pending_input, pc, toAtrium, known, toRender, grid,
                 toSession, held, output, history, changes>>

RespondDone ==
  /\ pc = "Respond" /\ pc' = "Close"
  /\ UNCHANGED <<terminal, pending, peers, history, changes>>

-----------------------------------------------------------------------------
(* Stage 3: the closes, then the input that did not fit. *)

CloseMessage(slot) == [kind |-> "Close", slot |-> slot, generation |-> 0]

Close ==
  /\ pc = "Close"
  /\ IF pending_closes # {} /\ Len(toSession) < Capacity
     THEN LET slot == Least(pending_closes) IN
          /\ toSession' = Append(toSession, CloseMessage(slot))
          /\ pending_closes' = pending_closes \ {slot}
          /\ UNCHANGED <<pending_input, pc>>
     ELSE /\ IF pending_input # <<>> /\ Len(toSession) < Capacity
             THEN toSession' = toSession \o pending_input /\ pending_input' = <<>>
             ELSE UNCHANGED <<toSession, pending_input>>
          /\ pc' = "Input"
          /\ UNCHANGED pending_closes
  /\ UNCHANGED <<terminal, last_sent, pending_render, toAtrium, known, toRender, grid, held,
                 output, gone, history, changes>>

-----------------------------------------------------------------------------
(* Stage 4: input addressed to a pane, while nothing is pending. *)

TakesInput == pending_input = <<>> /\ pending_closes = {}

Selected(surface) == current' = Least(pane_index(surface))

(* The tab bar: switch, add, close; a close that does not fit is lost. The  *)
(* pane the event selects is current for the rest of the handler.           *)
TabBar(surface, hit, slot) ==
  /\ pc = "Input" /\ TakesInput /\ changes < MaxChanges
  /\ surface \in Live /\ current = Least(pane_index(surface))
  /\ CASE hit = "Tab" ->
            /\ IF slot \in bitmap_of(current) THEN switch_tab(slot)
               ELSE UNCHANGED <<sessions, panes>>
            /\ UNCHANGED <<toSession, dropped>>
       [] hit = "Add" -> open_tab /\ UNCHANGED <<toSession, dropped>>
       [] hit = "Next" -> next_tab /\ UNCHANGED <<toSession, dropped>>
       [] hit = "Close" /\ CanClose(slot) ->
            /\ close_tab(slot)
            /\ IF Len(toSession) < Capacity
               THEN toSession' = Append(toSession, CloseMessage(slot)) /\ UNCHANGED dropped
               ELSE dropped' = dropped \cup {slot} /\ UNCHANGED toSession
       [] OTHER -> UNCHANGED <<sessions, panes, toSession, dropped>>
  /\ changes' = IF UNCHANGED <<sessions, panes, toSession, dropped>>
                THEN changes ELSE changes + 1
  /\ UNCHANGED <<current, render_cursor, pending, pc, toAtrium, known, toRender, grid, held,
                 output, gone, foreign>>

(* The first event for another pane selects it. *)
select(surface) ==
  /\ pc = "Input" /\ TakesInput
  /\ surface \in Live /\ current # Least(pane_index(surface))
  /\ Selected(surface)
  /\ UNCHANGED <<sessions, panes, render_cursor, pending, pc, peers, history, changes>>

(* A key for the shell, tagged with the active tab's slot. *)
input ==
  /\ pc = "Input" /\ TakesInput /\ changes < MaxChanges
  /\ Bound(current)
  /\ LET slot == panes[current].active
         message == [kind |-> "Input", slot |-> slot, generation |-> sessions[slot].generation]
     IN IF Len(toSession) < Capacity
        THEN toSession' = Append(toSession, message) /\ UNCHANGED <<pending_input, pc>>
        ELSE pending_input' = <<message>> /\ pc' = "Output" /\ UNCHANGED toSession
  /\ changes' = changes + 1
  /\ UNCHANGED <<terminal, last_sent, pending_closes, pending_render, toAtrium, known, toRender,
                 grid, held, output, gone, history>>

InputDone ==
  /\ pc = "Input" /\ pc' = "Output"
  /\ UNCHANGED <<terminal, pending, peers, history, changes>>

-----------------------------------------------------------------------------
(* Stage 5: Session's replies; one for a slot that is not open is dropped. *)

session_output ==
  /\ pc = "Output" /\ output # <<>>
  /\ LET m == Head(output) IN
     /\ sessions' = IF sessions[m.slot].open
                    THEN [sessions EXCEPT ![m.slot].version = 1 - @, ![m.slot].dirty = TRUE]
                    ELSE sessions
     /\ foreign' = (foreign \/ (/\ sessions[m.slot].open
                                /\ sessions[m.slot].generation # m.generation))
  /\ output' = Tail(output)
  /\ UNCHANGED <<panes, current, render_cursor, pending, pc, toAtrium, known, toRender, grid,
                 toSession, held, gone, dropped, changes>>

OutputDone ==
  /\ pc = "Output" /\ output = <<>> /\ pc' = "Render"
  /\ UNCHANGED <<terminal, pending, peers, history, changes>>

-----------------------------------------------------------------------------
(* Stage 6: rows, the panes taking turns. *)

DirtyPanes == {p \in Panes : Bound(p) /\ sessions[panes[p].active].dirty}

Turn(p) == (p - render_cursor) % MAX_TERMINAL_SESSIONS

Row(p) == LET slot == panes[p].active IN
          [surface |-> panes[p].surface, slot |-> slot,
           generation |-> sessions[slot].generation, version |-> sessions[slot].version]

(* Takes the next row, into pending_render. *)
next_grid_row ==
  IF DirtyPanes = {} THEN pending_render' = <<>> /\ UNCHANGED <<sessions, render_cursor>>
  ELSE LET p == CHOOSE q \in DirtyPanes : \A o \in DirtyPanes : Turn(q) <= Turn(o) IN
       /\ pending_render' = <<Row(p)>>
       /\ sessions' = [sessions EXCEPT ![panes[p].active].dirty = FALSE]
       /\ render_cursor' = (p + 1) % MAX_TERMINAL_SESSIONS

Render ==
  /\ pc = "Render"
  /\ CASE pending_render = <<>> /\ DirtyPanes # {} ->       \* then sent on the next step
            next_grid_row /\ UNCHANGED <<toRender, pc>>
       [] pending_render # <<>> /\ Len(toRender) < Capacity ->
            /\ toRender' = toRender \o pending_render
            /\ next_grid_row /\ pc' = "Report"
       [] OTHER -> pc' = "Report"
                   /\ UNCHANGED <<pending_render, sessions, render_cursor, toRender>>
  /\ UNCHANGED <<panes, current, last_sent, pending_closes, pending_input, toAtrium, known, grid,
                 toSession, held, output, gone, history, changes>>

-----------------------------------------------------------------------------
(* The peers. *)

AtriumLearns ==
  /\ toAtrium # <<>>
  /\ known' = [known EXCEPT ![Head(toAtrium).surface] = <<Head(toAtrium)>>]
  /\ toAtrium' = Tail(toAtrium)
  /\ UNCHANGED <<terminal, pending, pc, toRender, grid, toSession, held, output, gone, history,
                 changes>>

AtriumRelays ==
  /\ toRender # <<>>
  /\ grid' = [grid EXCEPT ![Head(toRender).surface] = <<Head(toRender)>>]
  /\ toRender' = Tail(toRender)
  /\ UNCHANGED <<terminal, pending, pc, toAtrium, known, toSession, held, output, gone, history,
                 changes>>

(* Session keeps one line editor and one command per slot; a close clears   *)
(* them, the first input after it starts them again.                        *)
SessionTakes ==
  /\ toSession # <<>>
  /\ LET m == Head(toSession) IN
     held' = [held EXCEPT ![m.slot] = IF m.kind = "Close" THEN 0
                                      ELSE IF @ = 0 THEN m.generation ELSE @]
  /\ toSession' = Tail(toSession)
  /\ UNCHANGED <<terminal, pending, pc, toAtrium, known, toRender, grid, output, gone, history,
                 changes>>

SessionReplies(slot) ==
  /\ held[slot] # 0 /\ Len(output) < Capacity /\ changes < MaxChanges
  /\ output' = Append(output, [slot |-> slot, generation |-> held[slot]])
  /\ changes' = changes + 1
  /\ UNCHANGED <<terminal, pending, pc, toAtrium, known, toRender, grid, toSession, held, gone,
                 history>>

-----------------------------------------------------------------------------
Init ==
  /\ sessions = [slot \in Slots |-> [open |-> slot = 0, generation |-> IF slot = 0 THEN 1 ELSE 0,
                                     owner |-> 0, version |-> 0, dirty |-> TRUE]]
  /\ panes = [p \in Panes |-> [EmptyPane EXCEPT !.in_use = (p = 0)]]
  /\ current = 0 /\ render_cursor = 0
  /\ last_sent = [p \in Panes |-> <<>>]
  /\ pending_closes = {} /\ pending_input = <<>> /\ pending_render = <<>>
  /\ pc = "Report"
  /\ toAtrium = <<>> /\ known = [s \in Surfaces |-> <<>>]
  /\ toRender = <<>> /\ grid = [s \in Surfaces |-> <<>>]
  /\ toSession = <<>> /\ held = [slot \in Slots |-> 0] /\ output = <<>>
  /\ gone = {} /\ dropped = {} /\ foreign = FALSE /\ changes = 0

Next ==
  \/ Report
  \/ \E s \in Surfaces : Admit(s) \/ Update(s) \/ Revoke(s) \/ select(s)
  \/ RespondDone \/ Close
  \/ \E s \in Surfaces, hit \in {"Tab", "Add", "Next", "Close"}, slot \in Slots :
        TabBar(s, hit, slot)
  \/ input \/ InputDone \/ session_output \/ OutputDone \/ Render
  \/ AtriumLearns \/ AtriumRelays \/ SessionTakes
  \/ \E slot \in Slots : SessionReplies(slot)

Spec == Init /\ [][Next]_vars

-----------------------------------------------------------------------------
TypeOK ==
  /\ current \in Panes /\ render_cursor \in Panes
  /\ pending_closes \subseteq Slots
  /\ \A slot \in Slots : sessions[slot].generation \in 0..GenMod

(* A pane in use always shows one of its own open tabs, every open session *)
(* is in the tab strip of one pane in use, no surface has two panes, and   *)
(* at most one pane is kept without a surface, and only while no other is  *)
(* bound: otherwise an admission would take over a strip that is not its   *)
(* own, or next_tab would not end.                                         *)
PanesOwnTheirTabs ==
  /\ \A p \in Panes : panes[p].in_use => owns(sessions, p, panes[p].active)
  /\ \A slot \in Slots : sessions[slot].open => panes[sessions[slot].owner].in_use
  /\ \A p, q \in Panes : Bound(p) /\ Bound(q) /\ panes[p].surface = panes[q].surface => p = q
  /\ panes[current].in_use
  /\ \A p, q \in Panes : panes[p].in_use /\ ~Bound(p) /\ panes[q].in_use => p = q

(* When nothing is dirty or on its way, a surface shows the active tab of  *)
(* its pane as it is, and Atrium draws that pane's tab strip.              *)
SurfacesShowTheirTab ==
  \A p \in Panes : Bound(p) =>
    LET s == panes[p].surface IN
    /\ /\ ~sessions[panes[p].active].dirty
       /\ \A i \in 1..Len(toRender) : toRender[i].surface # s
       /\ pending_render = <<>> \/ pending_render[1].surface # s
       => grid[s] = <<Row(p)>>
    /\ /\ last_sent[p] = pane_report(p)
       /\ \A i \in 1..Len(toAtrium) : toAtrium[i].surface # s
       => known[s] = pane_report(p)

(* Session never takes the keys of a tab for those of an earlier tab of    *)
(* the same slot: the close of the old one is ahead of them, unless it was *)
(* a tab-bar close that found the channel full.                            *)
KeysReachTheirTab ==
  \A slot \in Slots \ dropped :
    /\ sessions[slot].open /\ held[slot] # 0 /\ held[slot] # sessions[slot].generation
    => \/ slot \in pending_closes
       \/ \E i \in 1..Len(toSession) : toSession[i] = CloseMessage(slot)

(* Output for a tab that was since closed is dropped: it never appears in  *)
(* the tab that has its slot now.                                          *)
OutputReachesItsTab == ~foreign
=============================================================================
