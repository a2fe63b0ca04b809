----------------------------- MODULE InputPath ------------------------------
\* Keys and mouse from the interrupt to the desktop: the two byte rings between
\* the interrupt handlers and the Input service, the decoders that turn PS/2
\* bytes into key, text and pointer messages, the loop of the service that
\* hands them to Shell and Atrium, and Core masking the interrupts and
\* replacing the rings when it restarts the services.
EXTENDS Integers, Sequences, FiniteSets, SequencesExt

CONSTANTS
    Scenarios,     \* what the devices may send, and what goes on around them
    CAPACITY,      \* KEYBOARD_RING_CAPACITY, a divisor of WORD
    WORD,          \* the ring indices wrap here (2^16)
    QueueSlots,    \* how many messages the queue of a reader takes
    SCREEN         \* width and height of the screen

VARIABLES
    smp,       \* whether the handlers run beside the service, on another CPU
    wheel,     \* POINTER_WHEEL, as negotiated with the mouse
    stream,    \* what each device has still to send
    irq,       \* each handler: its position, byte and the indices it loaded
    enabled,   \* *_IRQ_ENABLED of each device
    attached,  \* whether *_RING of each device points to the ring
    core,      \* "up", or how far Core is in a restart
    left,      \* how many restarts and changes of the settings are still to come
    ring,      \* each ring: head, tail and slots
    accepted,  \* the bytes each ring took since it was made
    taken,     \* the bytes the service popped from it
    events,    \* the hardware events that are ready
    asleep,    \* where the service waits: "no", "idle" or "full"
    keys,      \* InputDecoder
    mouse,     \* PointerDecoder
    pending, mask,     \* PENDING and the readers that have it
    turn,              \* the reader a pass has come to, 0 at its top
    pointer,           \* PENDING_POINTER
    settings,          \* the messages on the settings endpoint
    dead,              \* the readers whose endpoint answers with an error
    queued,            \* how many messages the queue of each reader holds
    got, gotPointer,   \* what each reader was sent, keys and pointer apart
    decoded, moved     \* what the decoders made since the service started

device == <<smp, wheel, dead>>
service == <<asleep, keys, mouse, pending, mask, turn, pointer, settings, got, gotPointer, decoded, moved>>
vars == <<smp, wheel, stream, irq, enabled, attached, core, left, ring, accepted, taken, events,
          asleep, keys, mouse, pending, mask, turn, pointer, settings, dead, queued, got, gotPointer,
          decoded, moved>>

Devices == {"keyboard", "mouse"}
Readers == <<"shell", "atrium">>
None == [kind |-> "none"]

-----------------------------------------------------------------------------
(* The keys.                                                                *)

At(codes, c) == CHOOSE i \in DOMAIN codes : codes[i] = c
Table(codes, names, c, default) ==
    IF \E i \in DOMAIN codes : codes[i] = c THEN names[At(codes, c)] ELSE default

\* The keys whose character the layout decides, in rows from left to right.
Keys == <<\h0e, \h16, \h1e, \h26, \h25, \h2e, \h36, \h3d, \h3e, \h46, \h45, \h4e, \h55,
          \h15, \h1d, \h24, \h2d, \h2c, \h35, \h3c, \h43, \h44, \h4d, \h54, \h5b, \h5d,
          \h1c, \h1b, \h23, \h2b, \h34, \h33, \h3b, \h42, \h4b, \h4c, \h52,
          \h1a, \h22, \h21, \h2a, \h32, \h31, \h3a, \h41, \h49, \h4a>>
qwerty_code == <<"grave", "1", "2", "3", "4", "5", "6", "7", "8", "9", "0", "-", "=",
                 "q", "w", "e", "r", "t", "y", "u", "i", "o", "p", "[", "]", "backslash",
                 "a", "s", "d", "f", "g", "h", "j", "k", "l", ";", "'",
                 "z", "x", "c", "v", "b", "n", "m", ",", ".", "/">>
azerty_code == <<"grave", "&", "e", "quote", "'", "(", "-", "e", "_", "c", "a", ")", "=",
                 "a", "z", "e", "r", "t", "y", "u", "i", "o", "p", "^", "$", "*",
                 "q", "s", "d", "f", "g", "h", "j", "k", "l", "m", "u",
                 "w", "x", "c", "v", "b", "n", ",", ";", ":", "!">>

Letters == <<"a", "b", "c", "d", "e", "f", "g", "h", "i", "j", "k", "l", "m",
             "n", "o", "p", "q", "r", "s", "t", "u", "v", "w", "x", "y", "z">>
Capitals == <<"A", "B", "C", "D", "E", "F", "G", "H", "I", "J", "K", "L", "M",
              "N", "O", "P", "Q", "R", "S", "T", "U", "V", "W", "X", "Y", "Z">>

Functions12 == <<"F1", "F2", "F3", "F4", "F5", "F6", "F7", "F8", "F9", "F10", "F11", "F12">>
Named == <<\h76, \h5a, \h66, \h0d, \h05, \h06, \h04, \h0c, \h03, \h0b, \h83, \h0a, \h01, \h09, \h78,
           \h07, \h12, \h59, \h14, \h11, \h58, \h77, \h7c, \h7b, \h79, \h29>>
NamedKeys == <<"ESCAPE", "ENTER", "BACKSPACE", "TAB">> \o Functions12
             \o <<"SHIFT_LEFT", "SHIFT_RIGHT", "CTRL", "ALT", "CAPS_LOCK", "NUM_LOCK",
                  "*", "-", "+", " ">>
Pad == <<\h70, \h69, \h72, \h7a, \h6b, \h73, \h74, \h6c, \h75, \h7d, \h71>>
PadKeys == <<"0", "1", "2", "3", "4", "5", "6", "7", "8", "9", ".">>
Extended == <<\h4a, \h5a, \h75, \h72, \h6b, \h74, \h6c, \h69, \h7d, \h7a, \h71, \h70, \h14, \h11,
              \h1f, \h27>>
ExtendedKeys == <<"/", "ENTER", "UP", "DOWN", "LEFT", "RIGHT", "HOME", "END", "PAGE_UP",
                  "PAGE_DOWN", "DELETE", "INSERT", "CTRL", "ALT", "META", "META">>

map_code(code, extended, layout, num) ==
    IF extended THEN Table(Extended, ExtendedKeys, code, "UNKNOWN")
    ELSE Table(Named, NamedKeys, code,
               IF num /\ code \in Range(Pad) THEN Table(Pad, PadKeys, code, "UNKNOWN")
               ELSE Table(Keys, IF layout = "qwerty" THEN qwerty_code ELSE azerty_code, code,
                          "UNKNOWN"))

character_byte(key) ==
    key \in Range(qwerty_code) \cup Range(azerty_code) \cup Range(PadKeys) \cup {"+", " "}

azerty_altgr_text(code) == Table(<<\h2e, \h4e>>, <<"[", "]">>, code, "")
azerty_text(code, caps) ==
    Table(<<\h1e, \h3d, \h46, \h45, \h52>>,
          IF caps THEN <<"E'", "E grave", "C,", "A grave", "U grave">> ELSE <<"e'", "e grave", "c,", "a grave", "u grave">>,
          code, "")
azerty_shifted_text(code) ==
    Table(<<\h16, \h1e, \h26, \h25, \h2e, \h36, \h3d, \h3e, \h46, \h45, \h4e, \h54, \h4a>>,
          <<"1", "2", "3", "4", "5", "6", "7", "8", "9", "0", "degree", "diaeresis", "section">>,
          code, "")
shifted_ascii(layout, code, byte) ==
    IF layout = "azerty"
    THEN Table(<<\h4c, \h52, \h55, \h3a, \h41, \h49, \h5b>>,
               <<"?", "%", "+", "?", ".", "/", "*">>, code, byte)
    ELSE Table(<<"1", "2", "3", "4", "5", "6", "7", "8", "9", "0", "-", "=", "[", "]", ";", "'",
                 ",", ".", "/", "grave", "backslash">>,
               <<"!", "@", "#", "$", "%", "^", "&", "*", "(", ")", "_", "+", "{", "}", ":", "quote",
                 "<", ">", "?", "tilde", "|">>, byte, byte)

\* The text of a pressed key, "" where it has none.
committed_text(layout, mods, code, key) ==
    LET azerty == layout = "azerty"
        shift == "SHIFT" \in mods
        caps == "CAPS_LOCK" \in mods
        altgr == IF azerty /\ "ALT" \in mods THEN azerty_altgr_text(code) ELSE ""
        plain == IF azerty /\ ~shift THEN azerty_text(code, caps) ELSE ""
        shifted == IF azerty /\ shift THEN azerty_shifted_text(code) ELSE ""
    IN  CASE altgr # "" -> altgr
          [] altgr = "" /\ mods \cap {"CTRL", "ALT"} # {} -> ""
          [] OTHER -> CASE plain # "" -> plain
                        [] shifted # "" -> shifted
                        [] ~character_byte(key) -> ""
                        [] key \in Range(Letters) ->
                             IF shift # caps THEN Capitals[At(Letters, key)] ELSE key
                        [] OTHER -> IF shift THEN shifted_ascii(layout, code, key) ELSE key

KeyboardDecoder(layout) ==
    [extended |-> FALSE, broken |-> FALSE, mods |-> {}, caps |-> FALSE, num |-> TRUE,
     layout |-> layout]

Flag(key) ==
    CASE key \in {"SHIFT_LEFT", "SHIFT_RIGHT"} -> {"SHIFT"}
      [] key \in {"CTRL", "ALT", "META"} -> {key}
      [] OTHER -> {}

update_modifiers(d, key, released) ==
    LET caps == IF key = "CAPS_LOCK" /\ ~released THEN ~d.caps ELSE d.caps
        num == IF key = "NUM_LOCK" /\ ~released THEN ~d.num ELSE d.num
        held == IF released THEN d.mods \ Flag(key) ELSE d.mods \cup Flag(key)
    IN  [d EXCEPT !.caps = caps, !.num = num,
                  !.mods = (held \ {"CAPS_LOCK", "NUM_LOCK"})
                           \cup (IF caps THEN {"CAPS_LOCK"} ELSE {})
                           \cup (IF num THEN {"NUM_LOCK"} ELSE {})]

\* One byte for the keyboard decoder: the decoder after it and the message the
\* service forwards, the text of the key where it has one.
feed_key(d, byte) ==
    CASE byte = \he0 -> <<[d EXCEPT !.extended = TRUE], None>>
      [] byte = \hf0 -> <<[d EXCEPT !.broken = TRUE], None>>
      [] byte = \he1 -> <<[d EXCEPT !.extended = FALSE, !.broken = FALSE], None>>
      [] OTHER ->
           LET key == map_code(byte, d.extended, d.layout, d.num)
               e == update_modifiers([d EXCEPT !.extended = FALSE, !.broken = FALSE], key, d.broken)
               text == IF d.broken THEN "" ELSE committed_text(e.layout, e.mods, byte, key)
           IN  <<e, IF text # "" THEN [kind |-> "text", text |-> text]
                    ELSE [kind |-> "key", key |-> key, mods |-> e.mods,
                          state |-> IF d.broken THEN "Released" ELSE "Pressed"]>>

-----------------------------------------------------------------------------
(* The mouse.                                                               *)

POINTER_SCALE == 65536
gain(acceleration, delta) ==
    LET slow == delta \in -2 .. 2
    IN  delta * 224 * (IF slow THEN 256
                       ELSE [off |-> 256, low |-> 288, medium |-> 352, high |-> 448][acceleration])

\* Division and remainder that round towards zero.
Quotient(n) == IF n >= 0 THEN n \div POINTER_SCALE ELSE -((-n) \div POINTER_SCALE)
Remainder(n) == n - Quotient(n) * POINTER_SCALE

Signed(byte) == IF byte >= 128 THEN byte - 256 ELSE byte
Nibble(byte) == LET n == byte % 16 IN IF n >= 8 THEN n - 16 ELSE n
Bit(byte, value) == (byte \div value) % 2 = 1
Buttons(byte) == {b \in {1, 2, 4} : Bit(byte, b)}
Clamp(n, size) == IF n < 0 THEN 0 ELSE IF n >= size THEN size - 1 ELSE n

PointerDecoder ==
    [packet |-> <<>>, wheel |-> FALSE, x |-> SCREEN[1] \div 2, y |-> SCREEN[2] \div 2,
     xrest |-> 0, yrest |-> 0, buttons |-> {}, acceleration |-> "medium",
     travel |-> (SCREEN[1] \div 2) * POINTER_SCALE]

\* A full packet: the position moves by whole pixels and the rest is kept for
\* the next one. travel follows the exact position, from the last time the
\* edge of the screen stopped the pointer on.
Packet(m) ==
    LET status == m.packet[1]
        right == gain(m.acceleration, Signed(m.packet[2]))
        down == gain(m.acceleration, -Signed(m.packet[3]))
        dx == Quotient(m.xrest + right)
        dy == Quotient(m.yrest + down)
        x == Clamp(m.x + dx, SCREEN[1])
        y == Clamp(m.y + dy, SCREEN[2])
        xrest == Remainder(m.xrest + right)
        buttons == Buttons(status)
        rolled == IF m.wheel THEN -Nibble(m.packet[4]) ELSE 0
        state == CASE buttons \ m.buttons # {} -> "Down"
                   [] m.buttons \ buttons # {} -> "Up"
                   [] OTHER -> "Move"
        empty == [m EXCEPT !.packet = <<>>]
        after == [empty EXCEPT !.x = x, !.y = y, !.xrest = xrest, !.yrest = Remainder(m.yrest + down),
                               !.travel = IF x = m.x + dx THEN @ + right
                                          ELSE x * POINTER_SCALE + xrest]
    IN  CASE Bit(status, 64) \/ Bit(status, 128) -> <<empty, None>>
          [] buttons = m.buttons /\ dx = 0 /\ dy = 0 /\ rolled = 0 -> <<after, None>>
          [] OTHER -> <<[after EXCEPT !.buttons = buttons],
                        [kind |-> "pointer", x |-> x, y |-> y, buttons |-> buttons, state |-> state,
                         wheel |-> rolled]>>

set_wheel(m) == IF m.packet = <<>> THEN [m EXCEPT !.wheel = wheel] ELSE m
feed_pointer(m, byte) ==
    LET next == [m EXCEPT !.packet = Append(@, byte)]
    IN  CASE m.packet = <<>> /\ ~Bit(byte, 8) -> <<m, None>>
          [] Len(next.packet) # (IF m.wheel THEN 4 ELSE 3) -> <<next, None>>
          [] OTHER -> Packet(next)

-----------------------------------------------------------------------------
(* The interrupt handlers, and Core masking them.                           *)

EmptyRing == [head |-> 0, tail |-> 0, slots |-> [i \in 0 .. CAPACITY - 1 |-> 0]]
Handler(at, byte, head, tail) == [at |-> at, byte |-> byte, head |-> head, tail |-> tail]
Quiet == Handler("out", 0, 0, 0)

\* The service, with what it starts from.
Fresh ==
    /\ asleep' = "no" /\ keys' = KeyboardDecoder("azerty") /\ mouse' = PointerDecoder
    /\ pending' = None /\ mask' = {} /\ turn' = 0 /\ pointer' = None
    /\ settings' = <<>>
    /\ queued' = [r \in Range(Readers) |-> 0]
    /\ got' = [r \in Range(Readers) |-> <<>>] /\ gotPointer' = <<>>
    /\ decoded' = <<>> /\ moved' = <<>>

\* Three sample rates, two bytes each, and the question for the identity: the
\* mouse has a wheel if it answers all of them and its identity is 3.
negotiate_pointer_wheel(acks, id) == acks = 7 /\ id = 3

Init ==
    /\ \E s \in Scenarios :
         /\ stream = [keyboard |-> s.keyboard, mouse |-> s.mouse]
         /\ smp = s.smp /\ dead = s.dead
         /\ wheel = negotiate_pointer_wheel(s.acks, s.id)
         /\ left = [restarts |-> s.restarts, changes |-> s.changes]
    /\ irq = [d \in Devices |-> Quiet]
    /\ enabled = [d \in Devices |-> TRUE] /\ attached = [d \in Devices |-> TRUE]
    /\ core = "up"
    /\ ring = [d \in Devices |-> EmptyRing]
    /\ accepted = [d \in Devices |-> <<>>] /\ taken = [d \in Devices |-> <<>>]
    /\ events = {}
    /\ asleep = "no" /\ keys = KeyboardDecoder("azerty") /\ mouse = PointerDecoder
    /\ pending = None /\ mask = {} /\ turn = 0 /\ pointer = None
    /\ settings = <<>>
    /\ queued = [r \in Range(Readers) |-> 0]
    /\ got = [r \in Range(Readers) |-> <<>>] /\ gotPointer = <<>>
    /\ decoded = <<>> /\ moved = <<>>

\* The handler counts itself in and reads its byte, which is gone when the
\* interrupt is off or no ring is attached.
InterruptEnter(d) ==
    /\ irq[d] = Quiet /\ stream[d] # <<>>
    /\ irq' = [irq EXCEPT ![d] = Handler("in", Head(stream[d]), 0, 0)]
    /\ stream' = [stream EXCEPT ![d] = Tail(@)]
    /\ UNCHANGED <<enabled, attached, core, left, ring, accepted, taken, events, queued,
                   device, service>>

InterruptLoad(d) ==
    /\ irq[d].at = "in"
    /\ irq' = [irq EXCEPT ![d] = IF enabled[d] /\ attached[d]
                                 THEN Handler("push", @.byte, ring[d].head, ring[d].tail)
                                 ELSE Quiet]
    /\ UNCHANGED <<stream, enabled, attached, core, left, ring, accepted, taken, events, queued,
                   device, service>>

\* push: a full ring drops the byte; the one that finds the ring empty signals.
push(d) ==
    /\ irq[d].at = "push"
    /\ irq' = [irq EXCEPT ![d] = Quiet]
    /\ LET h == irq[d] IN
       IF (h.head - h.tail) % WORD >= CAPACITY
       THEN UNCHANGED <<ring, accepted, events>>
       ELSE /\ ring' = [ring EXCEPT ![d].slots[h.head % CAPACITY] = h.byte,
                                    ![d].head = (h.head + 1) % WORD]
            /\ accepted' = [accepted EXCEPT ![d] = Append(@, h.byte)]
            /\ events' = IF h.head = h.tail THEN events \cup {d} ELSE events
    /\ UNCHANGED <<stream, enabled, attached, core, left, taken, queued, device, service>>

\* A restart: Core stops the services, masks the interrupts one after the
\* other and waits for the handler to leave before it lets go of its ring,
\* then starts again with rings of its own.
BeginRestart ==
    /\ core = "up" /\ left.restarts > 0
    /\ core' = "stopping" /\ left' = [left EXCEPT !.restarts = @ - 1]
    /\ UNCHANGED <<stream, irq, enabled, attached, ring, accepted, taken, events, queued, device,
                   service>>

MaskIrq(d) ==
    /\ core = "stopping" /\ enabled[d]
    /\ d = "mouse" => ~attached["keyboard"]
    /\ enabled' = [enabled EXCEPT ![d] = FALSE]
    /\ UNCHANGED <<stream, irq, attached, core, left, ring, accepted, taken, events, queued, device,
                   service>>

DetachRing(d) ==
    /\ core = "stopping" /\ ~enabled[d] /\ attached[d]
    /\ irq[d] = Quiet
    /\ attached' = [attached EXCEPT ![d] = FALSE]
    /\ UNCHANGED <<stream, irq, enabled, core, left, ring, accepted, taken, events, queued, device,
                   service>>

Reclaim ==
    /\ core = "stopping" /\ \A d \in Devices : ~attached[d]
    /\ core' = "reclaimed"
    /\ events' = {}
    /\ UNCHANGED <<stream, irq, enabled, attached, left, ring, accepted, taken, queued, device,
                   service>>

StartTasks ==
    /\ core = "reclaimed"
    /\ core' = "up"
    /\ ring' = [d \in Devices |-> EmptyRing]
    /\ accepted' = [d \in Devices |-> <<>>] /\ taken' = [d \in Devices |-> <<>>]
    /\ attached' = [d \in Devices |-> TRUE] /\ enabled' = [d \in Devices |-> TRUE]
    /\ Fresh
    /\ UNCHANGED <<stream, irq, left, events, device>>

-----------------------------------------------------------------------------
(* The loop of the service, and its readers.                                *)

Runs == core = "up" /\ asleep = "no" /\ (smp \/ \A d \in Devices : irq[d] = Quiet)

pop(d) ==
    /\ ring[d].head # ring[d].tail
    /\ ring' = [ring EXCEPT ![d].tail = (@ + 1) % WORD]
    /\ taken' = [taken EXCEPT ![d] = Append(@, ring[d].slots[ring[d].tail % CAPACITY])]
Byte(d) == ring[d].slots[ring[d].tail % CAPACITY]

Sends(r) == r \notin dead /\ queued[r] < QueueSlots
Full(r) == r \notin dead /\ queued[r] >= QueueSlots

\* A held pointer message goes first; a reader that is gone takes it too.
flush_pointer(message) ==
    /\ pointer' = IF message # None /\ Full("atrium") THEN message ELSE None
    /\ gotPointer' = IF message # None /\ Sends("atrium") THEN Append(gotPointer, message)
                     ELSE gotPointer
PointerSlots(message) == IF message # None /\ Sends("atrium") THEN 1 ELSE 0

SetOptions(s) ==
    /\ keys' = [keys EXCEPT !.layout = s.layout]
    /\ mouse' = [mouse EXCEPT !.acceleration = s.acceleration]

\* The settings that wait are taken at the top of a pass.
TakeSettings ==
    /\ Runs /\ turn = 0 /\ settings # <<>>
    /\ SetOptions(Last(settings))
    /\ settings' = <<>>
    /\ UNCHANGED <<stream, irq, enabled, attached, core, left, ring, accepted, taken, events,
                   asleep, pending, mask, turn, pointer, queued, got, gotPointer, decoded, moved, device>>

\* A pass with a key to hand on tries the readers in turn and skips those that
\* have it; it waits where a queue is full, and goes on to the next.
BeginKey ==
    /\ Runs /\ turn = 0 /\ settings = <<>> /\ pending # None
    /\ flush_pointer(pointer)
    /\ queued' = [queued EXCEPT !["atrium"] = @ + PointerSlots(pointer)]
    /\ turn' = 1
    /\ UNCHANGED <<stream, irq, enabled, attached, core, left, ring, accepted, taken, events, asleep,
                   keys, mouse, pending, mask, settings, got, decoded, moved, device>>

HandOnKey ==
    /\ Runs /\ turn > 0
    /\ LET r == Readers[turn]
           sent == r \notin mask /\ Sends(r)
           has == IF Full(r) THEN mask ELSE mask \cup {r}
           done == turn = Len(Readers) /\ has = Range(Readers)
       IN  /\ queued' = [queued EXCEPT ![r] = @ + IF sent THEN 1 ELSE 0]
           /\ got' = [got EXCEPT ![r] = IF sent THEN Append(@, pending) ELSE @]
           /\ asleep' = IF r \notin mask /\ Full(r) THEN "full" ELSE "no"
           /\ mask' = IF done THEN {} ELSE has
           /\ pending' = IF done THEN None ELSE pending
    /\ turn' = (turn + 1) % (Len(Readers) + 1)
    /\ UNCHANGED <<stream, irq, enabled, attached, core, left, ring, accepted, taken, events,
                   keys, mouse, pointer, settings, gotPointer, decoded, moved, device>>

\* A pass that reads a key byte.
ReadKey ==
    /\ Runs /\ turn = 0 /\ settings = <<>> /\ pending = None
    /\ flush_pointer(pointer)
    /\ queued' = [queued EXCEPT !["atrium"] = @ + PointerSlots(pointer)]
    /\ pop("keyboard")
    /\ LET fed == feed_key(keys, Byte("keyboard"))
       IN  /\ keys' = fed[1] /\ pending' = fed[2] /\ mask' = {}
           /\ decoded' = IF fed[2] = None THEN decoded ELSE Append(decoded, fed[2])
    /\ UNCHANGED <<stream, irq, enabled, attached, core, left, accepted, events, asleep, mouse, turn,
                   settings, got, moved, device>>

\* A pass that reads a mouse byte, once no pointer message is held back.
ReadPointer ==
    /\ Runs /\ turn = 0 /\ settings = <<>> /\ pending = None
    /\ ring["keyboard"].head = ring["keyboard"].tail
    /\ pointer = None
    /\ pop("mouse")
    /\ LET fed == feed_pointer(set_wheel(mouse), Byte("mouse"))
       IN  /\ mouse' = fed[1]
           /\ moved' = IF fed[2] = None THEN moved ELSE Append(moved, fed[2])
           /\ flush_pointer(fed[2])
           /\ queued' = [queued EXCEPT !["atrium"] = @ + PointerSlots(fed[2])]
    /\ UNCHANGED <<stream, irq, enabled, attached, core, left, accepted, events, asleep, keys,
                   pending, mask, turn, settings, got, decoded, device>>

\* A pass that finds nothing to do waits.
Sleep ==
    /\ Runs /\ turn = 0 /\ settings = <<>> /\ pending = None
    /\ ring["keyboard"].head = ring["keyboard"].tail
    /\ flush_pointer(pointer)
    /\ queued' = [queued EXCEPT !["atrium"] = @ + PointerSlots(pointer)]
    /\ pointer' = None => ring["mouse"].head = ring["mouse"].tail
    /\ asleep' = "idle"
    /\ UNCHANGED <<stream, irq, enabled, attached, core, left, ring, accepted, taken, events,
                   keys, mouse, pending, mask, turn, settings, got, decoded, moved, device>>

\* wait_on_event_handles: an event of a device, of an endpoint, or the
\* deadline, so that the wait may end at any time.
wait_on_capabilities_or_input ==
    /\ core = "up" /\ asleep # "no"
    /\ asleep' = "no"
    /\ \E d \in SUBSET events : Cardinality(d) <= 1 /\ events' = events \ d
    /\ UNCHANGED <<stream, irq, enabled, attached, core, left, ring, accepted, taken, keys, mouse,
                   pending, mask, turn, pointer, settings, queued, got, gotPointer, decoded, moved, device>>

ReaderTakes(r) ==
    /\ queued[r] > 0 /\ core = "up"
    /\ queued' = [queued EXCEPT ![r] = @ - 1]
    /\ UNCHANGED <<stream, irq, enabled, attached, core, left, ring, accepted, taken, events,
                   device, service>>

Options == {[layout |-> "qwerty", acceleration |-> "high"]}
ChangeSettings ==
    /\ core = "up" /\ left.changes > 0
    /\ left' = [left EXCEPT !.changes = @ - 1]
    /\ \E s \in Options : settings' = Append(settings, s)
    /\ UNCHANGED <<stream, irq, enabled, attached, core, ring, accepted, taken, events,
                   asleep, keys, mouse, pending, mask, turn, pointer, queued, got, gotPointer, decoded,
                   moved, device>>

Next ==
    \/ \E d \in Devices : InterruptEnter(d) \/ InterruptLoad(d) \/ push(d)
    \/ BeginRestart \/ Reclaim \/ StartTasks
    \/ \E d \in Devices : MaskIrq(d) \/ DetachRing(d)
    \/ TakeSettings \/ BeginKey \/ HandOnKey \/ ReadKey \/ ReadPointer \/ Sleep
    \/ wait_on_capabilities_or_input
    \/ \E r \in Range(Readers) : ReaderTakes(r)
    \/ ChangeSettings

Spec == Init /\ [][Next]_vars

-----------------------------------------------------------------------------
TypeOK ==
    /\ \A d \in Devices : /\ ring[d].head \in 0 .. WORD - 1 /\ ring[d].tail \in 0 .. WORD - 1
                          /\ irq[d].at \in {"out", "in", "push"}
    /\ core \in {"up", "stopping", "reclaimed"} /\ asleep \in {"no", "idle", "full"}
    /\ events \subseteq Devices
    /\ \A r \in Range(Readers) : queued[r] \in 0 .. QueueSlots

\* What the ring holds, oldest first.
Held(d) ==
    [i \in 1 .. (ring[d].head - ring[d].tail) % WORD |-> ring[d].slots[(ring[d].tail + i - 1) % CAPACITY]]

\* The ring hands the service exactly the bytes it took, in their order,
\* while the handler pushes from another CPU and the indices wrap; it never
\* holds more than its capacity.
RingExact ==
    \A d \in Devices : /\ accepted[d] = taken[d] \o Held(d)
                       /\ Len(Held(d)) <= CAPACITY

\* No handler is about to write a ring that Core has let go of.
RingOutlivesHandler ==
    \A d \in Devices : irq[d].at = "push" => attached[d] /\ core # "reclaimed"

\* Each reader that lives has every key message once and in order, except the
\* one the service still holds for it; a full or a lost reader takes nothing
\* from the other. The same for the pointer messages of Atrium.
KeysDelivered ==
    /\ \A r \in Range(Readers) \ dead :
         got[r] = IF pending # None /\ r \notin mask THEN Front(decoded) ELSE decoded
    /\ "atrium" \notin dead => gotPointer = IF pointer # None THEN Front(moved) ELSE moved

\* On one CPU the service never goes to sleep over a byte: what its ring holds
\* has its event ready, unless a message to hand on keeps it from reading.
NoSleepOverBytes ==
    ~smp /\ asleep = "idle" /\ core = "up" =>
      \A d \in Devices :
        (d = "mouse" => pointer = None) /\ Held(d) # <<>> => d \in events

\* What the bytes read so far say of a modifier: the last of its keys was
\* pressed and not released, the release being announced by a break prefix
\* in the run of prefixes just before the code.
PrefixBytes == {\he0, \hf0, \he1}
Codes(bytes) == {i \in DOMAIN bytes : bytes[i] \notin PrefixBytes}
RunOf(bytes, i) == {j \in 1 .. i - 1 : \A k \in j .. i - 1 : bytes[k] \in PrefixBytes}
AfterReset(bytes, i, p) ==
    \E j \in RunOf(bytes, i) : bytes[j] = p /\ \A k \in j .. i - 1 : bytes[k] # \he1
HeldAt(bytes) ==
    LET flags == [i \in Codes(bytes) |->
                    Flag(map_code(bytes[i], AfterReset(bytes, i, \he0), "qwerty", TRUE))]
        last == {i \in DOMAIN flags : \A j \in DOMAIN flags : j > i => flags[j] # flags[i]}
    IN  UNION {flags[i] : i \in {k \in last : ~AfterReset(bytes, k, \hf0)}}

\* The modifiers of the decoder are those the bytes say, through prefixes in
\* any order, resets and changes of the layout.
ModifiersFollow ==
    keys.mods \cap {"SHIFT", "CTRL", "ALT", "META"} = HeldAt(taken["keyboard"])

\* The pointer stays on the screen and no fraction of a pixel is lost or made
\* up: away from the edges its position and the rest are the exact sum of the
\* accelerated movements, in both directions.
PointerExact ==
    /\ mouse.x \in 0 .. SCREEN[1] - 1 /\ mouse.y \in 0 .. SCREEN[2] - 1
    /\ mouse.xrest \in 1 - POINTER_SCALE .. POINTER_SCALE - 1
    /\ mouse.x * POINTER_SCALE + mouse.xrest = mouse.travel

\* The messages tell every change of the buttons: from one to the next the
\* buttons differ exactly when the state is Down or Up, and a button that is
\* new makes it Down.
ButtonEdges ==
    /\ \A i \in DOMAIN moved :
         LET before == IF i = 1 THEN {} ELSE moved[i - 1].buttons IN
         /\ (moved[i].state = "Move") = (moved[i].buttons = before)
         /\ (moved[i].state = "Down") = (moved[i].buttons \ before # {})
    /\ moved # <<>> => Last(moved).buttons = mouse.buttons
    /\ moved = <<>> => mouse.buttons = {}

\* With the QWERTY layout every printable character has a key, with or without
\* Shift; with AZERTY every letter and digit has.
Types(layout) ==
    {committed_text(layout, mods, code, map_code(code, FALSE, layout, FALSE)) :
       code \in Range(Keys) \cup {\h29}, mods \in {{}, {"SHIFT"}}}
Ascii == Range(Letters) \cup Range(Capitals) \cup Range(PadKeys)
         \cup {" ", "!", "quote", "#", "$", "%", "&", "'", "(", ")", "*", "+", ",", "-", "/", ":", ";",
               "<", "=", ">", "?", "@", "[", "backslash", "]", "^", "_", "grave", "{", "|", "}", "tilde"}
KeyboardComplete ==
    /\ Ascii \subseteq Types("qwerty")
    /\ Range(Letters) \cup Range(Capitals) \cup Range(PadKeys) \subseteq Types("azerty")
=============================================================================
