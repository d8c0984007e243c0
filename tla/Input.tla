------------------------------- MODULE Input -------------------------------
(***************************************************************************)
(* The input of the client: the SDL events of the user's keyboard, mouse,   *)
(* touchscreen and gamepads go through the mouse capture (mouse_capture.c)   *)
(* and the input manager (input_manager.c), or through screen_otg.c in OTG   *)
(* mode, to the processors that the options select: SDK messages             *)
(* (keyboard_sdk.c, mouse_sdk.c) or HID reports (hid/, uhid/, usb/), and     *)
(* change what the device sees pressed.                                      *)
(*                                                                          *)
(* Messages are sent over one stream, in order: their effect on the device   *)
(* is immediate here.  Only the reports of the device about its locks, which *)
(* race with the keys, are delayed.  A full queue drops the messages that    *)
(* may be dropped (Controller).  Positions, axes and wheel amounts are left  *)
(* out, and so is which panel or window a shortcut opens.                    *)
(***************************************************************************)
EXTENDS Naturals, Sequences, FiniteSets

CONSTANTS
  Settings,     \* the options of the sessions followed, and what the user has at hand
  ShortcutMods, \* the modifiers that make a shortcut
  MaxKeys,      \* keys of a HID report (6)
  MaxPads,      \* slots for gamepads (8)
  MaxOutputs,   \* reports of the device not processed yet
  QueueFills,   \* the queue may be full, for one event of the session
  None

Modifiers == {"lctrl", "lshift", "lalt"}
LockKeys  == {"caps", "num"}
Letters   == {"a", "h", "v", "z"}
Digits    == {"1", "2"}
KpNav     == {"kp1"}
Special   == Modifiers \cup {"up"}

\* What cli.c and the keyboard and mouse processors accept.  OTG only has the
\* processors that need no server.
ASSUME InputAssumption ==
  /\ ShortcutMods \subseteq Modifiers /\ MaxKeys \in Nat /\ MaxPads \in Nat
  /\ \A s \in Settings :
       /\ {s.control, s.otg, s.video, s.forwardRepeat, s.autosync, s.legacy, s.hover, s.touch}
          \subseteq BOOLEAN
       /\ {s.kp, s.mp} \subseteq IF s.otg THEN {"none", "aoa"} ELSE {"none", "sdk", "uhid", "aoa"}
       /\ s.mode \in {"mixed", "text", "raw"}
       /\ s.keys \subseteq LockKeys \cup Letters \cup Digits \cup KpNav \cup Special
       /\ None \notin s.pads

VARIABLES
  settings,  \* the options of this session
  paused,    \* the display is paused
  im,        \* input manager: the buttons it knows pressed, the virtual finger
  hidKeys,   \* keys pressed according to the HID keyboard
  deviceMod, \* locks of the device according to the UHID keyboard
  synced,    \* the AOA keyboard has synchronised the locks
  capture,   \* mouse capture: active, and the capture key pressed
  slots,     \* of each slot: its gamepad and whether a button of it is pressed
  outputs,   \* reports of the device about its locks, not processed yet
  host,      \* what the user holds, each with the circumstances of its press
  dev,       \* what the device sees
  excuses,   \* what happened that may leave something pressed on the device
  settled,   \* if a key was pressed since the locks last changed, all reports processed
  typed      \* how the last character reached the device

hidVars == <<hidKeys, deviceMod, synced, outputs>>
vars == <<settings, paused, im, hidVars, capture, slots, host, dev, excuses, settled, typed>>

Slot       == 0..MaxPads - 1
Empty      == [pad |-> None, pressed |-> FALSE]

SymDiff(S, T) == (S \ T) \cup (T \ S)
Toggle(S, x, in) == IF in THEN S \cup {x} ELSE S \ {x}
Without(f, x) == [y \in DOMAIN f \ {x} |-> f[y]]
With(f, x, v) == [y \in DOMAIN f \cup {x} |-> IF y = x THEN v ELSE f[y]]

Relative == settings.mp \in {"uhid", "aoa"}
Hid      == settings.kp \in {"uhid", "aoa"}

Init ==
  /\ settings \in Settings
  /\ paused = FALSE /\ im = [buttons |-> {}, vfinger |-> FALSE]
  /\ hidKeys = {} /\ deviceMod = {} /\ synced = FALSE /\ outputs = <<>>
  /\ capture = [active |-> Relative, key |-> None]
  /\ slots = [i \in Slot |-> Empty]
  /\ \E locks \in SUBSET (settings.keys \cap LockKeys) :
       host = [keys |-> <<>>, buttons |-> <<>>, fingers |-> <<>>, locks |-> locks,
               pads |-> <<>>]
  /\ dev = [injected |-> {}, report |-> {}, buttons |-> {}, pointers |-> {}, locks |-> {},
            pads |-> [i \in Slot |-> "none"]]
  /\ excuses = {} /\ settled = "no" /\ typed = "fine"

\* Some of the messages that a handler pushes may find the queue full.
Losses(kinds) == IF QueueFills /\ "full" \notin excuses THEN SUBSET kinds ELSE {{}}

Excuse(release, lost) ==
  excuses' = excuses \cup (IF release THEN {"release"} ELSE {})
                     \cup (IF lost # {} THEN {"full"} ELSE {})

-----------------------------------------------------------------------------
(* What the device does of a message                                       *)

Inject(d, code, down) == [d EXCEPT !.injected = Toggle(@, code, down)]

\* Mutant: more keys than a report holds are truncated.
ReportTruncated(keys, mods) ==
  (CHOOSE S \in SUBSET keys :
     IF Cardinality(keys) > MaxKeys THEN Cardinality(S) = MaxKeys ELSE S = keys) \cup mods

\* The report of a HID keyboard: the phantom state if too many keys are pressed.
Report(keys, mods) ==
  (IF Cardinality(keys) > MaxKeys THEN {"phantom"} ELSE keys) \cup mods

\* Android toggles a lock when its key is released.
HidReport(d, report) ==
  [d EXCEPT !.report = report, !.locks = SymDiff(@, (d.report \ report) \cap LockKeys)]

\* A click of the mouse or of a finger; the buttons matter to the mouse only.
Click(d, pointer, down, buttons) ==
  [d EXCEPT !.buttons = buttons,
            !.pointers = Toggle(@, pointer, down \/ (pointer = "mouse" /\ buttons # {}))]

-----------------------------------------------------------------------------
(* The keyboard                                                             *)

Mods(h)         == DOMAIN h.keys \cap Modifiers
IsShortcut(k, h) == Mods(h) \cap ShortcutMods # {} \/ k \in ShortcutMods
Shift(h)        == "lshift" \in DOMAIN h.keys
Ctrl(h)         == "lctrl" \in DOMAIN h.keys

\* The shortcuts that press and release a key of the device.
Relayed == [h |-> "home", b |-> "back", s |-> "switch", m |-> "menu", p |-> "power",
            up |-> "volume"]

\* What decides how an event of key `k` is handled: a key released under other
\* circumstances than it was pressed may remain pressed on the device.  The pause
\* matters to what is sent, and only some shortcuts press a key of the device.
Circumstance(k, h) ==
  <<paused /\ (IsShortcut(k, h) => k \in DOMAIN Relayed), IsShortcut(k, h),
    IsShortcut(k, h) /\ Shift(h), settings.mode = "text" /\ Ctrl(h),
    k \in KpNav /\ (Shift(h) \/ "num" \in h.locks)>>

\* The keyboard as the user holds it once `k` is pressed, repeated or released.
Held(k, down, repeat) ==
  IF repeat THEN host
  ELSE LET h == [host EXCEPT !.keys = IF down THEN With(@, k, <<>>) ELSE Without(@, k),
                             !.locks = IF down /\ k \in LockKeys THEN SymDiff(@, {k}) ELSE @]
       IN IF down THEN [h EXCEPT !.keys[k] = Circumstance(k, h)] ELSE h

Hit(k, down, repeat) ==
  /\ k \in settings.keys
  /\ down => (repeat <=> k \in DOMAIN host.keys)
  /\ ~down => ~repeat /\ k \in DOMAIN host.keys
  /\ host' = Held(k, down, repeat)
  /\ settings.kp = "uhid" => Len(outputs) < MaxOutputs

\* The client does not tell the device of the event.
Kept(k, h) == k \in ShortcutMods \/ (~settings.otg /\ (paused \/ IsShortcut(k, h)))

\* HID reports hold the modifiers of the last event, those of a shortcut included.
KeyExcuse(k, down, lost) ==
  Excuse(\/ k \in DOMAIN host.keys /\ host.keys[k] # Circumstance(k, host')
         \/ ~down /\ k \in dev.report \cap Modifiers /\ Kept(k, host'), lost)

\* The locks are in doubt once a lock key is released that the last report did not
\* hold, as too many keys were, until the device reports its locks.
Unsettled == IF settled = "doubt" THEN "doubt" ELSE "no"
Unseen(k) == settled' = IF k \in LockKeys THEN Unsettled ELSE settled

\* sc_screen_otg_handle_event and sc_screen_handle_event: the capture sees first
\* the events that it may consume.
Captures == settings.otg \/ Relative

\* A key that is not a capture key cancels the capture when it is released.
OtherKey(down) == IF Captures /\ ~down THEN [capture EXCEPT !.key = None] ELSE capture

CaptureKey(k, down, repeat) ==
  /\ Captures /\ k \in ShortcutMods /\ Hit(k, down, repeat)
  /\ capture' =
       IF down THEN [capture EXCEPT !.key = IF @ = None THEN k ELSE None]
       ELSE [active |-> IF capture.key = k THEN ~capture.active ELSE capture.active,
             key |-> None]
  /\ KeyExcuse(k, down, {})
  /\ UNCHANGED <<settings, paused, im, hidVars, slots, dev, settled, typed>>

\* Only the volume is repeated, only pausing changes the client.
Relays(k, repeat) ==
  /\ settings.kp # "none" /\ k \in DOMAIN Relayed
  /\ ~Shift(host') /\ ~paused /\ (repeat => k = "up")

ShortcutKey(k, down, repeat, lost) ==
  /\ ~settings.otg /\ ~(Captures /\ k \in ShortcutMods)
  /\ Hit(k, down, repeat) /\ IsShortcut(k, host')
  /\ dev' = IF Relays(k, repeat) /\ lost = {} THEN Inject(dev, Relayed[k], down) ELSE dev
  /\ paused' = IF k = "z" /\ settings.video /\ down /\ ~repeat THEN ~Shift(host') ELSE paused
  /\ capture' = OtherKey(down)
  /\ KeyExcuse(k, down, lost) /\ Unseen(k)
  /\ UNCHANGED <<settings, im, hidVars, slots, typed>>

\* Ctrl+v first sends the clipboard; if that fails, or in legacy mode, the key is
\* not injected.
Pastes(k, down, repeat) ==
  /\ settings.autosync /\ ~settings.otg
  /\ k = "v" /\ down /\ ~repeat /\ Ctrl(host') /\ ~Shift(host')

Forwarded(k, down, repeat, lost) ==
  /\ settings.kp # "none" /\ ~paused
  /\ Pastes(k, down, repeat) => ~settings.legacy /\ "clipboard" \notin lost

\* Mutant: the numeric keypad is always a key.
ConvertKeypad(k) ==
  \/ k \in Special \cup KpNav
  \/ k \in Letters /\ (settings.mode = "text" => Ctrl(host'))

\* convert_keycode
Convert(k) ==
  \/ k \in Special
  \/ k \in KpNav /\ "num" \notin host'.locks /\ ~Shift(host')
  \/ k \in Letters /\ (settings.mode = "text" => Ctrl(host'))
  \/ settings.mode = "raw" /\ k \in Digits \cup KpNav

\* The text event that SDL adds to the press of a key, and what becomes of it.
Character(k) ==
  /\ ~Ctrl(host') /\ "lalt" \notin DOMAIN host'.keys
  /\ k \in Letters \cup Digits \/ (k \in KpNav /\ ("num" \in host'.locks \/ Shift(host')))
TextInjected(k) ==
  /\ settings.mode # "raw"
  /\ settings.mode = "mixed" => k \notin Letters

SdkKey(k, down, repeat, lost) ==
  LET key  == (repeat => settings.forwardRepeat) /\ Convert(k)
      text == down /\ Character(k) /\ TextInjected(k)
  IN /\ dev' = IF key /\ "key" \notin lost THEN Inject(dev, k, down) ELSE dev
     /\ typed' = IF ~down \/ repeat \/ lost # {} \/ ~Character(k) THEN typed
                 ELSE IF key /\ text THEN "twice" ELSE IF key \/ text THEN "fine" ELSE "never"
     /\ UNCHANGED <<hidVars, settled>>

\* sc_keyboard_uhid_synchronize_mod, or push_mod_lock_state before the first key:
\* the locks to toggle.
Unsynchronized(k) ==
  IF settings.kp = "uhid"
  THEN IF k \in LockKeys THEN {} ELSE SymDiff(host'.locks, deviceMod)
  ELSE IF synced THEN {} ELSE host'.locks

\* USB HID repeats nothing.  The modifiers are those of the event, not keys.
HidKey(k, down, repeat, lost) ==
  LET keys   == IF k \in Modifiers THEN hidKeys ELSE Toggle(hidKeys, k, down)
      diff   == Unsynchronized(k)
      sync   == IF diff = {} \/ "mods" \in lost THEN dev ELSE HidReport(dev, diff)
      key    == IF "key" \in lost THEN sync ELSE HidReport(sync, Report(keys, Mods(host')))
      Leds(d, e) == IF settings.kp = "uhid" /\ d.locks # e.locks THEN <<e.locks>> ELSE <<>>
  IN /\ ~repeat
     /\ hidKeys' = keys /\ dev' = key
     /\ deviceMod' = IF settings.kp = "aoa" THEN deviceMod
                     ELSE IF k \in LockKeys THEN SymDiff(deviceMod, {k}) ELSE host'.locks
     /\ synced' = (synced \/ diff = {} \/ "mods" \notin lost)
     /\ outputs' = outputs \o Leds(dev, sync) \o Leds(sync, key)
     /\ settled' = IF settings.kp = "aoa" THEN settled
                   ELSE IF k \in LockKeys
                     THEN IF ~down /\ k \notin dev.report THEN "doubt" ELSE Unsettled
                   ELSE IF ~down \/ settled = "doubt" THEN settled
                   ELSE IF outputs = <<>> /\ keys \cap LockKeys = {} THEN "yes" ELSE "no"
     /\ UNCHANGED typed

PlainKey(k, down, repeat, lost) ==
  /\ ~(Captures /\ k \in ShortcutMods)
  /\ Hit(k, down, repeat) /\ (settings.otg \/ ~IsShortcut(k, host'))
  /\ "clipboard" \in lost => Pastes(k, down, repeat)
  /\ capture' = OtherKey(down)
  /\ KeyExcuse(k, down, lost)
  /\ \/ /\ Forwarded(k, down, repeat, lost)
        /\ \/ ~Hid /\ SdkKey(k, down, repeat, lost)
           \/ Hid /\ HidKey(k, down, repeat, lost)
     \/ /\ ~Forwarded(k, down, repeat, lost) \/ (Hid /\ repeat)
        /\ Unseen(k)
        /\ UNCHANGED <<hidVars, dev, typed>>
  /\ UNCHANGED <<settings, paused, im, slots>>

Key ==
  \E k \in settings.keys, down, repeat \in BOOLEAN :
    \/ CaptureKey(k, down, repeat)
    \/ \E lost \in Losses({"key"}) : ShortcutKey(k, down, repeat, lost)
    \/ \E lost \in Losses({"key", "mods", "clipboard"}) : PlainKey(k, down, repeat, lost)

\* Mutant: the reports of the device are ignored.
HidOutputIgnored ==
  /\ outputs # <<>> /\ outputs' = Tail(outputs)
  /\ settled' = IF settled = "doubt" THEN "no" ELSE settled
  /\ UNCHANGED <<settings, paused, im, hidKeys, deviceMod, synced, capture, slots, host, dev,
                 excuses, typed>>

\* sc_keyboard_uhid_process_hid_output, run on the main thread
HidOutput ==
  /\ outputs # <<>>
  /\ deviceMod' = Head(outputs) /\ outputs' = Tail(outputs)
  /\ settled' = IF settled = "doubt" THEN "no" ELSE settled
  /\ UNCHANGED <<settings, paused, im, hidKeys, synced, capture, slots, host, dev, excuses,
                 typed>>

\* The user changes a lock in another window.
ToggleOutside ==
  \E k \in settings.keys \cap LockKeys :
    /\ host.keys = <<>>
    /\ host' = [host EXCEPT !.locks = SymDiff(@, {k})] /\ settled' = Unsettled
    /\ UNCHANGED <<settings, paused, im, hidVars, capture, slots, dev, excuses, typed>>

-----------------------------------------------------------------------------
(* The mouse and the touchscreen                                            *)

Binding(b) ==
  IF b = "left" THEN "click" ELSE IF Shift(host) THEN settings.sec ELSE settings.pri

\* What decides how an event of button `b` is handled.
ButtonCircumstance(b, outside) ==
  <<paused, capture.active, b # "left" /\ Shift(host), outside>>

Push(b, down, outside) ==
  /\ b \in settings.buttons /\ (down <=> b \notin DOMAIN host.buttons)
  /\ outside => b = "left" /\ settings.video /\ ~Relative
  /\ host' = [host EXCEPT !.buttons =
                IF down THEN With(@, b, ButtonCircumstance(b, outside)) ELSE Without(@, b)]

ButtonExcuse(b, down, outside, other, lost) ==
  Excuse(other \/ (~down /\ host.buttons[b] # ButtonCircumstance(b, outside)), lost)

mouseFrame == UNCHANGED <<settings, paused, hidVars, slots, settled, typed>>

\* Without the capture, a release captures the mouse and nothing is forwarded.
CaptureClick(b, down) ==
  /\ Captures /\ ~capture.active
  /\ Push(b, down, FALSE)
  /\ capture' = [capture EXCEPT !.active = @ \/ ~down]
  /\ ButtonExcuse(b, down, FALSE, ~down /\ b \in dev.buttons, {})
  /\ mouseFrame /\ UNCHANGED <<im, dev>>

\* The HID reports of OTG mode hold the buttons as they are.
OtgClick(b, down) ==
  /\ settings.otg /\ capture.active
  /\ Push(b, down, FALSE)
  /\ dev' = IF settings.mp = "none" THEN dev ELSE [dev EXCEPT !.buttons = DOMAIN host'.buttons]
  /\ ButtonExcuse(b, down, FALSE, FALSE, {})
  /\ mouseFrame /\ UNCHANGED <<im, capture>>

Released(b, down) == IF down THEN im.buttons ELSE im.buttons \ {b}

\* The binding of the button is not a click.
BoundClick(b, down, lost) ==
  /\ ~settings.otg /\ ~(Captures /\ ~capture.active)
  /\ settings.control /\ ~paused /\ Binding(b) # "click"
  /\ Push(b, down, FALSE)
  /\ im' = [im EXCEPT !.buttons = Released(b, down)]
  /\ dev' = IF Binding(b) \in {"back", "home", "switch"} /\ settings.kp # "none" /\ lost = {}
            THEN Inject(dev, Binding(b), down) ELSE dev
  /\ ButtonExcuse(b, down, FALSE, FALSE, lost)
  /\ mouseFrame /\ UNCHANGED capture

\* A double click on a border resizes the window; a paused display, or no mouse
\* processor, ignores clicks.
LostClick(b, down, outside) ==
  /\ ~settings.otg /\ ~(Captures /\ ~capture.active)
  /\ settings.control /\ ~paused => Binding(b) = "click"
  /\ outside \/ settings.mp = "none" \/ paused
  /\ Push(b, down, outside)
  /\ im' = [im EXCEPT !.buttons = Released(b, down)]
  /\ ButtonExcuse(b, down, outside, FALSE, {})
  /\ mouseFrame /\ UNCHANGED <<dev, capture>>

ChangesFinger(b, down) ==
  /\ b = "left" /\ (down <=> ~im.vfinger)
  /\ down => Ctrl(host) \/ Shift(host)

\* Mutant: the virtual finger changes even if its event is not pushed.
FingerUnsure(b, down, lost) ==
  IF ChangesFinger(b, down) /\ ~Relative THEN down ELSE im.vfinger

\* The virtual finger once its event is pushed: it changes only if that succeeds.
Finger(b, down, lost) ==
  IF ChangesFinger(b, down) /\ ~Relative /\ "finger" \notin lost THEN down ELSE im.vfinger

\* Mutant: a button released is still reported.
ButtonsKept(b, down) == im.buttons \cup {b}

Buttons(b, down) == Toggle(im.buttons, b, down)

\* A click that reaches the mouse processor, and the event of the virtual finger
\* that simulates a pinch.
ForwardedClick(b, down, lost) ==
  LET buttons == Buttons(b, down)
      finger  == im.vfinger \/ ChangesFinger(b, down)
      clicked == IF "click" \in lost THEN dev
                 ELSE IF Relative THEN [dev EXCEPT !.buttons = buttons]
                 ELSE Click(dev, IF finger THEN "finger" ELSE "mouse", down, buttons)
      sent    == ChangesFinger(b, down) /\ ~Relative /\ "finger" \notin lost
  IN /\ ~settings.otg /\ ~(Captures /\ ~capture.active)
     /\ settings.mp # "none" /\ ~paused
     /\ settings.control => Binding(b) = "click"
     /\ Push(b, down, FALSE)
     /\ im' = [buttons |-> buttons, vfinger |-> Finger(b, down, lost)]
     /\ dev' = IF sent THEN [clicked EXCEPT !.pointers = Toggle(@, "virtual", down)] ELSE clicked
     /\ ButtonExcuse(b, down, FALSE, finger /\ im.buttons \cup {b} # {"left"}, lost)
     /\ mouseFrame /\ UNCHANGED capture

\* Motion reports the buttons; hovering is not forwarded unless asked for.
Move(lost) ==
  /\ settings.buttons # {} /\ settings.mp # "none" /\ ~paused /\ (Captures => capture.active)
  /\ dev' = IF lost = {} /\ (Relative \/ im.buttons # {} \/ settings.hover)
            THEN [dev EXCEPT !.buttons = IF settings.otg THEN DOMAIN host.buttons ELSE im.buttons]
            ELSE dev
  /\ Excuse(FALSE, lost)
  /\ mouseFrame /\ UNCHANGED <<im, host, capture>>

\* A HID scroll report has no button pressed (sc_hid_mouse_generate_input_from_scroll).
Scroll(lost) ==
  /\ settings.buttons # {} /\ settings.mp # "none" /\ ~paused /\ (Captures => capture.active)
  /\ dev' = IF Relative /\ lost = {} THEN [dev EXCEPT !.buttons = {}] ELSE dev
  /\ Excuse(Relative /\ DOMAIN host.buttons # {}, lost)
  /\ mouseFrame /\ UNCHANGED <<im, host, capture>>

\* Touch events reach the SDK mouse only.
Touch(down, lost) ==
  /\ settings.touch /\ (down <=> host.fingers = <<>>)
  /\ host' = [host EXCEPT !.fingers = IF down THEN <<paused>> ELSE <<>>]
  /\ dev' = IF settings.mp = "sdk" /\ ~paused /\ lost = {}
            THEN [dev EXCEPT !.pointers = Toggle(@, "touch", down)] ELSE dev
  /\ Excuse(~down /\ host.fingers # <<paused>>, lost)
  /\ mouseFrame /\ UNCHANGED <<im, capture>>

\* The window loses the focus.  The window events of the mirror are handled
\* before the capture, which never sees this one (screen.c).
FocusLost ==
  /\ settings.otg
  /\ capture' = [capture EXCEPT !.active = FALSE]
  /\ mouseFrame /\ UNCHANGED <<im, host, dev, excuses>>

Mouse ==
  \/ \E b \in settings.buttons, down, outside \in BOOLEAN :
       \/ CaptureClick(b, down) \/ OtgClick(b, down) \/ LostClick(b, down, outside)
       \/ \E lost \in Losses({"key"}) : BoundClick(b, down, lost)
       \/ \E lost \in Losses({"click", "finger"}) : ForwardedClick(b, down, lost)
  \/ \E lost \in Losses({"event"}) :
       Move(lost) \/ Scroll(lost) \/ \E down \in BOOLEAN : Touch(down, lost)
  \/ FocusLost

-----------------------------------------------------------------------------
(* The gamepads                                                             *)

SlotOf(p) == {i \in Slot : slots[i].pad = p /\ \A j \in 0..i - 1 : slots[j].pad # p}

padFrame == UNCHANGED <<settings, paused, im, hidVars, capture, settled, typed>>

\* sc_hid_gamepad_generate_open, and UHID_CREATE that no queue drops
Open(p) ==
  LET free == SlotOf(None)
  IN /\ slots' = [i \in Slot |-> IF i \in free THEN [pad |-> p, pressed |-> FALSE] ELSE slots[i]]
     /\ dev' = [dev EXCEPT !.pads = [i \in Slot |-> IF i \in free THEN "idle" ELSE @[i]]]

PadAdded(p) ==
  /\ p \in settings.pads \ DOMAIN host.pads
  /\ host' = [host EXCEPT !.pads = With(@, p, <<>>)]
  /\ Open(p)
  /\ padFrame /\ UNCHANGED excuses

\* Mutant: the slot is freed, the device keeps the gamepad.
CloseKeeping(p) ==
  /\ slots' = [i \in Slot |-> IF i \in SlotOf(p) THEN Empty ELSE slots[i]]
  /\ UNCHANGED dev

\* sc_hid_gamepad_generate_close, and UHID_DESTROY
Close(p) ==
  /\ slots' = [i \in Slot |-> IF i \in SlotOf(p) THEN Empty ELSE slots[i]]
  /\ dev' = [dev EXCEPT !.pads = [i \in Slot |-> IF i \in SlotOf(p) THEN "none" ELSE @[i]]]

PadRemoved(p) ==
  /\ p \in DOMAIN host.pads
  /\ host' = [host EXCEPT !.pads = Without(@, p)]
  /\ Close(p)
  /\ padFrame /\ UNCHANGED excuses

\* A button or an axis: the whole state of the gamepad is sent, unless the display
\* is paused or the gamepad has no slot.
PadInput(p, down, lost) ==
  /\ p \in DOMAIN host.pads /\ (down <=> host.pads[p] = <<>>)
  /\ host' = [host EXCEPT !.pads = With(@, p, IF down THEN <<paused>> ELSE <<>>)]
  /\ slots' = IF paused THEN slots
              ELSE [i \in Slot |-> IF i \in SlotOf(p) THEN [slots[i] EXCEPT !.pressed = down]
                                   ELSE slots[i]]
  /\ dev' = IF paused \/ lost # {} THEN dev
            ELSE [dev EXCEPT !.pads = [i \in Slot |->
                    IF i \in SlotOf(p) THEN IF down THEN "pressed" ELSE "idle" ELSE @[i]]]
  /\ Excuse(~down /\ host.pads[p] # <<paused>>, lost)
  /\ padFrame

Pads ==
  \E p \in settings.pads :
    \/ PadAdded(p) \/ PadRemoved(p)
    \/ \E down \in BOOLEAN, lost \in Losses({"pad"}) : PadInput(p, down, lost)

-----------------------------------------------------------------------------
Next == Key \/ HidOutput \/ ToggleOutside \/ Mouse \/ Pads

Spec == Init /\ [][Next]_vars

-----------------------------------------------------------------------------
(* Properties                                                               *)

\* Once the user holds nothing, the device sees no key, button or pointer pressed,
\* unless something was repeated or released under other circumstances than it was
\* pressed (paused, with other modifiers, not captured, on a border), a modifier of a
\* HID report was released as part of a shortcut, a HID wheel or a second button
\* disturbed the mouse, or the queue was full (input_manager.c).
NothingStuck ==
  excuses = {} =>
    /\ host.keys = <<>> /\ host.buttons = <<>> => dev.injected = {} /\ dev.report = {}
    /\ host.buttons = <<>> => dev.buttons = {} /\ dev.pointers \subseteq {"touch"}
    /\ host.fingers = <<>> => "touch" \notin dev.pointers

\* The keys that were pressed neither paused nor as a shortcut.
Pressed ==
  {k \in DOMAIN host.keys \ Modifiers :
     settings.otg \/ (~host.keys[k][1] /\ ~host.keys[k][2])}

\* Until then, the device sees the buttons that the input manager knows and, on a
\* HID keyboard, the keys that the user holds, or the phantom state if they are too
\* many, whatever was reported of the locks in between (hid_keyboard.c:283).
DeviceFollows ==
  excuses = {} =>
    /\ settings.mp # "none" /\ ~settings.otg => dev.buttons = im.buttons
    /\ Hid /\ ~settings.legacy =>
         dev.report \ Modifiers = IF Cardinality(Pressed) > MaxKeys THEN {"phantom"} ELSE Pressed

\* Whatever is dropped, the input manager knows whether the device has the virtual
\* finger, which is never used without absolute positions, and no button that is
\* not held is known pressed, if the mouse is not captured (input_manager.c:640).
InputManagerInSync ==
  /\ im.vfinger <=> "virtual" \in dev.pointers
  /\ ~(Relative /\ im.vfinger)
  /\ ~Relative => im.buttons \subseteq DOMAIN host.buttons

\* In every injection mode, a character typed reaches the device exactly once, as a
\* key or as text: convert_keycode and process_text complete each other.
TypedOnce == typed = "fine"

\* "will re-synchronize on next key press or HID output anyway"
\* (keyboard_uhid.c:44): once a key that is not a lock is pressed and the device has
\* reported its locks, they are those of the computer, unless a lock key was released
\* while the report was full, which only a report of the device repairs.
LocksCatchUp ==
  settled = "yes" /\ outputs = <<>> /\ "full" \notin excuses => dev.locks = host.locks

\* Every slot in use is that of a gamepad plugged in, no two of the same one; the
\* device has exactly these gamepads, even if the queue is full, and sees what is
\* pressed on them (hid_gamepad.c:238).
PadsMatch ==
  \A i \in Slot :
    LET p == slots[i].pad
    IN /\ dev.pads[i] = "none" <=> p = None
       /\ p # None =>
            /\ p \in DOMAIN host.pads
            /\ \A j \in Slot \ {i} : slots[j].pad # p
            /\ excuses = {} =>
                 (dev.pads[i] = "pressed" <=> host.pads[p] = <<FALSE>>)

\* The input manager and the gamepad slots know what the device was told.
HostInSync == InputManagerInSync /\ PadsMatch

\* "pinch-to-zoom mode is enabled: on every mouse event until the left-click button
\* is released" (input_manager.c:844).  A statement of the source that the model
\* contradicts: see the README.
FingerUntilRelease == im.vfinger => "left" \in DOMAIN host.buttons

=============================================================================
