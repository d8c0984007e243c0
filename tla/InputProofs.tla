----------------------------- MODULE InputProofs -----------------------------
(***************************************************************************)
(* What the main thread does with the events of SDL.                         *)
(*                                                                          *)
(* The input, for any options, shortcut modifiers and sizes: what the device *)
(* sees pressed is held by the user, the input manager and the slots of the  *)
(* gamepads know what the device was told, and the locks are synchronised.   *)
(*                                                                          *)
(* The window, for any sizes of the frames, of the window and of the desktop, *)
(* and any number of frames, moves and failures: the screen knows the window,  *)
(* shows the last frame, and a click designates the pixel under the pointer. *)
(***************************************************************************)
EXTENDS Input, Screen, FiniteSetTheorems, WellFoundedInduction, TLAPS

-----------------------------------------------------------------------------
(* The invariant.                                                          *)

HostShape == DOMAIN host = {"keys", "buttons", "fingers", "locks", "pads"}
DevShape  == /\ DOMAIN dev = {"injected", "report", "buttons", "pointers", "locks", "pads"}
             /\ DOMAIN dev.pads = Slot

InputTypeOK ==
  /\ settings \in Settings /\ paused \in BOOLEAN
  /\ DOMAIN im = {"buttons", "vfinger"} /\ im.vfinger \in BOOLEAN
  /\ DOMAIN slots = Slot /\ \A i \in Slot : DOMAIN slots[i] = {"pad", "pressed"}
  /\ HostShape /\ DevShape
  /\ DOMAIN host.pads \subseteq settings.pads
  /\ deviceMod \subseteq LockKeys /\ host.locks \subseteq LockKeys /\ dev.locks \subseteq LockKeys
  /\ outputs \in Seq(SUBSET LockKeys)
  /\ settled \in {"no", "doubt", "yes"}

\* Key `k`, handled in circumstance `c`, presses or releases `code`.
Converts(k, c) ==
  \/ k \in Special
  \/ k \in KpNav /\ ~c[5]
  \/ k \in Letters /\ (settings.mode = "text" => c[4])
  \/ settings.mode = "raw" /\ k \in Digits \cup KpNav

KeyGives(k, c, code) ==
  /\ ~c[1] /\ settings.kp # "none"
  /\ \/ c[2] /\ ~c[3] /\ k \in DOMAIN Relayed /\ code = Relayed[k]
     \/ ~c[2] /\ ~Hid /\ Converts(k, c) /\ code = k

\* Button `b`, handled in circumstance `c`, goes to the mouse processor, or presses
\* or releases the key `code`.
Heard(c)   == ~c[1] /\ (Captures => c[2]) /\ ~c[4]
Bound(b, c) == IF b = "left" THEN "click" ELSE IF c[3] THEN settings.sec ELSE settings.pri
Clicks(b, c) == Heard(c) /\ (settings.control => Bound(b, c) = "click")
ButtonGives(b, c, code) ==
  /\ Heard(c) /\ settings.control /\ settings.kp # "none"
  /\ Bound(b, c) \in {"back", "home", "switch"} /\ code = Bound(b, c)

\* A key injected is given by a key, or by a button, that the user holds.
InjectedHeld ==
  /\ settings.otg \/ settings.kp = "none" => dev.injected = {}
  /\ excuses = {} => \A code \in dev.injected :
       \/ \E k \in DOMAIN host.keys : KeyGives(k, host.keys[k], code)
       \/ \E b \in DOMAIN host.buttons : ButtonGives(b, host.buttons[b], code)

\* The HID keyboard knows the keys pressed, and its last report holds them; the
\* modifiers of this report are held.
ReportHeld ==
  /\ ~Hid => dev.report = {}
  /\ Hid /\ excuses = {} =>
       /\ hidKeys \subseteq Pressed /\ (~settings.legacy => hidKeys = Pressed)
       /\ dev.report \ Modifiers = IF Cardinality(hidKeys) > MaxKeys THEN {"phantom"} ELSE hidKeys
       /\ dev.report \cap Modifiers \subseteq DOMAIN host.keys

\* Buttons known pressed were pressed where clicks are forwarded; the virtual finger
\* comes with the left button alone, and then the mouse is no pointer.
ButtonsAgree ==
  /\ settings.otg => dev.buttons \subseteq DOMAIN host.buttons
  /\ ~settings.otg => dev.buttons = im.buttons
  /\ im.buttons \subseteq DOMAIN host.buttons
  /\ \A b \in im.buttons : Clicks(b, host.buttons[b])
  /\ im.vfinger => im.buttons = {"left"} /\ "mouse" \notin dev.pointers
  /\ "finger" \in dev.pointers => im.vfinger
  /\ "mouse" \in dev.pointers => im.buttons # {}
  /\ dev.pointers \subseteq {"mouse", "finger", "virtual", "touch"}

ButtonsHeld ==
  /\ settings.otg => im.buttons = {} /\ ~im.vfinger /\ ~paused
  /\ settings.mp = "none" => im.buttons = {} /\ dev.buttons = {}
  /\ settings.mp # "sdk" => dev.pointers = {} /\ ~im.vfinger
  /\ excuses = {} => ButtonsAgree

TouchHeld ==
  /\ host.fingers \in {<<>>, <<TRUE>>, <<FALSE>>}
  /\ excuses = {} /\ "touch" \in dev.pointers => host.fingers = <<FALSE>>

\* The last report of the device holds its locks; without one, the HID keyboard
\* knows them, unless a lock key is pressed or they are in doubt.
LocksFollowed ==
  /\ settings.kp # "uhid" => outputs = <<>> /\ settled = "no"
  /\ settings.kp = "uhid" /\ "full" \notin excuses =>
       /\ outputs # <<>> => outputs[Len(outputs)] = dev.locks
       /\ dev.report \cap LockKeys \subseteq hidKeys
       /\ settled # "doubt" /\ outputs = <<>> /\ hidKeys \cap LockKeys = {}
            => deviceMod = dev.locks
       /\ settled = "yes" =>
            /\ hidKeys \cap LockKeys = {} /\ deviceMod = host.locks /\ dev.locks = host.locks
            /\ \A i \in 1..Len(outputs) : outputs[i] = host.locks

InputInv ==
  /\ InputTypeOK /\ HostInSync /\ TypedOnce
  /\ InjectedHeld /\ ReportHeld /\ ButtonsHeld /\ TouchHeld /\ LocksFollowed

-----------------------------------------------------------------------------
(* Settings, excuses and circumstances.                                    *)

LEMMA SettingsFacts ==
  ASSUME settings \in Settings
  PROVE  /\ settings.control \in BOOLEAN /\ settings.otg \in BOOLEAN /\ settings.video \in BOOLEAN
         /\ settings.legacy \in BOOLEAN /\ settings.autosync \in BOOLEAN
         /\ settings.kp \in {"none", "sdk", "uhid", "aoa"}
         /\ settings.mp \in {"none", "sdk", "uhid", "aoa"}
         /\ settings.otg => settings.kp \in {"none", "aoa"} /\ settings.mp \in {"none", "aoa"}
         /\ settings.mode \in {"mixed", "text", "raw"}
         /\ None \notin settings.pads
BY InputAssumption

LEMMA Excused ==
  ASSUME NEW release, NEW lost, Excuse(release, lost)
  PROVE  /\ excuses \subseteq excuses'
         /\ excuses' = {} => ~release /\ lost = {} /\ excuses = {}
         /\ "full" \notin excuses' => lost = {} /\ "full" \notin excuses
BY DEF Excuse

LEMMA CircumstanceFacts ==
  ASSUME NEW k, NEW h
  PROVE  LET c == Circumstance(k, h) IN
         /\ c[1] = (paused /\ (IsShortcut(k, h) => k \in DOMAIN Relayed))
         /\ c[2] = IsShortcut(k, h)
         /\ c[3] = (IsShortcut(k, h) /\ Shift(h))
         /\ c[4] = (settings.mode = "text" /\ Ctrl(h))
         /\ c[5] = (k \in KpNav /\ (Shift(h) \/ "num" \in h.locks))
BY DEF Circumstance

LEMMA ButtonFacts ==
  ASSUME NEW b, NEW outside
  PROVE  LET c == ButtonCircumstance(b, outside) IN
         /\ c[1] = paused
         /\ c[2] = capture.active
         /\ c[3] = (b # "left" /\ Shift(host))
         /\ c[4] = outside
BY DEF ButtonCircumstance
-----------------------------------------------------------------------------
(* What the user holds once a key is hit.                                  *)

LEMMA HitFacts ==
  ASSUME HostShape, NEW k, NEW down \in BOOLEAN, NEW repeat \in BOOLEAN, Hit(k, down, repeat)
  PROVE  /\ k \in settings.keys
         /\ down => (repeat <=> k \in DOMAIN host.keys)
         /\ ~down => ~repeat /\ k \in DOMAIN host.keys
         /\ HostShape'
         /\ DOMAIN host'.keys = IF down THEN DOMAIN host.keys \cup {k} ELSE DOMAIN host.keys \ {k}
         /\ \A j \in DOMAIN host.keys : j # k => host'.keys[j] = host.keys[j]
         /\ down => host'.keys[k] = IF repeat THEN host.keys[k] ELSE Circumstance(k, host')
         /\ host'.locks = IF down /\ ~repeat /\ k \in LockKeys THEN SymDiff(host.locks, {k})
                          ELSE host.locks
         /\ host'.buttons = host.buttons /\ host'.fingers = host.fingers /\ host'.pads = host.pads
<1> DEFINE h == [host EXCEPT !.keys = IF down THEN With(@, k, <<>>) ELSE Without(@, k),
                             !.locks = IF down /\ k \in LockKeys THEN SymDiff(@, {k}) ELSE @]
<1>1. k \in settings.keys /\ (down => (repeat <=> k \in DOMAIN host.keys))
      /\ (~down => ~repeat /\ k \in DOMAIN host.keys)
  BY DEF Hit
<1>2. CASE repeat
  <2>1. host' = host
    BY <1>2 DEF Hit, Held
  <2> QED BY <1>1, <1>2, <2>1 DEF HostShape
<1>3. CASE ~repeat
  <2>1. host' = IF down THEN [h EXCEPT !.keys[k] = Circumstance(k, h)] ELSE h
    BY <1>3 DEF Hit, Held
  <2>2. DOMAIN h = DOMAIN host /\ h.buttons = host.buttons /\ h.fingers = host.fingers
        /\ h.pads = host.pads
        /\ h.keys = (IF down THEN With(host.keys, k, <<>>) ELSE Without(host.keys, k))
        /\ h.locks = (IF down /\ k \in LockKeys THEN SymDiff(host.locks, {k}) ELSE host.locks)
    BY DEF HostShape
  <2>3. DOMAIN h.keys = IF down THEN DOMAIN host.keys \cup {k} ELSE DOMAIN host.keys \ {k}
    BY <2>2 DEF With, Without
  <2>4. \A j \in DOMAIN host.keys : j # k => h.keys[j] = host.keys[j]
    BY <2>2 DEF With, Without
  <2> HIDE DEF h
  <2>5. /\ HostShape' /\ host'.locks = h.locks /\ DOMAIN host'.keys = DOMAIN h.keys
        /\ host'.buttons = h.buttons /\ host'.fingers = h.fingers /\ host'.pads = h.pads
        /\ \A j \in DOMAIN h.keys : j # k => host'.keys[j] = h.keys[j]
        /\ down => host'.keys[k] = Circumstance(k, h)
    BY <2>1, <2>2, <2>3 DEF HostShape
  <2>6. Circumstance(k, h) = Circumstance(k, host')
    BY <2>5 DEF Circumstance, IsShortcut, Mods, Shift, Ctrl
  <2> QED BY <1>1, <1>3, <2>2, <2>3, <2>4, <2>5, <2>6
<1> QED BY <1>2, <1>3

\* The device of a message: the fields that others do not touch.
LEMMA InjectFacts ==
  ASSUME DevShape, NEW code, NEW down
  PROVE  LET d == Inject(dev, code, down) IN
         /\ DOMAIN d = DOMAIN dev /\ d.injected = Toggle(dev.injected, code, down)
         /\ d.report = dev.report /\ d.buttons = dev.buttons /\ d.pointers = dev.pointers
         /\ d.locks = dev.locks /\ d.pads = dev.pads
BY DEF Inject, DevShape

LEMMA ReportFacts ==
  ASSUME DevShape, NEW d, DOMAIN d = DOMAIN dev, NEW report
  PROVE  LET e == HidReport(d, report) IN
         /\ DOMAIN e = DOMAIN d /\ e.report = report
         /\ e.locks = SymDiff(d.locks, (d.report \ report) \cap LockKeys)
         /\ e.injected = d.injected /\ e.buttons = d.buttons /\ e.pointers = d.pointers
         /\ e.pads = d.pads
BY DEF HidReport, DevShape

LEMMA ClickFacts ==
  ASSUME DevShape, NEW pointer, NEW down, NEW buttons
  PROVE  LET d == Click(dev, pointer, down, buttons) IN
         /\ DOMAIN d = DOMAIN dev /\ d.buttons = buttons
         /\ d.pointers = Toggle(dev.pointers, pointer, down \/ (pointer = "mouse" /\ buttons # {}))
         /\ d.report = dev.report /\ d.injected = dev.injected
         /\ d.locks = dev.locks /\ d.pads = dev.pads
BY DEF Click, DevShape

\* The reports that the device queues when its locks go from `a` to `b`, then `c`.
Queued(q, a, b, c) == q \o (IF a # b THEN <<b>> ELSE <<>>) \o (IF b # c THEN <<c>> ELSE <<>>)

\* A key of the HID keyboard: two reports at most, the locks and the keys.
LEMMA HidKeyReports ==
  ASSUME DevShape, outputs \in Seq(SUBSET LockKeys), NEW k, NEW down \in BOOLEAN,
         NEW repeat \in BOOLEAN, NEW lost,
         HidKey(k, down, repeat, lost)
  PROVE  /\ ~repeat
         /\ hidKeys' = IF k \in Modifiers THEN hidKeys ELSE Toggle(hidKeys, k, down)
         /\ DOMAIN dev' = DOMAIN dev /\ dev'.injected = dev.injected
         /\ UNCHANGED <<dev.buttons, dev.pointers, dev.pads>>
         /\ "key" \notin lost => dev'.report = Report(hidKeys', Mods(host'))
         /\ \E sync :
              /\ DOMAIN sync = DOMAIN dev
              /\ sync = dev \/ sync = HidReport(dev, Unsynchronized(k))
              /\ Unsynchronized(k) = {} => sync = dev
              /\ Unsynchronized(k) # {} /\ lost = {}
                   => sync = HidReport(dev, Unsynchronized(k))
              /\ dev' = sync \/ dev' = HidReport(sync, Report(hidKeys', Mods(host')))
              /\ lost = {} => dev' = HidReport(sync, Report(hidKeys', Mods(host')))
              /\ settings.kp = "uhid"
                   => outputs' = Queued(outputs, dev.locks, sync.locks, dev'.locks)
              /\ settings.kp # "uhid" => outputs' = outputs
<1> DEFINE diff == Unsynchronized(k)
           keys == IF k \in Modifiers THEN hidKeys ELSE Toggle(hidKeys, k, down)
           report == Report(keys, Mods(host'))
           sync == IF diff = {} \/ "mods" \in lost THEN dev ELSE HidReport(dev, diff)
           key  == IF "key" \in lost THEN sync ELSE HidReport(sync, report)
           Leds(d, e) == IF settings.kp = "uhid" /\ d.locks # e.locks THEN <<e.locks>> ELSE <<>>
<1>1. /\ ~repeat /\ hidKeys' = keys /\ dev' = key
      /\ outputs' = outputs \o Leds(dev, sync) \o Leds(sync, key)
  BY DEF HidKey
<1>2. /\ DOMAIN sync = DOMAIN dev /\ sync.injected = dev.injected /\ sync.buttons = dev.buttons
      /\ sync.pointers = dev.pointers /\ sync.pads = dev.pads
  BY ReportFacts DEF DevShape
<1> HIDE DEF sync, report, Leds
<1>3. /\ DOMAIN key = DOMAIN dev /\ key.injected = dev.injected /\ key.buttons = dev.buttons
      /\ key.pointers = dev.pointers /\ key.pads = dev.pads
      /\ "key" \notin lost => key.report = report
  <2>1. CASE "key" \in lost
    BY <1>2, <2>1
  <2>2. CASE "key" \notin lost
    <3>1. key = HidReport(sync, report)
      BY <2>2
    <3>2. DOMAIN sync = DOMAIN dev
      BY <1>2
    <3> HIDE DEF key
    <3>3. DOMAIN key = DOMAIN sync
      BY <3>1, <3>2, ReportFacts
    <3>4. key.injected = sync.injected
      BY <3>1, <3>2, ReportFacts
    <3>5. key.buttons = sync.buttons
      BY <3>1, <3>2, ReportFacts
    <3>6. key.pointers = sync.pointers
      BY <3>1, <3>2, ReportFacts
    <3>7. key.pads = sync.pads
      BY <3>1, <3>2, ReportFacts
    <3>8. key.report = report
      BY <3>1, <3>2 DEF HidReport, DevShape
    <3> QED BY <1>2, <3>3, <3>4, <3>5, <3>6, <3>7, <3>8
  <2> QED BY <2>1, <2>2
<1>4. /\ sync = dev \/ sync = HidReport(dev, diff)
      /\ diff = {} => sync = dev
      /\ diff # {} /\ lost = {} => sync = HidReport(dev, diff)
  BY DEF sync
<1>5. /\ dev' = sync \/ dev' = HidReport(sync, report)
      /\ lost = {} => dev' = HidReport(sync, report)
  BY <1>1
<1>6. /\ settings.kp = "uhid"
            => outputs' = Queued(outputs, dev.locks, sync.locks, dev'.locks)
  BY <1>1 DEF Leds, Queued
<1>7. settings.kp # "uhid" => outputs' = outputs
  <2>1. outputs \o <<>> \o <<>> = outputs
    OBVIOUS
  <2> QED BY <1>1, <2>1 DEF Leds
<1> HIDE DEF report, keys, key, diff
<1> QED BY <1>1, <1>2, <1>3, <1>4, <1>5, <1>6, <1>7 DEF report, keys, diff

LEMMA HidKeyFacts ==
  ASSUME DevShape, outputs \in Seq(SUBSET LockKeys), NEW k, NEW down \in BOOLEAN,
         NEW repeat \in BOOLEAN, NEW lost, HidKey(k, down, repeat, lost)
  PROVE  /\ ~repeat
         /\ hidKeys' = IF k \in Modifiers THEN hidKeys ELSE Toggle(hidKeys, k, down)
         /\ DOMAIN dev' = DOMAIN dev /\ dev'.injected = dev.injected
         /\ dev'.buttons = dev.buttons /\ dev'.pointers = dev.pointers /\ dev'.pads = dev.pads
         /\ "key" \notin lost => dev'.report = Report(hidKeys', Mods(host'))
BY HidKeyReports

-----------------------------------------------------------------------------
(* The keys.                                                               *)

\* One of the three ways the client handles an event of key `k`.
KeyEvent(k, down, repeat, lost) ==
  \/ CaptureKey(k, down, repeat) /\ lost = {}
  \/ ShortcutKey(k, down, repeat, lost)
  \/ PlainKey(k, down, repeat, lost)

LEMMA KeyIsEvent ==
  ASSUME Key
  PROVE  \E k \in settings.keys, down, repeat \in BOOLEAN :
           \E lost : KeyEvent(k, down, repeat, lost)
BY DEF Key, KeyEvent

LEMMA KeyFrame ==
  ASSUME InputTypeOK, NEW k, NEW down \in BOOLEAN, NEW repeat \in BOOLEAN, NEW lost,
         KeyEvent(k, down, repeat, lost)
  PROVE  /\ Hit(k, down, repeat) /\ KeyExcuse(k, down, lost)
         /\ UNCHANGED <<settings, im, slots>>
         /\ DevShape' /\ UNCHANGED <<dev.buttons, dev.pointers, dev.pads>>
         /\ paused' \in BOOLEAN /\ (settings.otg => paused' = paused)
<1> DEFINE Same(d) == /\ DOMAIN d = DOMAIN dev /\ d.buttons = dev.buttons
                      /\ d.pointers = dev.pointers /\ d.pads = dev.pads
<1> USE DEF InputTypeOK
<1>1. Same(dev') => DevShape' /\ UNCHANGED <<dev.buttons, dev.pointers, dev.pads>>
  BY DEF DevShape
<1>2. CASE CaptureKey(k, down, repeat) /\ lost = {}
  BY <1>1, <1>2 DEF CaptureKey
<1>3. CASE ShortcutKey(k, down, repeat, lost)
  <2>1. Same(dev')
    BY <1>3, InjectFacts DEF ShortcutKey
  <2> QED BY <1>1, <1>3, <2>1 DEF ShortcutKey
<1>4. CASE PlainKey(k, down, repeat, lost)
  <2>1. CASE UNCHANGED dev
    BY <1>1, <1>4, <2>1 DEF PlainKey
  <2>2. CASE SdkKey(k, down, repeat, lost)
    <3>1. Same(dev')
      BY <2>2, InjectFacts DEF SdkKey
    <3> QED BY <1>1, <1>4, <3>1 DEF PlainKey
  <2>3. CASE HidKey(k, down, repeat, lost)
    <3>1. DevShape /\ outputs \in Seq(SUBSET LockKeys)
      OBVIOUS
    <3>2. DOMAIN dev' = DOMAIN dev
      BY <2>3, <3>1, HidKeyFacts
    <3>3. dev'.buttons = dev.buttons
      BY <2>3, <3>1, HidKeyFacts
    <3>4. dev'.pointers = dev.pointers
      BY <2>3, <3>1, HidKeyFacts
    <3>5. dev'.pads = dev.pads
      BY <2>3, <3>1, HidKeyFacts
    <3>6. Same(dev')
      BY <3>2, <3>3, <3>4, <3>5
    <3> QED BY <1>1, <1>4, <3>6 DEF PlainKey
  <2> QED BY <1>4, <2>1, <2>2, <2>3 DEF PlainKey
<1> QED BY <1>2, <1>3, <1>4 DEF KeyEvent

LEMMA KeyInjectsNothing ==
  ASSUME InputTypeOK, NEW k, NEW down \in BOOLEAN, NEW repeat \in BOOLEAN, NEW lost,
         KeyEvent(k, down, repeat, lost), settings.otg \/ settings.kp = "none"
  PROVE  dev'.injected = dev.injected
<1>1. CASE CaptureKey(k, down, repeat)
  BY <1>1 DEF CaptureKey
<1>2. CASE ShortcutKey(k, down, repeat, lost)
  BY <1>2 DEF ShortcutKey, Relays
<1>3. CASE PlainKey(k, down, repeat, lost)
  <2>1. ASSUME Forwarded(k, down, repeat, lost), ~Hid
        PROVE  FALSE
    BY <2>1, SettingsFacts DEF Forwarded, Hid, InputTypeOK
  <2>2. ASSUME HidKey(k, down, repeat, lost)
        PROVE  dev'.injected = dev.injected
    BY <2>2, HidKeyFacts DEF InputTypeOK
  <2> QED BY <1>3, <2>1, <2>2 DEF PlainKey
<1> QED BY <1>1, <1>2, <1>3 DEF KeyEvent

LEMMA KeyInjects ==
  ASSUME InputTypeOK, NEW k, NEW down \in BOOLEAN, NEW repeat \in BOOLEAN, NEW lost,
         KeyEvent(k, down, repeat, lost), settings.kp # "none", ~settings.otg, lost = {}
  PROVE  LET c == Circumstance(k, host') IN
         \/ /\ dev'.injected = dev.injected
            /\ ~down => \A code : ~KeyGives(k, c, code)
         \/ \E code : KeyGives(k, c, code) /\ dev'.injected = Toggle(dev.injected, code, down)
<1> DEFINE c == Circumstance(k, host')
<1> USE DEF InputTypeOK
<1>0. /\ c[1] = (paused /\ (IsShortcut(k, host') => k \in DOMAIN Relayed))
      /\ c[2] = IsShortcut(k, host')
      /\ c[3] = (IsShortcut(k, host') /\ Shift(host'))
      /\ c[4] = (settings.mode = "text" /\ Ctrl(host'))
      /\ c[5] = (k \in KpNav /\ (Shift(host') \/ "num" \in host'.locks))
  BY CircumstanceFacts
<1> HIDE DEF c
<1>1. CASE CaptureKey(k, down, repeat)
  <2>1. k \in ShortcutMods /\ UNCHANGED dev
    BY <1>1 DEF CaptureKey
  <2>2. k \notin DOMAIN Relayed
    BY <2>1, InputAssumption DEF Relayed, Modifiers
  <2>3. c[2]
    BY <1>0, <2>1 DEF IsShortcut
  <2> QED BY <2>1, <2>2, <2>3 DEF KeyGives, c
<1>2. CASE ShortcutKey(k, down, repeat, lost)
  <2>1. c[2]
    BY <1>0, <1>2 DEF ShortcutKey
  <2>2. CASE Relays(k, repeat)
    <3>1. dev' = Inject(dev, Relayed[k], down)
      BY <1>2, <2>2 DEF ShortcutKey
    <3>2. KeyGives(k, c, Relayed[k])
      BY <1>0, <2>1, <2>2 DEF Relays, KeyGives
    <3> QED BY <3>1, <3>2, InjectFacts DEF c
  <2>3. CASE ~Relays(k, repeat)
    <3>1. UNCHANGED dev
      BY <1>2, <2>3 DEF ShortcutKey
    <3>2. ~down => ~repeat
      BY <1>2 DEF ShortcutKey, Hit
    <3>3. ASSUME ~down, NEW code
          PROVE  ~KeyGives(k, c, code)
      BY <1>0, <2>1, <2>3, <3>2, <3>3 DEF Relays, KeyGives
    <3> QED BY <3>1, <3>3 DEF c
  <2> QED BY <2>2, <2>3
<1>3. CASE PlainKey(k, down, repeat, lost)
  <2>1. ~c[2]
    BY <1>0, <1>3 DEF PlainKey
  <2>2. c[1] = paused
    BY <1>0, <2>1
  <2>3. Convert(k) <=> Converts(k, c)
    BY <1>0 DEF Convert, Converts
  <2>4. ~down => ~repeat
    BY <1>3 DEF PlainKey, Hit
  <2>5. CASE Forwarded(k, down, repeat, lost) /\ ~Hid /\ SdkKey(k, down, repeat, lost)
    <3>1. CASE (repeat => settings.forwardRepeat) /\ Convert(k)
      <4>1. dev' = Inject(dev, k, down)
        BY <2>5, <3>1 DEF SdkKey
      <4>2. KeyGives(k, c, k)
        BY <2>1, <2>2, <2>3, <2>5, <3>1 DEF Forwarded, KeyGives
      <4> QED BY <4>1, <4>2, InjectFacts DEF c
    <3>2. CASE ~((repeat => settings.forwardRepeat) /\ Convert(k))
      <4>1. UNCHANGED dev
        BY <2>5, <3>2 DEF SdkKey
      <4>2. ASSUME ~down, NEW code
            PROVE  ~KeyGives(k, c, code)
        BY <2>1, <2>3, <2>4, <3>2, <4>2 DEF KeyGives
      <4> QED BY <4>1, <4>2 DEF c
    <3> QED BY <3>1, <3>2
  <2>6. CASE Forwarded(k, down, repeat, lost) /\ Hid /\ HidKey(k, down, repeat, lost)
    <3>1. dev'.injected = dev.injected
      BY <2>6, HidKeyFacts
    <3>2. \A code : ~KeyGives(k, c, code)
      BY <2>1, <2>6 DEF KeyGives
    <3> QED BY <3>1, <3>2 DEF c
  <2>7. CASE (~Forwarded(k, down, repeat, lost) \/ (Hid /\ repeat)) /\ UNCHANGED dev
    <3>1. ASSUME ~down, NEW code
          PROVE  ~KeyGives(k, c, code)
      BY <2>1, <2>2, <2>4, <2>7, <3>1 DEF Forwarded, Pastes, KeyGives
    <3> QED BY <2>7, <3>1 DEF c
  <2> QED BY <1>3, <2>5, <2>6, <2>7 DEF PlainKey
<1> QED BY <1>1, <1>2, <1>3 DEF KeyEvent

LEMMA KeyExcused ==
  ASSUME NEW k, NEW down \in BOOLEAN, NEW lost, KeyExcuse(k, down, lost)
  PROVE  /\ excuses \subseteq excuses'
         /\ excuses' = {} =>
              /\ excuses = {} /\ lost = {}
              /\ k \in DOMAIN host.keys => host.keys[k] = Circumstance(k, host')
              /\ ~down /\ k \in dev.report \cap Modifiers => ~Kept(k, host')
         /\ "full" \notin excuses' => "full" \notin excuses /\ lost = {}
<1> DEFINE release == \/ k \in DOMAIN host.keys /\ host.keys[k] # Circumstance(k, host')
                      \/ ~down /\ k \in dev.report \cap Modifiers /\ Kept(k, host')
<1>1. Excuse(release, lost)
  BY DEF KeyExcuse
<1>2. release \in BOOLEAN
  OBVIOUS
<1> HIDE DEF release
<1>3. /\ excuses \subseteq excuses'
      /\ excuses' = {} => ~release /\ lost = {} /\ excuses = {}
      /\ "full" \notin excuses' => lost = {} /\ "full" \notin excuses
  BY <1>1, <1>2, Excused
<1> QED BY <1>3 DEF release

LEMMA KeyGivesOne ==
  ASSUME NEW k, NEW c, NEW x, NEW y, KeyGives(k, c, x), KeyGives(k, c, y)
  PROVE  x = y
BY DEF KeyGives

LEMMA KeyKeepsInjected ==
  ASSUME InputTypeOK, InjectedHeld, NEW k, NEW down \in BOOLEAN, NEW repeat \in BOOLEAN, NEW lost,
         KeyEvent(k, down, repeat, lost)
  PROVE  InjectedHeld'
<1>1. /\ Hit(k, down, repeat) /\ KeyExcuse(k, down, lost) /\ settings' = settings
  BY KeyFrame
<1>2. /\ excuses' = {} =>
           /\ excuses = {} /\ lost = {}
           /\ k \in DOMAIN host.keys => host.keys[k] = Circumstance(k, host')
  BY <1>1, KeyExcused
<1>3. /\ down => (repeat <=> k \in DOMAIN host.keys)
      /\ ~down => ~repeat /\ k \in DOMAIN host.keys
      /\ DOMAIN host'.keys = IF down THEN DOMAIN host.keys \cup {k} ELSE DOMAIN host.keys \ {k}
      /\ \A j \in DOMAIN host.keys : j # k => host'.keys[j] = host.keys[j]
      /\ down => host'.keys[k] = IF repeat THEN host.keys[k] ELSE Circumstance(k, host')
      /\ host'.buttons = host.buttons
  <2>1. HostShape
    BY DEF InputTypeOK
  <2> QED BY <1>1, <2>1, HitFacts
<1>4. CASE settings.otg \/ settings.kp = "none"
  <2>1. dev'.injected = dev.injected
    BY <1>4, KeyInjectsNothing
  <2>2. dev'.injected = {}
    BY <1>4, <2>1 DEF InjectedHeld
  <2> QED BY <1>1, <2>2 DEF InjectedHeld
<1>5. CASE ~settings.otg /\ settings.kp # "none" /\ excuses' = {}
  <2> DEFINE c == Circumstance(k, host')
  <2>1. \/ /\ dev'.injected = dev.injected
           /\ ~down => \A code : ~KeyGives(k, c, code)
        \/ \E code : KeyGives(k, c, code) /\ dev'.injected = Toggle(dev.injected, code, down)
    BY <1>2, <1>5, KeyInjects
  <2>2. /\ k \in DOMAIN host.keys => host.keys[k] = c
        /\ down => host'.keys[k] = c
    BY <1>2, <1>3, <1>5
  <2> HIDE DEF c
  <2>3. ASSUME NEW x \in dev.injected, ~down => ~KeyGives(k, c, x)
        PROVE  \/ \E j \in DOMAIN host'.keys : KeyGives(j, host'.keys[j], x)
               \/ \E b \in DOMAIN host.buttons : ButtonGives(b, host.buttons[b], x)
    <3>1. CASE \E b \in DOMAIN host.buttons : ButtonGives(b, host.buttons[b], x)
      BY <3>1
    <3>2. CASE \E j \in DOMAIN host.keys : KeyGives(j, host.keys[j], x)
      <4>1. PICK j \in DOMAIN host.keys : KeyGives(j, host.keys[j], x)
        BY <3>2
      <4>2. j = k => down
        BY <2>2, <2>3, <4>1
      <4>3. j \in DOMAIN host'.keys /\ host'.keys[j] = host.keys[j]
        BY <1>3, <2>2, <4>2
      <4> QED BY <4>1, <4>3
    <3> QED BY <1>2, <1>5, <3>1, <3>2 DEF InjectedHeld
  <2>4. \A x \in dev'.injected :
          \/ \E j \in DOMAIN host'.keys : KeyGives(j, host'.keys[j], x)
          \/ \E b \in DOMAIN host.buttons : ButtonGives(b, host.buttons[b], x)
    <3>1. CASE dev'.injected = dev.injected /\ (~down => \A code : ~KeyGives(k, c, code))
      BY <2>3, <3>1
    <3>2. ASSUME NEW code, KeyGives(k, c, code),
                 dev'.injected = Toggle(dev.injected, code, down)
          PROVE  \A x \in dev'.injected :
                   \/ \E j \in DOMAIN host'.keys : KeyGives(j, host'.keys[j], x)
                   \/ \E b \in DOMAIN host.buttons : ButtonGives(b, host.buttons[b], x)
      <4>1. CASE down
        <5>1. KeyGives(k, host'.keys[k], code) /\ k \in DOMAIN host'.keys
          BY <1>3, <2>2, <3>2, <4>1
        <5>2. \A x \in dev'.injected : x \in dev.injected \/ x = code
          BY <3>2, <4>1 DEF Toggle
        <5> QED BY <2>3, <4>1, <5>1, <5>2
      <4>2. CASE ~down
        <5>1. \A x \in dev'.injected : x \in dev.injected /\ ~KeyGives(k, c, x)
          BY <3>2, <4>2, KeyGivesOne DEF Toggle
        <5> QED BY <2>3, <5>1
      <4> QED BY <4>1, <4>2
    <3> QED BY <2>1, <3>1, <3>2
  <2> QED BY <1>1, <1>3, <1>5, <2>4
      DEF InjectedHeld, KeyGives, Converts, Hid, ButtonGives, Heard, Bound, Captures, Relative
<1>6. CASE ~settings.otg /\ settings.kp # "none" /\ excuses' # {}
  BY <1>1, <1>6 DEF InjectedHeld
<1> QED BY <1>4, <1>5, <1>6

\* What a key changes of the keys pressed, unless it is handled in other circumstances.
LEMMA KeyPressed ==
  ASSUME InputTypeOK, NEW k, NEW down \in BOOLEAN, NEW repeat \in BOOLEAN, Hit(k, down, repeat),
         settings' = settings, k \in DOMAIN host.keys => host.keys[k] = Circumstance(k, host')
  PROVE  LET c     == Circumstance(k, host')
             plain == k \notin Modifiers /\ (settings.otg \/ (~c[1] /\ ~c[2])) IN
         /\ \A j : j # k => (j \in Pressed' <=> j \in Pressed)
         /\ k \in Pressed' <=> down /\ plain
         /\ k \in Pressed <=> k \in DOMAIN host.keys /\ plain
<1> DEFINE c == Circumstance(k, host')
<1>1. HostShape
  BY DEF InputTypeOK
<1>2. /\ DOMAIN host'.keys = IF down THEN DOMAIN host.keys \cup {k} ELSE DOMAIN host.keys \ {k}
      /\ \A j \in DOMAIN host.keys : j # k => host'.keys[j] = host.keys[j]
      /\ down => host'.keys[k] = IF repeat THEN host.keys[k] ELSE Circumstance(k, host')
      /\ down => (repeat <=> k \in DOMAIN host.keys)
  BY <1>1, HitFacts
<1>3. /\ k \in DOMAIN host.keys => host.keys[k] = c
      /\ down => host'.keys[k] = c
  BY <1>2
<1> HIDE DEF c
<1>4. \A j : j # k => (j \in Pressed' <=> j \in Pressed)
  BY <1>2 DEF Pressed
<1>5. k \in Pressed' <=> down /\ k \notin Modifiers /\ (settings.otg \/ (~c[1] /\ ~c[2]))
  BY <1>2, <1>3 DEF Pressed
<1>6. k \in Pressed
        <=> k \in DOMAIN host.keys /\ k \notin Modifiers /\ (settings.otg \/ (~c[1] /\ ~c[2]))
  BY <1>3 DEF Pressed
<1> QED BY <1>4, <1>5, <1>6 DEF c

\* Whether the HID keyboard takes a key, and why not.
LEMMA HidTakes ==
  ASSUME InputTypeOK, ButtonsHeld, NEW k, NEW down \in BOOLEAN, NEW repeat \in BOOLEAN,
         KeyEvent(k, down, repeat, {}), Hid
  PROVE  LET c     == Circumstance(k, host')
             plain == settings.otg \/ (~c[1] /\ ~c[2]) IN
         \/ /\ HidKey(k, down, repeat, {}) /\ plain
         \/ /\ hidKeys' = hidKeys /\ dev'.report = dev.report
            /\ k \notin Modifiers => ~plain \/ repeat \/ (down /\ settings.legacy)
            /\ ~down /\ k \in Modifiers => Kept(k, host')
<1> DEFINE c == Circumstance(k, host')
           plain == settings.otg \/ (~c[1] /\ ~c[2])
<1>0. /\ c[1] = (paused /\ (IsShortcut(k, host') => k \in DOMAIN Relayed))
      /\ c[2] = IsShortcut(k, host')
  BY CircumstanceFacts
<1> HIDE DEF c
<1>1. CASE CaptureKey(k, down, repeat)
  <2>1. k \in ShortcutMods /\ k \in Modifiers /\ hidKeys' = hidKeys /\ dev' = dev
    BY <1>1, InputAssumption DEF CaptureKey, hidVars
  <2> QED BY <2>1 DEF c, Kept
<1>2. CASE ShortcutKey(k, down, repeat, {})
  <2>1. ~settings.otg /\ IsShortcut(k, host') /\ hidKeys' = hidKeys
    BY <1>2 DEF ShortcutKey, hidVars
  <2>2. dev'.report = dev.report
    BY <1>2, InjectFacts DEF ShortcutKey, InputTypeOK
  <2> QED BY <1>0, <2>1, <2>2 DEF c, Kept
<1>3. CASE PlainKey(k, down, repeat, {})
  <2>1. settings.otg \/ ~IsShortcut(k, host')
    BY <1>3 DEF PlainKey
  <2>2. CASE Forwarded(k, down, repeat, {}) /\ HidKey(k, down, repeat, {})
    <3>1. ~paused
      BY <2>2 DEF Forwarded
    <3> QED BY <1>0, <2>1, <2>2, <3>1 DEF c
  <2>3. CASE (~Forwarded(k, down, repeat, {}) \/ (Hid /\ repeat)) /\ UNCHANGED <<hidVars, dev>>
    <3>1. paused => ~settings.otg
      BY DEF ButtonsHeld
    <3>2. ~down => ~repeat
      BY <1>3 DEF PlainKey, Hit
    <3>3. hidKeys' = hidKeys /\ dev'.report = dev.report
      BY <2>3 DEF hidVars
    <3>4. repeat \/ paused \/ (down /\ settings.legacy)
      BY <2>3 DEF Forwarded, Pastes, Hid
    <3> QED BY <1>0, <2>1, <3>1, <3>2, <3>3, <3>4 DEF c, Kept
  <2> QED BY <1>3, <2>2, <2>3 DEF PlainKey
<1> QED BY <1>1, <1>2, <1>3 DEF KeyEvent

LEMMA ReportParts ==
  ASSUME NEW keys, keys \cap Modifiers = {}
  PROVE  /\ Report(keys, Mods(host')) \ Modifiers
              = IF Cardinality(keys) > MaxKeys THEN {"phantom"} ELSE keys
         /\ Report(keys, Mods(host')) \cap Modifiers \subseteq DOMAIN host'.keys
<1>1. "phantom" \notin Modifiers /\ Mods(host') \subseteq Modifiers \cap DOMAIN host'.keys
  BY DEF Modifiers, Mods
<1> QED BY <1>1 DEF Report

LEMMA KeyKeepsReport ==
  ASSUME InputTypeOK, ReportHeld, ButtonsHeld, NEW k, NEW down \in BOOLEAN, NEW repeat \in BOOLEAN,
         NEW lost, KeyEvent(k, down, repeat, lost)
  PROVE  ReportHeld'
<1>1. /\ Hit(k, down, repeat) /\ KeyExcuse(k, down, lost) /\ settings' = settings
  BY KeyFrame
<1>2. Hid' = Hid
  BY <1>1 DEF Hid
<1>3. CASE ~Hid
  <2>1. dev'.report = dev.report
    <3>1. DevShape
      BY DEF InputTypeOK
    <3>2. CASE CaptureKey(k, down, repeat)
      BY <3>2 DEF CaptureKey
    <3>3. CASE ShortcutKey(k, down, repeat, lost)
      BY <3>1, <3>3, InjectFacts DEF ShortcutKey
    <3>4. CASE PlainKey(k, down, repeat, lost)
      BY <1>3, <3>1, <3>4, InjectFacts DEF PlainKey, SdkKey
    <3> QED BY <3>2, <3>3, <3>4 DEF KeyEvent
  <2> QED BY <1>2, <1>3, <2>1 DEF ReportHeld
<1>4. CASE Hid /\ excuses' # {}
  BY <1>2, <1>4 DEF ReportHeld
<1>5. CASE Hid /\ excuses' = {}
  <2> DEFINE c == Circumstance(k, host')
             plain == settings.otg \/ (~c[1] /\ ~c[2])
             keys == IF k \in Modifiers THEN hidKeys ELSE Toggle(hidKeys, k, down)
  <2>1. /\ excuses = {} /\ lost = {}
        /\ k \in DOMAIN host.keys => host.keys[k] = c
        /\ ~down /\ k \in dev.report \cap Modifiers => ~Kept(k, host')
    BY <1>1, <1>5, KeyExcused
  <2>2. /\ \A j : j # k => (j \in Pressed' <=> j \in Pressed)
        /\ k \in Pressed' <=> down /\ k \notin Modifiers /\ plain
        /\ k \in Pressed <=> k \in DOMAIN host.keys /\ k \notin Modifiers /\ plain
    BY <1>1, <2>1, KeyPressed
  <2>3. /\ hidKeys \subseteq Pressed /\ (~settings.legacy => hidKeys = Pressed)
        /\ dev.report \ Modifiers = IF Cardinality(hidKeys) > MaxKeys THEN {"phantom"} ELSE hidKeys
        /\ dev.report \cap Modifiers \subseteq DOMAIN host.keys
    BY <1>5, <2>1 DEF ReportHeld
  <2>4. /\ DOMAIN host'.keys = IF down THEN DOMAIN host.keys \cup {k} ELSE DOMAIN host.keys \ {k}
        /\ ~down => ~repeat
        /\ down => (repeat <=> k \in DOMAIN host.keys)
    <3>1. HostShape
      BY DEF InputTypeOK
    <3> QED BY <1>1, <3>1, HitFacts
  <2>5. \/ HidKey(k, down, repeat, {}) /\ plain
        \/ /\ hidKeys' = hidKeys /\ dev'.report = dev.report
           /\ k \notin Modifiers => ~plain \/ repeat \/ (down /\ settings.legacy)
           /\ ~down /\ k \in Modifiers => Kept(k, host')
    BY <1>5, <2>1, HidTakes
  <2> HIDE DEF c, plain
  <2>6. CASE HidKey(k, down, repeat, {}) /\ plain
    <3>1. hidKeys' = keys /\ dev'.report = Report(keys, Mods(host'))
      <4>1. DevShape /\ outputs \in Seq(SUBSET LockKeys)
        BY DEF InputTypeOK
      <4>2. hidKeys' = keys
        BY <2>6, <4>1, HidKeyFacts
      <4>3. "key" \notin {}
        OBVIOUS
      <4>4. dev'.report = Report(hidKeys', Mods(host'))
        BY <2>6, <4>1, <4>3, HidKeyFacts
      <4> QED BY <4>2, <4>4
    <3>2. keys \subseteq Pressed' /\ (~settings.legacy => keys = Pressed')
      BY <2>2, <2>3, <2>6 DEF Toggle
    <3>3. Pressed' \cap Modifiers = {}
      BY DEF Pressed
    <3> HIDE DEF keys
    <3>4. /\ dev'.report \ Modifiers = IF Cardinality(keys) > MaxKeys THEN {"phantom"} ELSE keys
          /\ dev'.report \cap Modifiers \subseteq DOMAIN host'.keys
      BY <3>1, <3>2, <3>3, ReportParts
    <3> QED BY <1>1, <1>2, <1>5, <3>1, <3>2, <3>4 DEF ReportHeld
  <2>7. CASE /\ hidKeys' = hidKeys /\ dev'.report = dev.report
             /\ k \notin Modifiers => ~plain \/ repeat \/ (down /\ settings.legacy)
             /\ ~down /\ k \in Modifiers => Kept(k, host')
    <3>1. hidKeys \subseteq Pressed' /\ (~settings.legacy => hidKeys = Pressed')
      BY <2>2, <2>3, <2>4, <2>7
    <3>2. dev'.report \cap Modifiers \subseteq DOMAIN host'.keys
      BY <2>1, <2>3, <2>4, <2>7
    <3> QED BY <1>1, <1>2, <1>5, <2>3, <2>7, <3>1, <3>2 DEF ReportHeld
  <2> QED BY <2>5, <2>6, <2>7
<1> QED BY <1>3, <1>4, <1>5

-----------------------------------------------------------------------------
(* Text, and the locks.                                                    *)

LEMMA KeyKeepsTyped ==
  ASSUME InputTypeOK, TypedOnce, NEW k, NEW down \in BOOLEAN, NEW repeat \in BOOLEAN, NEW lost,
         KeyEvent(k, down, repeat, lost)
  PROVE  TypedOnce'
<1>1. CASE SdkKey(k, down, repeat, lost)
  <2>1. settings.mode \in {"mixed", "text", "raw"}
    BY SettingsFacts DEF InputTypeOK
  <2>2. Character(k) => (Convert(k) <=> ~TextInjected(k))
    <3>1. CASE k \in Letters
      BY <2>1, <3>1 DEF Character, Convert, TextInjected, Letters, Digits, KpNav, Special, Modifiers
    <3>2. CASE k \in Digits
      BY <2>1, <3>2 DEF Character, Convert, TextInjected, Letters, Digits, KpNav, Special, Modifiers
    <3>3. CASE k \in KpNav
      BY <2>1, <3>3 DEF Character, Convert, TextInjected, Letters, Digits, KpNav, Special, Modifiers
    <3> QED BY <3>1, <3>2, <3>3 DEF Character
  <2> QED BY <1>1, <2>2 DEF SdkKey, TypedOnce
<1>2. CASE typed' = typed
  BY <1>2 DEF TypedOnce
<1> QED BY <1>1, <1>2 DEF KeyEvent, CaptureKey, ShortcutKey, PlainKey, HidKey

LEMMA Reports ==
  ASSUME NEW T, NEW q \in Seq(T), NEW a, NEW b \in T, NEW c \in T
  PROVE  LET r == Queued(q, a, b, c) IN
         /\ r \in Seq(T)
         /\ (q # <<>> => q[Len(q)] = a) => (r # <<>> => r[Len(r)] = c)
         /\ a = b => \A i \in 1..Len(r) : r[i] = c \/ (i \in 1..Len(q) /\ r[i] = q[i])
<1> DEFINE r == Queued(q, a, b, c)
<1>1. CASE a # b /\ b # c
  <2>1. r = q \o <<b>> \o <<c>>
    BY <1>1 DEF Queued
  <2> QED BY <1>1, <2>1
<1>2. CASE a = b /\ b # c
  <2>1. r = q \o <<c>>
    BY <1>2 DEF Queued
  <2> QED BY <1>2, <2>1
<1>3. CASE a # b /\ b = c
  <2>1. r = q \o <<b>>
    BY <1>3 DEF Queued
  <2> QED BY <1>3, <2>1
<1>4. CASE a = b /\ b = c
  <2>1. r = q
    BY <1>4 DEF Queued
  <2> QED BY <1>4, <2>1
<1> QED BY <1>1, <1>2, <1>3, <1>4

LEMMA NothingQueued ==
  ASSUME NEW T, NEW q \in Seq(T), NEW a, NEW b, NEW c, Queued(q, a, b, c) = <<>>
  PROVE  q = <<>> /\ a = b /\ b = c
<1>1. CASE a # b
  BY <1>1 DEF Queued
<1>2. CASE a = b /\ b # c
  <2>1. Queued(q, a, b, c) = q \o <<c>>
    BY <1>2 DEF Queued
  <2> QED BY <2>1
<1>3. CASE a = b /\ b = c
  <2>1. Queued(q, a, b, c) = q
    BY <1>3 DEF Queued
  <2> QED BY <1>3, <2>1
<1> QED BY <1>1, <1>2, <1>3

\* An event that the HID keyboard does not take leaves the device as it is.
LEMMA LocksUnseen ==
  ASSUME InputTypeOK, LocksFollowed, NEW k, NEW down \in BOOLEAN, NEW repeat \in BOOLEAN,
         Hit(k, down, repeat), UNCHANGED <<settings, hidVars, dev.report, dev.locks>>,
         excuses \subseteq excuses',
         \/ settled' = settled /\ k \notin LockKeys
         \/ Unseen(k)
  PROVE  LocksFollowed'
<1>1. k \notin LockKeys => host'.locks = host.locks
  <2>1. HostShape
    BY DEF InputTypeOK
  <2> QED BY <2>1, HitFacts
<1>2. /\ settled' = "yes" => settled = "yes" /\ host'.locks = host.locks
      /\ settled' # "doubt" => settled # "doubt"
      /\ settled = "no" => settled' = "no"
  BY <1>1 DEF Unseen, Unsettled
<1> QED BY <1>2 DEF LocksFollowed, hidVars

LEMMA HidKeepsLocks ==
  ASSUME InputTypeOK, LocksFollowed, NEW k, NEW down \in BOOLEAN, NEW repeat \in BOOLEAN,
         HidKey(k, down, repeat, {}), Hit(k, down, repeat), settings' = settings,
         settings.kp = "uhid", "full" \notin excuses
  PROVE  /\ LocksFollowed' /\ outputs' \in Seq(SUBSET LockKeys)
         /\ dev'.locks \subseteq LockKeys /\ deviceMod' \subseteq LockKeys
<1> DEFINE keys == hidKeys'
           R == Report(keys, Mods(host'))
           D == Unsynchronized(k)
<1>1. /\ ~repeat
      /\ hidKeys' = IF k \in Modifiers THEN hidKeys ELSE Toggle(hidKeys, k, down)
      /\ DevShape /\ outputs \in Seq(SUBSET LockKeys)
  <2>1. DevShape /\ outputs \in Seq(SUBSET LockKeys)
    BY DEF InputTypeOK
  <2> QED BY <2>1, HidKeyFacts
<1>2. PICK sync :
        /\ DOMAIN sync = DOMAIN dev
        /\ D = {} => sync = dev
        /\ D # {} => sync = HidReport(dev, D)
        /\ dev' = HidReport(sync, R)
        /\ outputs' = Queued(outputs, dev.locks, sync.locks, dev'.locks)
  <2>1. PICK sync :
          /\ DOMAIN sync = DOMAIN dev
          /\ Unsynchronized(k) = {} => sync = dev
          /\ Unsynchronized(k) # {} => sync = HidReport(dev, Unsynchronized(k))
          /\ dev' = HidReport(sync, Report(hidKeys', Mods(host')))
          /\ settings.kp = "uhid"
               => outputs' = Queued(outputs, dev.locks, sync.locks, dev'.locks)
    BY <1>1, HidKeyReports
  <2> QED BY <2>1
<1>3. /\ deviceMod' = IF k \in LockKeys THEN SymDiff(deviceMod, {k}) ELSE host'.locks
      /\ settled' = IF k \in LockKeys
                    THEN IF ~down /\ k \notin dev.report THEN "doubt" ELSE Unsettled
                    ELSE IF ~down \/ settled = "doubt" THEN settled
                    ELSE IF outputs = <<>> /\ keys \cap LockKeys = {} THEN "yes" ELSE "no"
      /\ D = IF k \in LockKeys THEN {} ELSE SymDiff(host'.locks, deviceMod)
  BY DEF HidKey, Unsynchronized
<1>4. /\ k \notin LockKeys \/ ~down => host'.locks = host.locks
      /\ host'.locks \subseteq LockKeys
  <2>1. HostShape /\ host.locks \subseteq LockKeys
    BY DEF InputTypeOK
  <2>2. host'.locks = IF down /\ ~repeat /\ k \in LockKeys THEN SymDiff(host.locks, {k})
                      ELSE host.locks
    BY <2>1, HitFacts
  <2> QED BY <2>1, <2>2 DEF SymDiff
<1>5. /\ deviceMod \subseteq LockKeys /\ dev.locks \subseteq LockKeys
      /\ outputs # <<>> => outputs[Len(outputs)] = dev.locks
      /\ dev.report \cap LockKeys \subseteq hidKeys
      /\ settled # "doubt" /\ outputs = <<>> /\ hidKeys \cap LockKeys = {}
           => deviceMod = dev.locks
      /\ settled = "yes" =>
           /\ hidKeys \cap LockKeys = {} /\ deviceMod = host.locks /\ dev.locks = host.locks
           /\ \A i \in 1..Len(outputs) : outputs[i] = host.locks
  BY DEF LocksFollowed, InputTypeOK
<1>6. /\ R \cap LockKeys \subseteq keys
      /\ k \in LockKeys => k \notin Modifiers
  BY DEF Report, Mods, Modifiers, LockKeys
<1> HIDE DEF keys, R, D
<1>7. /\ k \in LockKeys => (k \in keys <=> down)
      /\ k \notin LockKeys => keys \cap LockKeys = hidKeys \cap LockKeys
  BY <1>1, <1>6 DEF keys, Toggle
<1>8. /\ sync.locks = IF D = {} THEN dev.locks
                      ELSE SymDiff(dev.locks, (dev.report \ D) \cap LockKeys)
      /\ sync.report = IF D = {} THEN dev.report ELSE D
      /\ dev'.locks = SymDiff(sync.locks, (sync.report \ R) \cap LockKeys)
      /\ dev'.report = R
  <2>1. DevShape /\ DOMAIN sync = DOMAIN dev
    BY <1>1, <1>2
  <2>2. dev'.locks = SymDiff(sync.locks, (sync.report \ R) \cap LockKeys)
    <3>1. HidReport(sync, R).locks = SymDiff(sync.locks, (sync.report \ R) \cap LockKeys)
      BY <2>1 DEF HidReport, DevShape
    <3> QED BY <1>2, <3>1
  <2>5. dev'.report = R
    <3>1. HidReport(sync, R).report = R
      BY <2>1 DEF HidReport, DevShape
    <3> QED BY <1>2, <3>1
  <2>3. CASE D = {}
    BY <1>2, <2>2, <2>3, <2>5
  <2>4. CASE D # {}
    <3>1. HidReport(dev, D).locks = SymDiff(dev.locks, (dev.report \ D) \cap LockKeys)
      BY <2>1 DEF HidReport, DevShape
    <3>2. HidReport(dev, D).report = D
      BY <2>1 DEF HidReport, DevShape
    <3> QED BY <1>2, <2>2, <2>4, <2>5, <3>1, <3>2
  <2> QED BY <2>3, <2>4
<1>9. /\ sync.locks \subseteq LockKeys /\ dev'.locks \subseteq LockKeys
      /\ deviceMod' \subseteq LockKeys
  BY <1>3, <1>4, <1>5, <1>8 DEF SymDiff
<1>10. /\ outputs' \in Seq(SUBSET LockKeys)
       /\ outputs' = <<>> => outputs = <<>> /\ dev.locks = sync.locks /\ sync.locks = dev'.locks
       /\ outputs' # <<>> => outputs'[Len(outputs')] = dev'.locks
       /\ dev.locks = sync.locks => \A i \in 1..Len(outputs') :
            outputs'[i] = dev'.locks \/ (i \in 1..Len(outputs) /\ outputs'[i] = outputs[i])
  <2>1. /\ outputs \in Seq(SUBSET LockKeys)
        /\ sync.locks \in SUBSET LockKeys /\ dev'.locks \in SUBSET LockKeys
    BY <1>1, <1>9
  <2> DEFINE a == dev.locks
             b == sync.locks
             c == dev'.locks
  <2>2. outputs' = Queued(outputs, a, b, c)
    BY <1>2
  <2>3. outputs # <<>> => outputs[Len(outputs)] = a
    BY <1>5
  <2>4. b \in SUBSET LockKeys /\ c \in SUBSET LockKeys
    BY <2>1
  <2> HIDE DEF a, b, c
  <2>5. outputs' \in Seq(SUBSET LockKeys)
    BY <2>1, <2>2, <2>4, Reports
  <2>6. outputs' = <<>> => outputs = <<>> /\ a = b /\ b = c
    BY <2>1, <2>2, NothingQueued
  <2>7. outputs' # <<>> => outputs'[Len(outputs')] = c
    BY <2>1, <2>2, <2>3, <2>4, Reports
  <2>8. a = b => \A i \in 1..Len(outputs') :
          outputs'[i] = c \/ (i \in 1..Len(outputs) /\ outputs'[i] = outputs[i])
    BY <2>1, <2>2, <2>4, Reports
  <2> QED BY <2>5, <2>6, <2>7, <2>8 DEF a, b, c
\* A key that is no lock synchronises the device, if its locks are known.
<1>11. ASSUME k \notin LockKeys, hidKeys \cap LockKeys = {}, deviceMod = dev.locks
       PROVE  dev'.locks = host'.locks /\ sync.locks = dev.locks
  <2>1. D = SymDiff(host'.locks, dev.locks) /\ R \cap LockKeys = {} /\ dev.report \cap LockKeys = {}
    BY <1>3, <1>5, <1>6, <1>7, <1>11
  <2>2. CASE D = {}
    <3>1. host'.locks = dev.locks
      BY <2>1, <2>2 DEF SymDiff
    <3> QED BY <1>8, <2>1, <2>2, <3>1 DEF SymDiff
  <2>3. CASE D # {}
    <3>1. (dev.report \ D) \cap LockKeys = {} /\ (D \ R) \cap LockKeys = D
      BY <1>4, <1>5, <2>1 DEF SymDiff
    <3>2. sync.locks = dev.locks
      BY <1>8, <2>3, <3>1 DEF SymDiff
    <3> QED BY <1>8, <2>1, <2>3, <3>1, <3>2 DEF SymDiff
  <2> QED BY <2>2, <2>3
<1>12. settled' # "doubt" /\ outputs' = <<>> /\ keys \cap LockKeys = {} => deviceMod' = dev'.locks
  <2>1. SUFFICES ASSUME settled' # "doubt", outputs' = <<>>, keys \cap LockKeys = {}
                 PROVE  deviceMod' = dev'.locks
    OBVIOUS
  <2>2. CASE k \in LockKeys
    <3>1. ~down /\ k \in dev.report /\ sync.report = dev.report
      BY <1>3, <1>7, <1>8, <2>1, <2>2 DEF Unsettled
    <3>2. k \in (sync.report \ R) \cap LockKeys
      BY <1>6, <1>7, <2>2, <3>1
    <3>3. dev'.locks # sync.locks
      BY <1>8, <3>2 DEF SymDiff
    <3> QED BY <1>10, <2>1, <3>3
  <2>3. CASE k \notin LockKeys
    <3>1. settled # "doubt" /\ outputs = <<>> /\ hidKeys \cap LockKeys = {}
      BY <1>3, <1>7, <1>10, <2>1, <2>3
    <3> QED BY <1>3, <1>5, <1>11, <2>3, <3>1
  <2> QED BY <2>2, <2>3
<1>13. settled' = "yes" =>
         /\ keys \cap LockKeys = {} /\ deviceMod' = host'.locks /\ dev'.locks = host'.locks
         /\ \A i \in 1..Len(outputs') : outputs'[i] = host'.locks
  <2>1. SUFFICES ASSUME settled' = "yes"
                 PROVE  /\ keys \cap LockKeys = {} /\ deviceMod' = host'.locks
                        /\ dev'.locks = host'.locks
                        /\ \A i \in 1..Len(outputs') : outputs'[i] = host'.locks
    OBVIOUS
  <2>2. k \notin LockKeys
    BY <1>3, <2>1 DEF Unsettled
  <2>3. /\ hidKeys \cap LockKeys = {} /\ deviceMod = dev.locks
        /\ \A i \in 1..Len(outputs) : outputs[i] = host'.locks
    <3>1. CASE settled = "yes"
      BY <1>4, <1>5, <2>2, <3>1
    <3>2. CASE settled # "yes"
      <4>1. settled # "doubt" /\ outputs = <<>> /\ keys \cap LockKeys = {}
        BY <1>3, <2>1, <2>2, <3>2
      <4> QED BY <1>5, <1>7, <2>2, <4>1
    <3> QED BY <3>1, <3>2
  <2>4. dev'.locks = host'.locks /\ sync.locks = dev.locks
    BY <1>11, <2>2, <2>3
  <2>5. \A i \in 1..Len(outputs') : outputs'[i] = host'.locks
    BY <1>10, <2>3, <2>4
  <2> QED BY <1>3, <1>7, <2>2, <2>3, <2>4, <2>5
<1>14. settings'.kp = "uhid" /\ dev'.report \cap LockKeys \subseteq keys
  BY <1>6, <1>8
<1> QED BY <1>9, <1>10, <1>12, <1>13, <1>14 DEF LocksFollowed, keys

LEMMA KeyKeepsLocks ==
  ASSUME InputTypeOK, LocksFollowed, NEW k, NEW down \in BOOLEAN, NEW repeat \in BOOLEAN, NEW lost,
         KeyEvent(k, down, repeat, lost)
  PROVE  LocksFollowed'
<1>1. /\ Hit(k, down, repeat) /\ KeyExcuse(k, down, lost) /\ settings' = settings
  BY KeyFrame
<1>2. /\ excuses \subseteq excuses'
      /\ "full" \notin excuses' => "full" \notin excuses /\ lost = {}
  BY <1>1, KeyExcused
<1>3. DevShape /\ outputs \in Seq(SUBSET LockKeys)
  BY DEF InputTypeOK
<1>4. CASE CaptureKey(k, down, repeat)
  <2>1. k \notin LockKeys
    BY <1>4, InputAssumption DEF CaptureKey, Modifiers, LockKeys
  <2> QED BY <1>1, <1>2, <1>4, <2>1, LocksUnseen DEF CaptureKey
<1>5. CASE ShortcutKey(k, down, repeat, lost)
  <2>1. UNCHANGED <<dev.report, dev.locks>>
    BY <1>3, <1>5, InjectFacts DEF ShortcutKey
  <2> QED BY <1>1, <1>2, <1>5, <2>1, LocksUnseen DEF ShortcutKey
<1>6. CASE PlainKey(k, down, repeat, lost)
  <2>1. CASE UNCHANGED <<hidVars, dev>> /\ Unseen(k)
    BY <1>1, <1>2, <2>1, LocksUnseen
  <2>2. CASE ~Hid /\ SdkKey(k, down, repeat, lost)
    BY <1>1, <2>2 DEF SdkKey, LocksFollowed, Hid, hidVars
  <2>3. CASE Hid /\ HidKey(k, down, repeat, lost)
    <3>1. CASE settings.kp = "uhid" /\ "full" \notin excuses'
      BY <1>1, <1>2, <2>3, <3>1, HidKeepsLocks
    <3>2. CASE settings.kp = "uhid" /\ "full" \in excuses'
      BY <1>1, <3>2 DEF LocksFollowed
    <3>3. CASE settings.kp # "uhid"
      <4>1. settled' = settled
        BY <2>3, <3>3 DEF HidKey, Hid
      <4>2. outputs' = outputs
        BY <1>3, <2>3, <3>3, HidKeyReports
      <4> QED BY <1>1, <3>3, <4>1, <4>2 DEF LocksFollowed
    <3> QED BY <3>1, <3>2, <3>3
  <2> QED BY <1>6, <2>1, <2>2, <2>3 DEF PlainKey
<1> QED BY <1>4, <1>5, <1>6 DEF KeyEvent

-----------------------------------------------------------------------------
(* The mouse and the touchscreen.                                          *)

\* One of the ways the client handles an event of button `b`.
ClickEvent(b, down, outside, lost) ==
  \/ (CaptureClick(b, down) \/ OtgClick(b, down)) /\ ~outside /\ lost = {}
  \/ LostClick(b, down, outside) /\ lost = {}
  \/ (BoundClick(b, down, lost) \/ ForwardedClick(b, down, lost)) /\ ~outside

OtherMouse(down, lost) == Move(lost) \/ Scroll(lost) \/ Touch(down, lost) \/ FocusLost

LEMMA MouseIsEvent ==
  ASSUME Mouse
  PROVE  \E down \in BOOLEAN : \E lost :
           \/ \E b \in settings.buttons, outside \in BOOLEAN : ClickEvent(b, down, outside, lost)
           \/ OtherMouse(down, lost)
<1>1. CASE FocusLost
  BY <1>1 DEF OtherMouse
<1>2. CASE \E lost : Move(lost) \/ Scroll(lost) \/ \E down \in BOOLEAN : Touch(down, lost)
  BY <1>2 DEF OtherMouse
<1>3. CASE \E b \in settings.buttons, down, outside \in BOOLEAN :
             \/ CaptureClick(b, down) \/ OtgClick(b, down) \/ LostClick(b, down, outside)
             \/ \E lost : BoundClick(b, down, lost) \/ ForwardedClick(b, down, lost)
  BY <1>3 DEF ClickEvent
<1> QED BY <1>1, <1>2, <1>3 DEF Mouse

LEMMA PushFacts ==
  ASSUME HostShape, NEW b, NEW down \in BOOLEAN, NEW outside \in BOOLEAN, Push(b, down, outside)
  PROVE  /\ HostShape' /\ (down <=> b \notin DOMAIN host.buttons)
         /\ DOMAIN host'.buttons = IF down THEN DOMAIN host.buttons \cup {b}
                                   ELSE DOMAIN host.buttons \ {b}
         /\ \A j \in DOMAIN host.buttons : j # b => host'.buttons[j] = host.buttons[j]
         /\ down => host'.buttons[b] = ButtonCircumstance(b, outside)
         /\ host'.keys = host.keys /\ host'.locks = host.locks
         /\ host'.fingers = host.fingers /\ host'.pads = host.pads
<1>1. /\ (down <=> b \notin DOMAIN host.buttons)
      /\ host' = [host EXCEPT !.buttons =
                    IF down THEN With(host.buttons, b, ButtonCircumstance(b, outside))
                    ELSE Without(host.buttons, b)]
  BY DEF Push
<1>2. /\ HostShape'
      /\ host'.buttons = (IF down THEN With(host.buttons, b, ButtonCircumstance(b, outside))
                          ELSE Without(host.buttons, b))
      /\ host'.keys = host.keys /\ host'.locks = host.locks
      /\ host'.fingers = host.fingers /\ host'.pads = host.pads
  BY <1>1 DEF HostShape
<1> QED BY <1>1, <1>2 DEF With, Without

LEMMA ClickExcused ==
  ASSUME NEW b, NEW down \in BOOLEAN, NEW outside, NEW other, NEW lost,
         ButtonExcuse(b, down, outside, other, lost)
  PROVE  /\ excuses \subseteq excuses'
         /\ excuses' = {} => /\ excuses = {} /\ lost = {} /\ ~other
                             /\ ~down => host.buttons[b] = ButtonCircumstance(b, outside)
<1> DEFINE release == other \/ (~down /\ host.buttons[b] # ButtonCircumstance(b, outside))
<1>1. Excuse(release, lost)
  BY DEF ButtonExcuse
<1> HIDE DEF release
<1>2. /\ excuses \subseteq excuses'
      /\ excuses' = {} => ~release /\ lost = {} /\ excuses = {}
  BY <1>1, Excused
<1> QED BY <1>2 DEF release

\* What reaches the device of a click that the mouse processor handles.
LEMMA ForwardedFacts ==
  ASSUME DevShape, DOMAIN im = {"buttons", "vfinger"}, NEW b, NEW down \in BOOLEAN, NEW lost,
         ForwardedClick(b, down, lost)
  PROVE  LET finger == im.vfinger \/ ChangesFinger(b, down)
             sent   == ChangesFinger(b, down) /\ ~Relative /\ "finger" \notin lost IN
         /\ DOMAIN im' = DOMAIN im /\ im'.buttons = Toggle(im.buttons, b, down)
         /\ im'.vfinger = IF sent THEN down ELSE im.vfinger
         /\ DOMAIN dev' = DOMAIN dev /\ dev'.report = dev.report /\ dev'.locks = dev.locks
         /\ dev'.pads = dev.pads /\ dev'.injected = dev.injected
         /\ lost = {} => dev'.buttons = im'.buttons
         /\ Relative => dev'.pointers = dev.pointers
         /\ "virtual" \in dev'.pointers <=> IF sent THEN down ELSE "virtual" \in dev.pointers
         /\ lost = {} /\ ~Relative =>
              LET on == down \/ (~finger /\ im'.buttons # {})
                  clicked == Toggle(dev.pointers, IF finger THEN "finger" ELSE "mouse", on) IN
              dev'.pointers = IF sent THEN Toggle(clicked, "virtual", down) ELSE clicked
<1> DEFINE buttons == Buttons(b, down)
           finger  == im.vfinger \/ ChangesFinger(b, down)
           pointer == IF finger THEN "finger" ELSE "mouse"
           clicked == IF "click" \in lost THEN dev
                      ELSE IF Relative THEN [dev EXCEPT !.buttons = buttons]
                      ELSE Click(dev, pointer, down, buttons)
           sent    == ChangesFinger(b, down) /\ ~Relative /\ "finger" \notin lost
<1>1. /\ im' = [buttons |-> buttons, vfinger |-> Finger(b, down, lost)]
      /\ dev' = IF sent THEN [clicked EXCEPT !.pointers = Toggle(clicked.pointers, "virtual", down)]
                ELSE clicked
  BY DEF ForwardedClick
<1>2. DOMAIN im' = DOMAIN im /\ im'.buttons = buttons /\ im'.vfinger = Finger(b, down, lost)
  BY <1>1
<1>3. Finger(b, down, lost) = IF sent THEN down ELSE im.vfinger
  BY DEF Finger
<1>4. /\ DOMAIN clicked = DOMAIN dev /\ clicked.report = dev.report /\ clicked.locks = dev.locks
      /\ clicked.pads = dev.pads /\ clicked.injected = dev.injected
      /\ "click" \notin lost => clicked.buttons = buttons
      /\ Relative => clicked.pointers = dev.pointers
      /\ "click" \notin lost /\ ~Relative
           => clicked.pointers = Toggle(dev.pointers, pointer,
                                        down \/ (pointer = "mouse" /\ buttons # {}))
      /\ "click" \in lost => clicked = dev
  <2>1. CASE "click" \in lost
    BY <2>1
  <2>2. CASE "click" \notin lost /\ Relative
    BY <2>2 DEF DevShape
  <2>3. CASE "click" \notin lost /\ ~Relative
    <3> HIDE DEF buttons, pointer
    <3>1. clicked = Click(dev, pointer, down, buttons)
      BY <2>3
    <3> HIDE DEF clicked
    <3> QED BY <2>3, <3>1 DEF Click, DevShape
  <2> QED BY <2>1, <2>2, <2>3
<1> HIDE DEF clicked
<1>5. /\ DOMAIN dev' = DOMAIN dev /\ dev'.report = clicked.report /\ dev'.locks = clicked.locks
      /\ dev'.pads = clicked.pads /\ dev'.injected = clicked.injected
      /\ dev'.buttons = clicked.buttons
      /\ dev'.pointers = IF sent THEN Toggle(clicked.pointers, "virtual", down)
                         ELSE clicked.pointers
  BY <1>1, <1>4 DEF DevShape
<1>6. "virtual" \in clicked.pointers <=> "virtual" \in dev.pointers
  BY <1>4 DEF Toggle
<1> HIDE DEF sent, finger
<1>7. pointer = "mouse" <=> ~finger
  OBVIOUS
<1>8. "virtual" \in dev'.pointers <=> IF sent THEN down ELSE "virtual" \in dev.pointers
  BY <1>5, <1>6 DEF Toggle
<1>9. "click" \notin {}
  OBVIOUS
<1> QED BY <1>2, <1>3, <1>4, <1>5, <1>7, <1>8, <1>9 DEF sent, finger, Buttons

LEMMA ClickFrame ==
  ASSUME InputTypeOK, NEW b, NEW down \in BOOLEAN, NEW outside \in BOOLEAN, NEW lost,
         ClickEvent(b, down, outside, lost)
  PROVE  /\ Push(b, down, outside) /\ mouseFrame
         /\ \E other : ButtonExcuse(b, down, outside, other, lost)
         /\ DOMAIN im' = DOMAIN im /\ im'.vfinger \in BOOLEAN /\ DevShape'
         /\ dev'.report = dev.report /\ dev'.locks = dev.locks /\ dev'.pads = dev.pads
<1> USE DEF InputTypeOK
<1> DEFINE Same == /\ DOMAIN dev' = DOMAIN dev /\ dev'.report = dev.report
                   /\ dev'.locks = dev.locks /\ dev'.pads = dev.pads
<1>1. Same => DevShape'
  BY DEF DevShape
<1>2. CASE CaptureClick(b, down) /\ ~outside /\ lost = {}
  BY <1>1, <1>2 DEF CaptureClick
<1>3. CASE OtgClick(b, down) /\ ~outside /\ lost = {}
  <2>1. Same
    BY <1>3 DEF OtgClick, DevShape
  <2> QED BY <1>1, <1>3, <2>1 DEF OtgClick
<1>4. CASE LostClick(b, down, outside) /\ lost = {}
  <2>1. DOMAIN im' = DOMAIN im /\ im'.vfinger = im.vfinger
    BY <1>4 DEF LostClick
  <2> QED BY <1>1, <1>4, <2>1 DEF LostClick
<1>5. CASE BoundClick(b, down, lost) /\ ~outside
  <2>1. DOMAIN im' = DOMAIN im /\ im'.vfinger = im.vfinger
    BY <1>5 DEF BoundClick
  <2>2. Same
    BY <1>5, InjectFacts DEF BoundClick
  <2> QED BY <1>1, <1>5, <2>1, <2>2 DEF BoundClick
<1>6. CASE ForwardedClick(b, down, lost) /\ ~outside
  <2>1. /\ DOMAIN im' = DOMAIN im
        /\ im'.vfinger = IF ChangesFinger(b, down) /\ ~Relative /\ "finger" \notin lost THEN down
                         ELSE im.vfinger
    BY <1>6, ForwardedFacts
  <2>2. DOMAIN dev' = DOMAIN dev
    BY <1>6, ForwardedFacts
  <2>3. dev'.report = dev.report
    BY <1>6, ForwardedFacts
  <2>4. dev'.locks = dev.locks
    BY <1>6, ForwardedFacts
  <2>5. dev'.pads = dev.pads
    BY <1>6, ForwardedFacts
  <2>6. \E other : ButtonExcuse(b, down, FALSE, other, lost)
    BY <1>6 DEF ForwardedClick
  <2> QED BY <1>1, <1>6, <2>1, <2>2, <2>3, <2>4, <2>5, <2>6 DEF ForwardedClick
<1> QED BY <1>2, <1>3, <1>4, <1>5, <1>6 DEF ClickEvent

LEMMA OtherMouseFrame ==
  ASSUME InputTypeOK, NEW down \in BOOLEAN, NEW lost, OtherMouse(down, lost)
  PROVE  /\ mouseFrame /\ UNCHANGED im /\ HostShape' /\ DevShape'
         /\ excuses \subseteq excuses'
         /\ host'.keys = host.keys /\ host'.buttons = host.buttons
         /\ host'.locks = host.locks /\ host'.pads = host.pads
         /\ dev'.injected = dev.injected /\ dev'.report = dev.report
         /\ dev'.locks = dev.locks /\ dev'.pads = dev.pads
<1> USE DEF InputTypeOK, HostShape, DevShape
<1>1. excuses \subseteq excuses'
  BY Excused DEF OtherMouse, Move, Scroll, Touch, FocusLost
<1>2. CASE Move(lost) \/ Scroll(lost)
  <2>1. CASE UNCHANGED dev
    BY <1>1, <1>2, <2>1 DEF Move, Scroll
  <2>2. CASE \E S : dev' = [dev EXCEPT !.buttons = S]
    BY <1>1, <1>2, <2>2 DEF Move, Scroll
  <2> QED BY <1>2, <2>1, <2>2 DEF Move, Scroll
<1>3. CASE Touch(down, lost)
  <2>1. mouseFrame /\ UNCHANGED im
    BY <1>3 DEF Touch
  <2>2. HostShape' /\ host'.keys = host.keys /\ host'.buttons = host.buttons
        /\ host'.locks = host.locks /\ host'.pads = host.pads
    BY <1>3 DEF Touch
  <2>3. DevShape' /\ dev'.injected = dev.injected /\ dev'.report = dev.report
        /\ dev'.locks = dev.locks /\ dev'.pads = dev.pads
    BY <1>3 DEF Touch
  <2> QED BY <1>1, <2>1, <2>2, <2>3
<1>4. CASE FocusLost
  BY <1>1, <1>4 DEF FocusLost
<1> QED BY <1>2, <1>3, <1>4 DEF OtherMouse

\* A button that is handled in circumstance `c`, where its binding is looked up.
LEMMA BindingFacts ==
  ASSUME NEW b, NEW outside
  PROVE  LET c == ButtonCircumstance(b, outside) IN
         /\ Binding(b) = Bound(b, c)
         /\ Heard(c) <=> ~paused /\ (Captures => capture.active) /\ ~outside
<1> DEFINE c == ButtonCircumstance(b, outside)
<1>1. c[1] = paused /\ c[2] = capture.active /\ c[3] = (b # "left" /\ Shift(host)) /\ c[4] = outside
  BY ButtonFacts
<1> HIDE DEF c
<1>2. Binding(b) = Bound(b, c)
  BY <1>1 DEF Binding, Bound
<1>3. Heard(c) <=> ~paused /\ (Captures => capture.active) /\ ~outside
  BY <1>1 DEF Heard
<1> QED BY <1>2, <1>3 DEF c

LEMMA ClickKeepsInjected ==
  ASSUME InputTypeOK, InjectedHeld, NEW b, NEW down \in BOOLEAN, NEW outside \in BOOLEAN, NEW lost,
         ClickEvent(b, down, outside, lost)
  PROVE  InjectedHeld'
<1> DEFINE c == ButtonCircumstance(b, outside)
<1>1. Push(b, down, outside) /\ mouseFrame
      /\ \E other : ButtonExcuse(b, down, outside, other, lost)
  BY ClickFrame
<1>2. settings' = settings
  BY <1>1 DEF mouseFrame
<1>3. /\ DOMAIN host'.buttons = IF down THEN DOMAIN host.buttons \cup {b}
                                ELSE DOMAIN host.buttons \ {b}
      /\ \A j \in DOMAIN host.buttons : j # b => host'.buttons[j] = host.buttons[j]
      /\ down => host'.buttons[b] = c
      /\ host'.keys = host.keys /\ (down <=> b \notin DOMAIN host.buttons)
  <2>1. HostShape
    BY DEF InputTypeOK
  <2> QED BY <1>1, <2>1, PushFacts
<1>4. excuses' = {} => excuses = {} /\ lost = {} /\ (~down => host.buttons[b] = c)
  BY <1>1, ClickExcused
<1>5. /\ Binding(b) = Bound(b, c)
      /\ Heard(c) <=> ~paused /\ (Captures => capture.active) /\ ~outside
  BY BindingFacts
<1> HIDE DEF c
<1> DEFINE Given(x) == \/ \E k \in DOMAIN host'.keys : KeyGives(k, host'.keys[k], x)
                       \/ \E j \in DOMAIN host'.buttons : ButtonGives(j, host'.buttons[j], x)
<1>6. ASSUME excuses' = {}, NEW x \in dev.injected, ~down => ~ButtonGives(b, c, x)
      PROVE  Given(x)
  <2>1. CASE \E k \in DOMAIN host.keys : KeyGives(k, host.keys[k], x)
    BY <1>3, <2>1
  <2>2. CASE \E j \in DOMAIN host.buttons : ButtonGives(j, host.buttons[j], x)
    <3>1. PICK j \in DOMAIN host.buttons : ButtonGives(j, host.buttons[j], x)
      BY <2>2
    <3>2. j # b
      BY <1>3, <1>4, <1>6, <3>1
    <3> QED BY <1>3, <3>1, <3>2
  <2> QED BY <1>4, <1>6, <2>1, <2>2 DEF InjectedHeld
<1>7. CASE BoundClick(b, down, lost) /\ ~outside
  <2>1. /\ ~settings.otg /\ settings.control /\ Heard(c) /\ Binding(b) # "click"
        /\ dev' = IF Binding(b) \in {"back", "home", "switch"} /\ settings.kp # "none" /\ lost = {}
                  THEN Inject(dev, Binding(b), down) ELSE dev
    BY <1>5, <1>7 DEF BoundClick
  <2>2. settings.kp = "none" => dev'.injected = {}
    BY <2>1 DEF InjectedHeld
  <2>3. ASSUME excuses' = {}, NEW x \in dev'.injected
        PROVE  Given(x)
    <3>1. CASE Binding(b) \in {"back", "home", "switch"} /\ settings.kp # "none"
      <4>1. dev'.injected = Toggle(dev.injected, Binding(b), down)
        <5>1. dev' = Inject(dev, Binding(b), down)
          BY <1>4, <2>1, <2>3, <3>1
        <5> QED BY <5>1, InjectFacts DEF InputTypeOK
      <4>2. ButtonGives(b, c, Binding(b)) /\ \A y : ButtonGives(b, c, y) => y = Binding(b)
        BY <1>5, <2>1, <3>1 DEF ButtonGives
      <4>3. CASE down
        <5>1. x \in dev.injected \/ x = Binding(b)
          BY <2>3, <4>1, <4>3 DEF Toggle
        <5>2. x = Binding(b) => Given(x)
          BY <1>3, <4>2, <4>3
        <5> QED BY <1>6, <2>3, <4>3, <5>1, <5>2
      <4>4. CASE ~down
        BY <1>6, <2>3, <4>1, <4>2, <4>4 DEF Toggle
      <4> QED BY <4>3, <4>4
    <3>2. CASE ~(Binding(b) \in {"back", "home", "switch"} /\ settings.kp # "none")
      <4>1. dev' = dev /\ ~ButtonGives(b, c, x)
        BY <1>5, <2>1, <3>2 DEF ButtonGives
      <4> QED BY <1>6, <2>3, <4>1
    <3> QED BY <3>1, <3>2
  <2> HIDE DEF Given
  <2>4. settings.otg \/ settings.kp = "none" => dev'.injected = {}
    BY <2>1, <2>2
  <2>5. excuses' = {} => \A x \in dev'.injected : Given(x)
    BY <2>3
  <2> QED BY <1>2, <2>4, <2>5 DEF InjectedHeld, Given, KeyGives, Converts, Hid, ButtonGives, Heard,
                                 Bound, Captures, Relative
<1>8. CASE ~BoundClick(b, down, lost)
  <2>1. dev'.injected = dev.injected
    <3>1. DevShape /\ DOMAIN im = {"buttons", "vfinger"}
      BY DEF InputTypeOK
    <3>2. CASE ForwardedClick(b, down, lost)
      BY <3>1, <3>2, ForwardedFacts
    <3>3. CASE CaptureClick(b, down) \/ OtgClick(b, down) \/ LostClick(b, down, outside)
      BY <3>1, <3>3 DEF CaptureClick, OtgClick, LostClick, DevShape
    <3> QED BY <1>8, <3>2, <3>3 DEF ClickEvent
  <2>2. ASSUME excuses' = {}, ~down, ~settings.otg, NEW x, ButtonGives(b, c, x)
        PROVE  FALSE
    <3>1. /\ ~paused /\ (Captures => capture.active) /\ ~outside /\ settings.control
          /\ Binding(b) # "click"
      BY <1>5, <2>2 DEF ButtonGives
    <3>2. ~CaptureClick(b, down) /\ ~OtgClick(b, down)
      BY <2>2, <3>1 DEF CaptureClick, OtgClick
    <3>3. ~LostClick(b, down, outside) /\ ~ForwardedClick(b, down, lost)
      BY <3>1 DEF LostClick, ForwardedClick
    <3> QED BY <1>8, <3>2, <3>3 DEF ClickEvent
  <2>3. excuses' = {} => \A x \in dev'.injected : Given(x)
    BY <1>6, <2>1, <2>2 DEF InjectedHeld
  <2> HIDE DEF Given
  <2>4. settings.otg \/ settings.kp = "none" => dev'.injected = {}
    BY <2>1 DEF InjectedHeld
  <2> QED BY <1>2, <2>3, <2>4 DEF InjectedHeld, Given, KeyGives, Converts, Hid, ButtonGives, Heard,
                                 Bound, Captures, Relative
<1>9. CASE BoundClick(b, down, lost) /\ outside
  BY <1>9, <1>1, <1>8 DEF ClickEvent, BoundClick, LostClick
<1> QED BY <1>7, <1>8, <1>9


\* A click that is not forwarded leaves the buttons known pressed as they are, unless
\* something else happened since they were pressed.
QuietClick(b, down, outside, lost) ==
  \/ (CaptureClick(b, down) \/ OtgClick(b, down)) /\ ~outside /\ lost = {}
  \/ LostClick(b, down, outside) /\ lost = {}
  \/ BoundClick(b, down, lost) /\ ~outside

LEMMA QuietFacts ==
  ASSUME InputTypeOK, NEW b, NEW down \in BOOLEAN, NEW outside \in BOOLEAN, NEW lost,
         QuietClick(b, down, outside, lost)
  PROVE  /\ DOMAIN im' = DOMAIN im /\ im'.vfinger = im.vfinger
         /\ im'.buttons = IF down \/ settings.otg \/ (Captures /\ ~capture.active) THEN im.buttons
                          ELSE im.buttons \ {b}
         /\ dev'.pointers = dev.pointers
         /\ dev'.buttons = IF settings.otg /\ capture.active /\ settings.mp # "none"
                           THEN DOMAIN host'.buttons ELSE dev.buttons
         /\ Clicks(b, ButtonCircumstance(b, outside)) => settings.otg \/ settings.mp = "none"
<1> USE DEF InputTypeOK
<1>1. /\ Binding(b) = Bound(b, ButtonCircumstance(b, outside))
      /\ Heard(ButtonCircumstance(b, outside))
           <=> ~paused /\ (Captures => capture.active) /\ ~outside
  BY BindingFacts
<1>2. CASE CaptureClick(b, down)
  <2>1. Captures /\ ~capture.active /\ UNCHANGED <<im, dev>>
    BY <1>2 DEF CaptureClick
  <2> QED BY <1>1, <2>1 DEF Clicks
<1>3. CASE OtgClick(b, down)
  <2>1. settings.otg /\ capture.active /\ UNCHANGED im
    BY <1>3 DEF OtgClick
  <2>2. /\ dev'.pointers = dev.pointers
        /\ dev'.buttons = IF settings.mp # "none" THEN DOMAIN host'.buttons ELSE dev.buttons
    BY <1>3 DEF OtgClick, DevShape
  <2> QED BY <2>1, <2>2
<1>4. CASE LostClick(b, down, outside)
  <2>1. /\ ~settings.otg /\ ~(Captures /\ ~capture.active) /\ UNCHANGED dev
        /\ outside \/ settings.mp = "none" \/ paused
        /\ im' = [im EXCEPT !.buttons = Released(b, down)]
    BY <1>4 DEF LostClick
  <2>2. Clicks(b, ButtonCircumstance(b, outside)) => settings.mp = "none"
    BY <1>1, <2>1 DEF Clicks
  <2> QED BY <2>1, <2>2 DEF Released
<1>5. CASE BoundClick(b, down, lost)
  <2>1. /\ ~settings.otg /\ ~(Captures /\ ~capture.active)
        /\ settings.control /\ Binding(b) # "click"
        /\ im' = [im EXCEPT !.buttons = Released(b, down)]
    BY <1>5 DEF BoundClick
  <2>2. dev'.pointers = dev.pointers /\ dev'.buttons = dev.buttons
    BY <1>5, InjectFacts DEF BoundClick
  <2>3. ~Clicks(b, ButtonCircumstance(b, outside))
    BY <1>1, <2>1 DEF Clicks
  <2> QED BY <2>1, <2>2, <2>3 DEF Released
<1> QED BY <1>2, <1>3, <1>4, <1>5 DEF QuietClick

LEMMA ClickKeepsSync ==
  ASSUME InputTypeOK, ButtonsHeld, InputManagerInSync,
         NEW b, NEW down \in BOOLEAN, NEW outside \in BOOLEAN, NEW lost,
         ClickEvent(b, down, outside, lost)
  PROVE  InputManagerInSync'
<1>1. Push(b, down, outside) /\ Relative' = Relative
  <2>1. Push(b, down, outside) /\ mouseFrame
    BY ClickFrame
  <2> QED BY <2>1 DEF mouseFrame, Relative
<1>2. DOMAIN host'.buttons = IF down THEN DOMAIN host.buttons \cup {b}
                             ELSE DOMAIN host.buttons \ {b}
  <2>1. HostShape
    BY DEF InputTypeOK
  <2> QED BY <1>1, <2>1, PushFacts
<1>3. CASE QuietClick(b, down, outside, lost)
  <2>1. /\ im'.vfinger = im.vfinger /\ dev'.pointers = dev.pointers
        /\ im'.buttons = IF down \/ settings.otg \/ (Captures /\ ~capture.active) THEN im.buttons
                         ELSE im.buttons \ {b}
    BY <1>3, QuietFacts
  <2>2. settings.otg => im.buttons = {}
    BY DEF ButtonsHeld
  <2> QED BY <1>1, <1>2, <2>1, <2>2 DEF InputManagerInSync, Captures
<1>4. CASE ForwardedClick(b, down, lost)
  <2>0. DevShape /\ DOMAIN im = {"buttons", "vfinger"}
    BY DEF InputTypeOK
  <2> DEFINE sent == ChangesFinger(b, down) /\ ~Relative /\ "finger" \notin lost
  <2>1. im'.buttons = Toggle(im.buttons, b, down)
    BY <1>4, <2>0, ForwardedFacts
  <2>2. im'.vfinger = IF sent THEN down ELSE im.vfinger
    BY <1>4, <2>0, ForwardedFacts
  <2>3. "virtual" \in dev'.pointers <=> IF sent THEN down ELSE "virtual" \in dev.pointers
    BY <1>4, <2>0, ForwardedFacts
  <2>4. im'.vfinger <=> "virtual" \in dev'.pointers
    BY <2>2, <2>3 DEF InputManagerInSync
  <2>5. ~(Relative /\ im'.vfinger)
    BY <2>2 DEF InputManagerInSync
  <2>6. ~Relative => im'.buttons \subseteq DOMAIN host'.buttons
    BY <1>2, <2>1 DEF InputManagerInSync, Toggle
  <2> QED BY <1>1, <2>4, <2>5, <2>6 DEF InputManagerInSync
<1> QED BY <1>3, <1>4 DEF ClickEvent, QuietClick

LEMMA QuietKeepsAgree ==
  ASSUME InputTypeOK, ButtonsHeld, ButtonsAgree,
         NEW b, NEW down \in BOOLEAN, NEW outside \in BOOLEAN, NEW lost,
         QuietClick(b, down, outside, lost), excuses' = {}
  PROVE  ButtonsAgree'
<1> DEFINE c == ButtonCircumstance(b, outside)
<1>1. ClickEvent(b, down, outside, lost)
  BY DEF QuietClick, ClickEvent
<1>2. /\ Push(b, down, outside) /\ mouseFrame
      /\ \E other : ButtonExcuse(b, down, outside, other, lost)
  BY <1>1, ClickFrame
<1>3. settings' = settings /\ (~down => host.buttons[b] = c)
  BY <1>2, ClickExcused DEF mouseFrame
<1>4. /\ (down <=> b \notin DOMAIN host.buttons)
      /\ DOMAIN host'.buttons = IF down THEN DOMAIN host.buttons \cup {b}
                                ELSE DOMAIN host.buttons \ {b}
      /\ \A j \in DOMAIN host.buttons : j # b => host'.buttons[j] = host.buttons[j]
  <2>1. HostShape
    BY DEF InputTypeOK
  <2> QED BY <1>2, <2>1, PushFacts
<1>5. /\ im'.vfinger = im.vfinger
      /\ im'.buttons = IF down \/ settings.otg \/ (Captures /\ ~capture.active) THEN im.buttons
                       ELSE im.buttons \ {b}
      /\ dev'.pointers = dev.pointers
      /\ dev'.buttons = IF settings.otg /\ capture.active /\ settings.mp # "none"
                        THEN DOMAIN host'.buttons ELSE dev.buttons
      /\ Clicks(b, c) => settings.otg \/ settings.mp = "none"
  BY QuietFacts
<1> HIDE DEF c
<1>6. b \notin im.buttons
  <2>1. CASE settings.otg \/ settings.mp = "none"
    BY <2>1 DEF ButtonsHeld
  <2>2. CASE ~(settings.otg \/ settings.mp = "none")
    BY <1>3, <1>4, <1>5, <2>2 DEF ButtonsAgree
  <2> QED BY <2>1, <2>2
<1>7. im'.buttons = im.buttons
  BY <1>5, <1>6
<1>8. im'.buttons \subseteq DOMAIN host'.buttons
      /\ \A j \in im'.buttons : Clicks(j, host.buttons[j]) /\ host'.buttons[j] = host.buttons[j]
  BY <1>4, <1>6, <1>7 DEF ButtonsAgree
<1>9. settings.otg => dev'.buttons \subseteq DOMAIN host'.buttons
  <2>1. CASE settings.otg /\ ~capture.active /\ ~down
    <3>1. CaptureClick(b, down)
      BY <2>1 DEF QuietClick, OtgClick, LostClick, BoundClick
    <3>2. ButtonExcuse(b, down, FALSE, ~down /\ b \in dev.buttons, {})
      BY <3>1 DEF CaptureClick
    <3>3. ~(~down /\ b \in dev.buttons)
      BY <3>2, ClickExcused
    <3> QED BY <1>4, <1>5, <2>1, <3>3 DEF ButtonsAgree
  <2>2. CASE settings.otg /\ capture.active
    BY <1>4, <1>5, <2>2 DEF ButtonsAgree, ButtonsHeld
  <2>3. CASE down
    BY <1>4, <1>5, <2>3 DEF ButtonsAgree
  <2> QED BY <2>1, <2>2, <2>3
<1> QED BY <1>3, <1>5, <1>7, <1>8, <1>9 DEF ButtonsAgree, Clicks, Heard, Bound, Captures, Relative

LEMMA ForwardedKeepsAgree ==
  ASSUME InputTypeOK, ButtonsHeld, ButtonsAgree, InputManagerInSync,
         NEW b, NEW down \in BOOLEAN, NEW lost, ForwardedClick(b, down, lost), excuses' = {}
  PROVE  ButtonsAgree'
<1> DEFINE c       == ButtonCircumstance(b, FALSE)
           finger  == im.vfinger \/ ChangesFinger(b, down)
           sent    == ChangesFinger(b, down) /\ ~Relative /\ "finger" \notin lost
           on      == down \/ (~finger /\ im'.buttons # {})
           clicked == Toggle(dev.pointers, IF finger THEN "finger" ELSE "mouse", on)
<1>0. DevShape /\ DOMAIN im = {"buttons", "vfinger"} /\ HostShape
      /\ settings \in Settings
  BY DEF InputTypeOK
<1>1. /\ Push(b, down, FALSE) /\ settings' = settings
      /\ ButtonExcuse(b, down, FALSE, finger /\ im.buttons \cup {b} # {"left"}, lost)
  BY DEF ForwardedClick, mouseFrame
<1>2. lost = {} /\ ~(finger /\ im.buttons \cup {b} # {"left"})
  BY <1>1, ClickExcused
<1>3. /\ (down <=> b \notin DOMAIN host.buttons)
      /\ DOMAIN host'.buttons = IF down THEN DOMAIN host.buttons \cup {b}
                                ELSE DOMAIN host.buttons \ {b}
      /\ \A j \in DOMAIN host.buttons : j # b => host'.buttons[j] = host.buttons[j]
      /\ down => host'.buttons[b] = c
  BY <1>0, <1>1, PushFacts
<1>4. Clicks(b, c) /\ ~settings.otg /\ settings.mp # "none"
  <2>1. /\ ~paused /\ (Captures => capture.active) /\ ~settings.otg /\ settings.mp # "none"
        /\ settings.control => Binding(b) = "click"
    BY DEF ForwardedClick
  <2>2. Binding(b) = Bound(b, c) /\ (Heard(c) <=> ~paused /\ (Captures => capture.active))
    BY BindingFacts
  <2> QED BY <2>1, <2>2 DEF Clicks
<1>5. im'.buttons = Toggle(im.buttons, b, down)
  BY <1>0, ForwardedFacts
<1>6. im'.vfinger = IF sent THEN down ELSE im.vfinger
  BY <1>0, ForwardedFacts
<1>7. dev'.buttons = im'.buttons
  BY <1>0, <1>2, ForwardedFacts
<1>8. Relative => dev'.pointers = dev.pointers
  BY <1>0, ForwardedFacts
<1>9. ~Relative => dev'.pointers = IF sent THEN Toggle(clicked, "virtual", down) ELSE clicked
  BY <1>0, <1>2, ForwardedFacts
<1>10. sent <=> ChangesFinger(b, down) /\ ~Relative
  BY <1>2
<1> HIDE DEF c, finger, sent, on, clicked
<1>11. im'.buttons \subseteq DOMAIN host'.buttons
  BY <1>3, <1>5 DEF ButtonsAgree, Toggle
<1>12. \A j \in im'.buttons : Clicks(j, host'.buttons[j])
  BY <1>3, <1>4, <1>5 DEF ButtonsAgree, Toggle
<1>13. /\ im'.vfinger => im'.buttons = {"left"} /\ "mouse" \notin dev'.pointers
       /\ "finger" \in dev'.pointers => im'.vfinger
       /\ "mouse" \in dev'.pointers => im'.buttons # {}
       /\ dev'.pointers \subseteq {"mouse", "finger", "virtual", "touch"}
  <2>1. CASE Relative
    <3>1. dev'.pointers = {}
      BY <1>8, <2>1 DEF ButtonsHeld, Relative
    <3>2. ~im'.vfinger
      BY <1>6, <1>10, <2>1 DEF InputManagerInSync
    <3> QED BY <3>1, <3>2
  <2>2. CASE ~Relative /\ sent /\ down
    <3>1. b = "left" /\ finger /\ ~im.vfinger /\ im.buttons \cup {b} = {"left"}
      BY <1>2, <1>10, <2>2 DEF ChangesFinger, finger
    <3>2. im'.buttons = {"left"} /\ im'.vfinger
      BY <1>5, <1>6, <2>2, <3>1 DEF Toggle
    <3>3. im.buttons = {} /\ "mouse" \notin dev.pointers
      BY <1>3, <2>2, <3>1 DEF ButtonsAgree
    <3>4. dev'.pointers = dev.pointers \cup {"finger", "virtual"}
      BY <1>9, <2>2, <3>1 DEF clicked, on, Toggle
    <3> QED BY <3>2, <3>3, <3>4 DEF ButtonsAgree
  <2>3. CASE ~Relative /\ sent /\ ~down
    <3>1. b = "left" /\ finger /\ im.vfinger
      BY <1>10, <2>3 DEF ChangesFinger, finger
    <3>2. ~im'.vfinger
      BY <1>6, <2>3
    <3>3. dev'.pointers = dev.pointers \ {"finger", "virtual"}
      BY <1>9, <2>3, <3>1 DEF clicked, on, Toggle
    <3> QED BY <3>1, <3>2, <3>3 DEF ButtonsAgree
  <2>4. CASE ~Relative /\ ~sent
    <3>1. ~im.vfinger
      <4>1. SUFFICES ASSUME im.vfinger
                     PROVE  FALSE
        OBVIOUS
      <4>2. im.buttons = {"left"} /\ b = "left"
        BY <1>2, <4>1 DEF ButtonsAgree, finger
      <4>3. ~down
        BY <1>3, <4>2 DEF ButtonsAgree
      <4> QED BY <1>10, <2>4, <4>1, <4>2, <4>3 DEF ChangesFinger
    <3>2. ~finger /\ ~im'.vfinger
      BY <1>6, <1>10, <2>4, <3>1 DEF finger
    <3>3. dev'.pointers = Toggle(dev.pointers, "mouse", down \/ im'.buttons # {})
      BY <1>9, <2>4, <3>2 DEF clicked, on
    <3>4. down => im'.buttons # {}
      BY <1>5 DEF Toggle
    <3> QED BY <3>1, <3>2, <3>3, <3>4 DEF ButtonsAgree, Toggle
  <2> QED BY <2>1, <2>2, <2>3, <2>4
<1> QED BY <1>1, <1>4, <1>7, <1>11, <1>12, <1>13
    DEF ButtonsAgree, Clicks, Heard, Bound, Captures, Relative

LEMMA ClickKeepsButtons ==
  ASSUME InputTypeOK, ButtonsHeld, InputManagerInSync,
         NEW b, NEW down \in BOOLEAN, NEW outside \in BOOLEAN, NEW lost,
         ClickEvent(b, down, outside, lost)
  PROVE  ButtonsHeld'
<1>1. /\ settings' = settings /\ paused' = paused
      /\ excuses' = {} => excuses = {}
  <2>1. mouseFrame /\ \E other : ButtonExcuse(b, down, outside, other, lost)
    BY ClickFrame
  <2> QED BY <2>1, ClickExcused DEF mouseFrame
<1>2. excuses = {} => ButtonsAgree
  BY DEF ButtonsHeld
<1>3. CASE QuietClick(b, down, outside, lost)
  <2>1. /\ im'.vfinger = im.vfinger /\ dev'.pointers = dev.pointers
        /\ im'.buttons \subseteq im.buttons
        /\ settings.mp = "none" => dev'.buttons = dev.buttons
    BY <1>3, QuietFacts
  <2>2. excuses' = {} => ButtonsAgree'
    BY <1>1, <1>2, <1>3, QuietKeepsAgree
  <2> QED BY <1>1, <2>1, <2>2 DEF ButtonsHeld
<1>4. CASE ForwardedClick(b, down, lost)
  <2>0. DevShape /\ DOMAIN im = {"buttons", "vfinger"} /\ settings \in Settings
    BY DEF InputTypeOK
  <2>1. ~settings.otg /\ settings.mp # "none"
    BY <1>4 DEF ForwardedClick
  <2>2. settings.mp # "sdk" => Relative
    BY <2>0, <2>1, SettingsFacts DEF Relative
  <2>3. Relative => dev'.pointers = dev.pointers
    BY <1>4, <2>0, ForwardedFacts
  <2>4. Relative => im'.vfinger = im.vfinger
    BY <1>4, <2>0, ForwardedFacts
  <2>5. excuses' = {} => ButtonsAgree'
    BY <1>1, <1>2, <1>4, ForwardedKeepsAgree
  <2> QED BY <1>1, <2>1, <2>2, <2>3, <2>4, <2>5 DEF ButtonsHeld
<1> QED BY <1>3, <1>4 DEF ClickEvent, QuietClick

-----------------------------------------------------------------------------
(* What leaves a part of the invariant as it is.                           *)

Excusing == excuses \subseteq excuses'

LEMMA InjectedFrame ==
  ASSUME InjectedHeld, settings' = settings, Excusing, dev'.injected = dev.injected,
         host'.keys = host.keys, host'.buttons = host.buttons
  PROVE  InjectedHeld'
BY DEF Excusing, InjectedHeld, KeyGives, Converts, Hid, ButtonGives, Heard, Bound, Captures,
       Relative

LEMMA ReportFrame ==
  ASSUME ReportHeld, UNCHANGED <<settings, hidKeys>>, Excusing, dev'.report = dev.report,
         host'.keys = host.keys
  PROVE  ReportHeld'
<1>1. Pressed' = Pressed
  BY DEF Pressed
<1> QED BY <1>1 DEF Excusing, ReportHeld, Hid

LEMMA LocksFrame ==
  ASSUME LocksFollowed, UNCHANGED <<settings, hidVars, settled>>, Excusing,
         dev'.report = dev.report, dev'.locks = dev.locks, host'.locks = host.locks
  PROVE  LocksFollowed'
BY DEF Excusing, LocksFollowed, hidVars

LEMMA ButtonsFrame ==
  ASSUME ButtonsHeld, InputManagerInSync, UNCHANGED <<settings, im>>, Excusing,
         settings.otg => paused' = paused,
         dev'.buttons = dev.buttons, dev'.pointers = dev.pointers, host'.buttons = host.buttons
  PROVE  ButtonsHeld' /\ InputManagerInSync'
<1>1. ButtonsAgree => ButtonsAgree'
  BY DEF ButtonsAgree, Clicks, Heard, Bound, Captures, Relative
<1>2. ButtonsHeld'
  BY <1>1 DEF Excusing, ButtonsHeld
<1> QED BY <1>2 DEF InputManagerInSync, Relative

LEMMA TouchFrame ==
  ASSUME TouchHeld, Excusing, host'.fingers = host.fingers,
         excuses' = {} /\ "touch" \in dev'.pointers => "touch" \in dev.pointers
  PROVE  TouchHeld'
BY DEF Excusing, TouchHeld

LEMMA PadsFrame ==
  ASSUME PadsMatch, UNCHANGED slots, Excusing, dev'.pads = dev.pads, host'.pads = host.pads
  PROVE  PadsMatch'
<1>1. excuses' = {} => excuses = {}
  BY DEF Excusing
<1> QED BY <1>1 DEF PadsMatch, Slot

\* The parts of the invariant; InputInv is their conjunction.
LEMMA TypesFrame ==
  ASSUME InputTypeOK, UNCHANGED settings, paused' \in BOOLEAN, DOMAIN im' = DOMAIN im,
         im'.vfinger \in BOOLEAN, UNCHANGED slots, HostShape', DevShape', host'.pads = host.pads,
         deviceMod' \subseteq LockKeys, host'.locks \subseteq LockKeys,
         dev'.locks \subseteq LockKeys, outputs' \in Seq(SUBSET LockKeys),
         settled' \in {"no", "doubt", "yes"}
  PROVE  InputTypeOK'
BY DEF InputTypeOK

-----------------------------------------------------------------------------
(* Every step of the keys keeps the invariant.                             *)

LEMMA KeyTypes ==
  ASSUME InputTypeOK, NEW k, NEW down \in BOOLEAN, NEW repeat \in BOOLEAN, NEW lost,
         KeyEvent(k, down, repeat, lost)
  PROVE  InputTypeOK'
<1> USE DEF InputTypeOK
<1>1. /\ Hit(k, down, repeat) /\ UNCHANGED <<settings, im, slots>>
      /\ DevShape' /\ paused' \in BOOLEAN
  BY KeyFrame
<1>2. /\ HostShape' /\ host'.pads = host.pads
      /\ host'.locks = IF down /\ ~repeat /\ k \in LockKeys THEN SymDiff(host.locks, {k})
                       ELSE host.locks
  <2>1. HostShape
    OBVIOUS
  <2> HIDE DEF InputTypeOK
  <2> QED BY <1>1, <2>1, HitFacts
<1>3. host'.locks \subseteq LockKeys
  BY <1>2 DEF SymDiff
<1>4. /\ deviceMod' \subseteq LockKeys /\ dev'.locks \subseteq LockKeys
      /\ outputs' \in Seq(SUBSET LockKeys) /\ settled' \in {"no", "doubt", "yes"}
  <2>1. CASE CaptureKey(k, down, repeat)
    BY <2>1 DEF CaptureKey, hidVars
  <2>2. CASE ShortcutKey(k, down, repeat, lost)
    <3>1. dev'.locks = dev.locks
      BY <2>2, InjectFacts DEF ShortcutKey
    <3> QED BY <2>2, <3>1 DEF ShortcutKey, Unseen, Unsettled, hidVars
  <2>3. CASE PlainKey(k, down, repeat, lost)
    <3>1. CASE UNCHANGED <<hidVars, dev>> /\ Unseen(k)
      BY <3>1 DEF Unseen, Unsettled, hidVars
    <3>2. CASE SdkKey(k, down, repeat, lost)
      <4>1. dev'.locks = dev.locks
        BY <3>2, InjectFacts DEF SdkKey
      <4> QED BY <3>2, <4>1 DEF SdkKey, hidVars
    <3>3. CASE HidKey(k, down, repeat, lost)
      <4>1. PICK sync :
              /\ DOMAIN sync = DOMAIN dev
              /\ sync = dev \/ sync = HidReport(dev, Unsynchronized(k))
              /\ dev' = sync \/ dev' = HidReport(sync, Report(hidKeys', Mods(host')))
              /\ settings.kp = "uhid"
                   => outputs' = Queued(outputs, dev.locks, sync.locks, dev'.locks)
              /\ settings.kp # "uhid" => outputs' = outputs
        <5>1. DevShape /\ outputs \in Seq(SUBSET LockKeys)
          OBVIOUS
        <5> HIDE DEF InputTypeOK
        <5> QED BY <3>3, <5>1, HidKeyReports
      <4>2. ASSUME NEW d, DOMAIN d = DOMAIN dev, d.locks \subseteq LockKeys, NEW R
            PROVE  HidReport(d, R).locks \subseteq LockKeys
        <5>1. HidReport(d, R).locks = SymDiff(d.locks, (d.report \ R) \cap LockKeys)
          BY <4>2 DEF HidReport, DevShape
        <5> QED BY <4>2, <5>1 DEF SymDiff
      <4>3. sync.locks \subseteq LockKeys
        BY <4>1, <4>2
      <4>4. dev'.locks \subseteq LockKeys
        BY <4>1, <4>2, <4>3
      <4>5. outputs' \in Seq(SUBSET LockKeys)
        <5>1. Queued(outputs, dev.locks, sync.locks, dev'.locks) \in Seq(SUBSET LockKeys)
          <6>1. sync.locks \in SUBSET LockKeys /\ dev'.locks \in SUBSET LockKeys
            BY <4>3, <4>4
          <6> QED BY <6>1, Reports
        <5> QED BY <4>1, <5>1
      <4>6. deviceMod' \subseteq LockKeys
        BY <1>3, <3>3 DEF HidKey, SymDiff
      <4>7. settled' \in {"no", "doubt", "yes"}
        BY <3>3 DEF HidKey, Unsettled
      <4> QED BY <4>4, <4>5, <4>6, <4>7
    <3> QED BY <2>3, <3>1, <3>2, <3>3 DEF PlainKey
  <2> QED BY <2>1, <2>2, <2>3 DEF KeyEvent
<1> QED BY <1>1, <1>2, <1>3, <1>4, TypesFrame

LEMMA KeyEventStep ==
  ASSUME InputInv, NEW k, NEW down \in BOOLEAN, NEW repeat \in BOOLEAN, NEW lost,
         KeyEvent(k, down, repeat, lost)
  PROVE  InputInv'
<1> USE DEF InputInv, HostInSync
<1>2. /\ Hit(k, down, repeat) /\ KeyExcuse(k, down, lost) /\ UNCHANGED <<settings, im, slots>>
      /\ UNCHANGED <<dev.buttons, dev.pointers, dev.pads>>
      /\ settings.otg => paused' = paused
  BY KeyFrame
<1>3. /\ host'.buttons = host.buttons /\ host'.fingers = host.fingers /\ host'.pads = host.pads
  <2>1. HostShape
    BY DEF InputTypeOK
  <2> QED BY <1>2, <2>1, HitFacts
<1>4. Excusing
  BY <1>2, KeyExcused DEF Excusing
<1>5. InputTypeOK'
  BY KeyTypes
<1>6. InjectedHeld'
  BY KeyKeepsInjected
<1>7. ReportHeld'
  BY KeyKeepsReport
<1>8. TypedOnce'
  BY KeyKeepsTyped
<1>9. LocksFollowed'
  BY KeyKeepsLocks
<1>10. ButtonsHeld' /\ InputManagerInSync'
  BY <1>2, <1>3, <1>4, ButtonsFrame
<1>11. TouchHeld'
  BY <1>2, <1>3, <1>4, TouchFrame
<1>12. PadsMatch'
  BY <1>2, <1>3, <1>4, PadsFrame
<1> QED BY <1>5, <1>6, <1>7, <1>8, <1>9, <1>10, <1>11, <1>12

LEMMA KeyStep ==
  ASSUME InputInv, Key
  PROVE  InputInv'
BY KeyIsEvent, KeyEventStep

LEMMA ClickStep ==
  ASSUME InputInv, NEW b, NEW down \in BOOLEAN, NEW outside \in BOOLEAN, NEW lost,
         ClickEvent(b, down, outside, lost)
  PROVE  InputInv'
<1> USE DEF InputInv, HostInSync
<1>1. /\ Push(b, down, outside) /\ mouseFrame
      /\ \E other : ButtonExcuse(b, down, outside, other, lost)
      /\ DOMAIN im' = DOMAIN im /\ im'.vfinger \in BOOLEAN /\ DevShape'
      /\ dev'.report = dev.report /\ dev'.locks = dev.locks /\ dev'.pads = dev.pads
  BY ClickFrame
<1>2. /\ UNCHANGED <<settings, paused, hidKeys, deviceMod, outputs, slots, settled, typed>>
      /\ UNCHANGED <<settings, hidVars, settled>>
  BY <1>1 DEF mouseFrame, hidVars
<1>3. /\ HostShape' /\ host'.keys = host.keys /\ host'.locks = host.locks
      /\ host'.fingers = host.fingers /\ host'.pads = host.pads
  <2>1. HostShape
    BY DEF InputTypeOK
  <2> QED BY <1>1, <2>1, PushFacts
<1>4. Excusing /\ (excuses' = {} => lost = {})
  BY <1>1, ClickExcused DEF Excusing
<1>5. InputTypeOK'
  BY <1>1, <1>2, <1>3 DEF InputTypeOK
<1>6. InjectedHeld'
  BY ClickKeepsInjected
<1>7. ReportHeld'
  BY <1>1, <1>2, <1>3, <1>4, ReportFrame
<1>8. TypedOnce'
  BY <1>2 DEF TypedOnce
<1>9. LocksFollowed'
  BY <1>1, <1>2, <1>3, <1>4, LocksFrame
<1>10. ButtonsHeld' /\ InputManagerInSync'
  BY ClickKeepsButtons, ClickKeepsSync
<1>11. TouchHeld'
  <2>1. ASSUME excuses' = {}, "touch" \in dev'.pointers
        PROVE  "touch" \in dev.pointers
    <3>1. CASE QuietClick(b, down, outside, lost)
      <4>1. dev'.pointers = dev.pointers
        BY <3>1, QuietFacts
      <4> QED BY <2>1, <4>1
    <3>2. CASE ForwardedClick(b, down, lost)
      <4> DEFINE sent == ChangesFinger(b, down) /\ ~Relative /\ "finger" \notin lost
                 finger  == im.vfinger \/ ChangesFinger(b, down)
                 on == down \/ (~finger /\ im'.buttons # {})
                 clicked == Toggle(dev.pointers, IF finger THEN "finger" ELSE "mouse", on)
      <4>0. DevShape /\ DOMAIN im = {"buttons", "vfinger"}
        BY DEF InputTypeOK
      <4>1. Relative => dev'.pointers = dev.pointers
        BY <3>2, <4>0, ForwardedFacts
      <4>2. ~Relative => dev'.pointers = IF sent THEN Toggle(clicked, "virtual", down) ELSE clicked
        BY <1>4, <2>1, <3>2, <4>0, ForwardedFacts
      <4> QED BY <2>1, <4>1, <4>2 DEF Toggle
    <3> QED BY <3>1, <3>2 DEF ClickEvent, QuietClick
  <2> QED BY <1>3, <1>4, <2>1, TouchFrame
<1>12. PadsMatch'
  BY <1>1, <1>2, <1>3, <1>4, PadsFrame
<1> QED BY <1>5, <1>6, <1>7, <1>8, <1>9, <1>10, <1>11, <1>12

LEMMA OtherMouseKeepsButtons ==
  ASSUME InputTypeOK, ButtonsHeld, InputManagerInSync, TouchHeld, NEW down \in BOOLEAN, NEW lost,
         OtherMouse(down, lost)
  PROVE  ButtonsHeld' /\ InputManagerInSync' /\ TouchHeld'
<1> USE DEF InputTypeOK
<1>1. /\ UNCHANGED <<settings, im>> /\ paused' = paused /\ Excusing
      /\ host'.buttons = host.buttons /\ settings \in Settings
  BY OtherMouseFrame DEF mouseFrame, Excusing
<1>2. CASE Move(lost) \/ Scroll(lost)
  <2>1. settings.mp # "none" /\ host' = host /\ dev'.pointers = dev.pointers
    BY <1>2 DEF Move, Scroll, DevShape
  <2>2. ASSUME excuses' = {}, ButtonsAgree
        PROVE  /\ settings.otg => dev'.buttons \subseteq DOMAIN host.buttons
               /\ ~settings.otg => dev'.buttons = im.buttons
    <3>1. CASE dev' = dev
      BY <2>2, <3>1 DEF ButtonsAgree
    <3>2. CASE Move(lost) /\ dev' # dev
      <4>1. dev'.buttons = IF settings.otg THEN DOMAIN host.buttons ELSE im.buttons
        BY <3>2 DEF Move, DevShape
      <4> QED BY <4>1
    <3>3. CASE Scroll(lost) /\ dev' # dev
      <4>1. dev'.buttons = {} /\ Relative
        BY <3>3 DEF Scroll, DevShape
      <4>2. Excuse(Relative /\ DOMAIN host.buttons # {}, lost)
        BY <3>3 DEF Scroll
      <4>3. DOMAIN host.buttons = {}
        BY <2>2, <4>1, <4>2, Excused
      <4> QED BY <2>2, <4>1, <4>3 DEF ButtonsAgree
    <3> QED BY <1>2, <3>1, <3>2, <3>3
  <2>3. excuses' = {} => ButtonsAgree'
    <3>1. SUFFICES ASSUME excuses' = {}
                   PROVE  ButtonsAgree'
      OBVIOUS
    <3>2. ButtonsAgree
      BY <1>1, <3>1 DEF Excusing, ButtonsHeld
    <3> QED BY <1>1, <2>1, <2>2, <3>1, <3>2
        DEF ButtonsAgree, Clicks, Heard, Bound, Captures, Relative
  <2>4. ButtonsHeld'
    BY <1>1, <2>1, <2>3 DEF ButtonsHeld
  <2>5. InputManagerInSync'
    BY <1>1, <2>1 DEF InputManagerInSync, Relative
  <2>6. TouchHeld'
    BY <1>1, <2>1, TouchFrame
  <2> QED BY <2>4, <2>5, <2>6
<1>3. CASE Touch(down, lost)
  <2>1. /\ down <=> host.fingers = <<>>
        /\ host'.fingers = IF down THEN <<paused>> ELSE <<>>
        /\ Excuse(~down /\ host.fingers # <<paused>>, lost)
        /\ dev'.buttons = dev.buttons
        /\ dev'.pointers = IF settings.mp = "sdk" /\ ~paused /\ lost = {}
                           THEN Toggle(dev.pointers, "touch", down) ELSE dev.pointers
    BY <1>3 DEF Touch, HostShape, DevShape
  <2>2. excuses' = {} => lost = {} /\ (~down => host.fingers = <<paused>>)
    BY <2>1, Excused
  <2>3. ButtonsAgree => ButtonsAgree'
    BY <1>1, <2>1 DEF ButtonsAgree, Clicks, Heard, Bound, Captures, Relative, Toggle
  <2>4. ButtonsHeld'
    BY <1>1, <2>1, <2>3 DEF ButtonsHeld, Excusing
  <2>5. InputManagerInSync'
    BY <1>1, <2>1 DEF InputManagerInSync, Relative, Toggle
  <2>6. host'.fingers \in {<<>>, <<TRUE>>, <<FALSE>>}
    BY <2>1
  <2>7. ASSUME excuses' = {}, "touch" \in dev'.pointers
        PROVE  host'.fingers = <<FALSE>>
    <3>1. excuses = {} /\ lost = {}
      BY <1>1, <2>2, <2>7 DEF Excusing
    <3>2. settings.mp = "sdk"
      BY <2>1, <2>7 DEF ButtonsHeld
    <3>3. CASE down
      <4>1. "touch" \notin dev.pointers
        <5>1. host.fingers = <<>> /\ <<>> # <<FALSE>>
          BY <2>1, <3>3
        <5> QED BY <3>1, <5>1 DEF TouchHeld
      <4> QED BY <2>1, <2>7, <3>3, <4>1
    <3>4. CASE ~down
      <4>1. paused /\ "touch" \in dev.pointers /\ host.fingers = <<paused>>
        BY <2>1, <2>2, <2>7, <3>1, <3>2, <3>4 DEF Toggle
      <4>2. host.fingers = <<FALSE>>
        BY <3>1, <4>1 DEF TouchHeld
      <4>3. <<paused>>[1] = <<FALSE>>[1]
        BY <4>1, <4>2
      <4> QED BY <4>1, <4>3
    <3> QED BY <3>3, <3>4
  <2> QED BY <2>4, <2>5, <2>6, <2>7 DEF TouchHeld
<1>4. CASE FocusLost
  <2>1. host' = host /\ dev' = dev
    BY <1>4 DEF FocusLost
  <2>2. ButtonsHeld' /\ InputManagerInSync'
    BY <1>1, <2>1, ButtonsFrame
  <2>3. TouchHeld'
    BY <1>1, <2>1, TouchFrame
  <2> QED BY <2>2, <2>3
<1> QED BY <1>2, <1>3, <1>4 DEF OtherMouse

LEMMA OtherMouseStep ==
  ASSUME InputInv, NEW down \in BOOLEAN, NEW lost, OtherMouse(down, lost)
  PROVE  InputInv'
<1> USE DEF InputInv, HostInSync
<1>1. /\ mouseFrame /\ UNCHANGED im /\ HostShape' /\ DevShape' /\ Excusing
      /\ host'.keys = host.keys /\ host'.buttons = host.buttons
      /\ host'.locks = host.locks /\ host'.pads = host.pads
      /\ dev'.injected = dev.injected /\ dev'.report = dev.report
      /\ dev'.locks = dev.locks /\ dev'.pads = dev.pads
  BY OtherMouseFrame DEF Excusing
<1>2. /\ UNCHANGED <<settings, paused, hidKeys, deviceMod, outputs, slots, settled, typed>>
      /\ UNCHANGED <<settings, hidVars, settled>>
  BY <1>1 DEF mouseFrame, hidVars
<1>3. InputTypeOK'
  BY <1>1, <1>2 DEF InputTypeOK
<1>4. InjectedHeld'
  BY <1>1, <1>2, InjectedFrame
<1>5. ReportHeld'
  BY <1>1, <1>2, ReportFrame
<1>6. LocksFollowed'
  BY <1>1, <1>2, LocksFrame
<1>7. PadsMatch'
  BY <1>1, <1>2, PadsFrame
<1>8. TypedOnce'
  BY <1>2 DEF TypedOnce
<1> QED BY <1>3, <1>4, <1>5, <1>6, <1>7, <1>8, OtherMouseKeepsButtons

LEMMA MouseStep ==
  ASSUME InputInv, Mouse
  PROVE  InputInv'
BY MouseIsEvent, ClickStep, OtherMouseStep

-----------------------------------------------------------------------------
(* The reports of the device, the locks toggled outside, the gamepads.     *)

LEMMA TailFacts ==
  ASSUME NEW T, NEW q \in Seq(T), q # <<>>
  PROVE  /\ Head(q) = q[1] /\ q[1] \in T
         /\ Tail(q) \in Seq(T) /\ Len(Tail(q)) = Len(q) - 1
         /\ \A i \in 1..Len(Tail(q)) : i + 1 \in 1..Len(q) /\ Tail(q)[i] = q[i + 1]
         /\ Len(q) \in Nat /\ Len(q) > 0
         /\ Tail(q) = <<>> <=> Len(q) = 1
<1>1. Len(q) \in Nat /\ Len(q) > 0
  OBVIOUS
<1>2. Head(q) = q[1] /\ q[1] \in T
  BY <1>1
<1>3. Tail(q) \in Seq(T) /\ Len(Tail(q)) = Len(q) - 1
  BY <1>1
<1>4. \A i \in 1..Len(Tail(q)) : i + 1 \in 1..Len(q) /\ Tail(q)[i] = q[i + 1]
  BY <1>1, <1>3
<1>5. Tail(q) = <<>> <=> Len(q) = 1
  BY <1>1, <1>3
<1> QED BY <1>1, <1>2, <1>3, <1>4, <1>5

LEMMA HidOutputStep ==
  ASSUME InputInv, HidOutput
  PROVE  InputInv'
<1> USE DEF InputInv, HostInSync
<1>1. /\ outputs # <<>> /\ deviceMod' = Head(outputs) /\ outputs' = Tail(outputs)
      /\ settled' = IF settled = "doubt" THEN "no" ELSE settled
      /\ UNCHANGED <<settings, paused, im, hidKeys, slots, host, dev, excuses, typed>>
  BY DEF HidOutput
<1>2. /\ outputs \in Seq(SUBSET LockKeys) /\ settled \in {"no", "doubt", "yes"}
  BY DEF InputTypeOK
<1>3. /\ Head(outputs) = outputs[1] /\ outputs[1] \in SUBSET LockKeys
      /\ Tail(outputs) \in Seq(SUBSET LockKeys) /\ Len(Tail(outputs)) = Len(outputs) - 1
      /\ \A i \in 1..Len(Tail(outputs)) : i + 1 \in 1..Len(outputs)
                                          /\ Tail(outputs)[i] = outputs[i + 1]
      /\ Len(outputs) \in Nat /\ Len(outputs) > 0
      /\ Tail(outputs) = <<>> <=> Len(outputs) = 1
  BY <1>1, <1>2, TailFacts
<1>4. InputTypeOK'
  BY <1>1, <1>2, <1>3 DEF InputTypeOK, HostShape, DevShape
<1>5. Excusing
  BY <1>1 DEF Excusing
<1>6. LocksFollowed'
  <2>1. settings.kp = "uhid"
    BY <1>1 DEF LocksFollowed
  <2>2. SUFFICES ASSUME "full" \notin excuses
                 PROVE  LocksFollowed'
    BY <1>1, <2>1 DEF LocksFollowed
  <2>3. /\ outputs[Len(outputs)] = dev.locks
        /\ dev.report \cap LockKeys \subseteq hidKeys
        /\ settled = "yes" =>
             /\ hidKeys \cap LockKeys = {} /\ deviceMod = host.locks /\ dev.locks = host.locks
             /\ \A i \in 1..Len(outputs) : outputs[i] = host.locks
    BY <1>1, <2>1, <2>2 DEF LocksFollowed
  <2>4. outputs' # <<>> => outputs'[Len(outputs')] = dev.locks
    BY <1>1, <1>3, <2>3
  <2>5. outputs' = <<>> => deviceMod' = dev.locks
    BY <1>1, <1>3, <2>3
  <2>6. settled' = "yes" =>
          /\ hidKeys \cap LockKeys = {} /\ deviceMod' = host.locks /\ dev.locks = host.locks
          /\ \A i \in 1..Len(outputs') : outputs'[i] = host.locks
    <3>1. 1 \in 1..Len(outputs)
      BY <1>3
    <3> QED BY <1>1, <1>3, <2>3, <3>1
  <2> QED BY <1>1, <2>1, <2>3, <2>4, <2>5, <2>6 DEF LocksFollowed
<1>7. InjectedHeld'
  BY <1>1, <1>5, InjectedFrame
<1>8. ReportHeld'
  BY <1>1, <1>5, ReportFrame
<1>9. ButtonsHeld' /\ InputManagerInSync'
  BY <1>1, <1>5, ButtonsFrame
<1>10. TouchHeld'
  BY <1>1, <1>5, TouchFrame
<1>11. PadsMatch'
  BY <1>1, <1>5, PadsFrame
<1>12. TypedOnce'
  BY <1>1 DEF TypedOnce
<1> QED BY <1>4, <1>6, <1>7, <1>8, <1>9, <1>10, <1>11, <1>12

LEMMA ToggleStep ==
  ASSUME InputInv, ToggleOutside
  PROVE  InputInv'
<1> USE DEF InputInv, HostInSync
<1>1. PICK k \in settings.keys \cap LockKeys :
        /\ host' = [host EXCEPT !.locks = SymDiff(host.locks, {k})] /\ settled' = Unsettled
        /\ UNCHANGED <<settings, paused, im, hidVars, slots, dev, excuses, typed>>
  BY DEF ToggleOutside
<1>2. /\ HostShape' /\ host'.keys = host.keys /\ host'.buttons = host.buttons
      /\ host'.fingers = host.fingers /\ host'.pads = host.pads
      /\ host'.locks = SymDiff(host.locks, {k})
  BY <1>1 DEF InputTypeOK, HostShape
<1>3. host'.locks \subseteq LockKeys
  BY <1>1, <1>2 DEF InputTypeOK, SymDiff
<1>4. Excusing /\ UNCHANGED <<hidKeys, deviceMod, outputs>>
  BY <1>1 DEF Excusing, hidVars
<1>5. InputTypeOK'
  BY <1>1, <1>2, <1>3, <1>4 DEF InputTypeOK, DevShape, Unsettled
<1>6. LocksFollowed'
  BY <1>1, <1>4 DEF LocksFollowed, Unsettled
<1>7. InjectedHeld'
  BY <1>1, <1>2, <1>4, InjectedFrame
<1>8. ReportHeld'
  BY <1>1, <1>2, <1>4, ReportFrame
<1>9. ButtonsHeld' /\ InputManagerInSync'
  BY <1>1, <1>2, <1>4, ButtonsFrame
<1>10. TouchHeld'
  BY <1>1, <1>2, <1>4, TouchFrame
<1>11. PadsMatch'
  BY <1>1, <1>2, <1>4, PadsFrame
<1>12. TypedOnce'
  BY <1>1 DEF TypedOnce
<1> QED BY <1>5, <1>6, <1>7, <1>8, <1>9, <1>10, <1>11, <1>12

\* A gamepad has one slot; at most one slot is the first free one.
LEMMA SlotFacts ==
  ASSUME PadsMatch, NEW p
  PROVE  /\ \A i \in SlotOf(p) : i \in Slot /\ slots[i].pad = p
         /\ p # None => \A i \in Slot : slots[i].pad = p => i \in SlotOf(p)
         /\ \A i, j \in SlotOf(p) : i = j
<1>1. \A i \in SlotOf(p) : i \in Slot /\ slots[i].pad = p /\ \A j \in 0..i - 1 : slots[j].pad # p
  BY DEF SlotOf
<1>2. MaxPads \in Nat
  BY InputAssumption
<1>3. ASSUME p # None, NEW i \in Slot, slots[i].pad = p
      PROVE  i \in SlotOf(p)
  <2>1. \A j \in Slot \ {i} : slots[j].pad # p
    BY <1>3 DEF PadsMatch
  <2>2. \A j \in 0..i - 1 : j \in Slot \ {i}
    BY <1>2 DEF Slot
  <2> QED BY <1>3, <2>1, <2>2 DEF SlotOf
<1>4. ASSUME NEW i \in SlotOf(p), NEW j \in SlotOf(p), i < j
      PROVE  FALSE
  <2>1. i \in 0..j - 1
    BY <1>1, <1>2, <1>4 DEF Slot
  <2> QED BY <1>1, <2>1
<1>5. \A i, j \in SlotOf(p) : i < j \/ j < i \/ i = j
  BY <1>1, <1>2 DEF Slot
<1> QED BY <1>1, <1>3, <1>4, <1>5

PadEvent(p, down, lost) == PadAdded(p) \/ PadRemoved(p) \/ PadInput(p, down, lost)

LEMMA PadKeepsMatch ==
  ASSUME InputTypeOK, PadsMatch, NEW p \in settings.pads, NEW down \in BOOLEAN, NEW lost,
         PadEvent(p, down, lost)
  PROVE  /\ PadsMatch' /\ DOMAIN host'.pads \subseteq settings.pads
         /\ DOMAIN slots' = Slot /\ \A i \in Slot : DOMAIN slots'[i] = {"pad", "pressed"}
         /\ Excusing /\ padFrame /\ HostShape' /\ DevShape'
         /\ host'.keys = host.keys /\ host'.buttons = host.buttons
         /\ host'.fingers = host.fingers /\ host'.locks = host.locks
         /\ dev'.injected = dev.injected /\ dev'.report = dev.report
         /\ dev'.buttons = dev.buttons /\ dev'.pointers = dev.pointers /\ dev'.locks = dev.locks
<1>0. /\ HostShape /\ DevShape /\ DOMAIN host.pads \subseteq settings.pads
      /\ DOMAIN slots = Slot /\ \A i \in Slot : DOMAIN slots[i] = {"pad", "pressed"}
      /\ p # None /\ paused \in BOOLEAN
  BY SettingsFacts DEF InputTypeOK
<1>1. /\ \A i \in SlotOf(p) : slots[i].pad = p
      /\ \A i \in Slot : slots[i].pad = p => i \in SlotOf(p)
      /\ \A i \in SlotOf(None) : slots[i].pad = None
      /\ \A i, j \in SlotOf(None) : i = j
  BY <1>0, SlotFacts
<1>2. \A i \in Slot :
        /\ dev.pads[i] = "none" <=> slots[i].pad = None
        /\ slots[i].pad # None =>
             /\ slots[i].pad \in DOMAIN host.pads
             /\ \A j \in Slot \ {i} : slots[j].pad # slots[i].pad
             /\ excuses = {} => (dev.pads[i] = "pressed" <=> host.pads[slots[i].pad] = <<FALSE>>)
  BY DEF PadsMatch
<1>3. CASE PadAdded(p)
  <2>1. /\ p \notin DOMAIN host.pads /\ padFrame /\ excuses' = excuses
        /\ host' = [host EXCEPT !.pads = With(host.pads, p, <<>>)]
        /\ slots' = [i \in Slot |-> IF i \in SlotOf(None) THEN [pad |-> p, pressed |-> FALSE]
                                    ELSE slots[i]]
        /\ dev' = [dev EXCEPT !.pads = [i \in Slot |-> IF i \in SlotOf(None) THEN "idle"
                                                       ELSE dev.pads[i]]]
    BY <1>3 DEF PadAdded, Open
  <2>2. /\ HostShape' /\ host'.pads = With(host.pads, p, <<>>)
        /\ host'.keys = host.keys /\ host'.buttons = host.buttons
        /\ host'.fingers = host.fingers /\ host'.locks = host.locks
    BY <1>0, <2>1 DEF HostShape
  <2>3. /\ DevShape'
        /\ dev'.pads = [i \in Slot |-> IF i \in SlotOf(None) THEN "idle" ELSE dev.pads[i]]
        /\ dev'.injected = dev.injected /\ dev'.report = dev.report
        /\ dev'.buttons = dev.buttons /\ dev'.pointers = dev.pointers /\ dev'.locks = dev.locks
    BY <1>0, <2>1 DEF DevShape, Slot
  <2>4. /\ DOMAIN host'.pads = DOMAIN host.pads \cup {p} /\ host'.pads[p] = <<>>
        /\ \A q \in DOMAIN host.pads : q # p => host'.pads[q] = host.pads[q]
    BY <2>2 DEF With
  <2>5. \A i \in Slot :
          /\ DOMAIN slots'[i] = {"pad", "pressed"}
          /\ slots'[i].pad = IF i \in SlotOf(None) THEN p ELSE slots[i].pad
          /\ dev'.pads[i] = IF i \in SlotOf(None) THEN "idle" ELSE dev.pads[i]
    BY <1>0, <2>1, <2>3
  <2>6. \A i \in Slot : slots[i].pad # p
    BY <1>0, <1>2, <2>1
  <2>7. ASSUME NEW i \in Slot
        PROVE  /\ dev'.pads[i] = "none" <=> slots'[i].pad = None
               /\ slots'[i].pad # None =>
                    /\ slots'[i].pad \in DOMAIN host'.pads
                    /\ \A j \in Slot \ {i} : slots'[j].pad # slots'[i].pad
                    /\ excuses = {} =>
                         (dev'.pads[i] = "pressed" <=> host'.pads[slots'[i].pad] = <<FALSE>>)
    <3>1. CASE i \in SlotOf(None)
      <4>1. slots'[i].pad = p /\ dev'.pads[i] = "idle"
        BY <2>5, <3>1
      <4>2. \A j \in Slot \ {i} : slots'[j].pad # p
        BY <1>1, <2>5, <2>6, <3>1
      <4>3. host'.pads[p] # <<FALSE>>
        BY <2>4
      <4> QED BY <1>0, <2>4, <4>1, <4>2, <4>3
    <3>2. CASE i \notin SlotOf(None)
      <4>1. slots'[i].pad = slots[i].pad /\ dev'.pads[i] = dev.pads[i] /\ slots[i].pad # p
        BY <2>5, <2>6, <3>2
      <4>2. slots[i].pad # None => \A j \in Slot \ {i} : slots'[j].pad # slots[i].pad
        BY <1>2, <2>5, <4>1
      <4>3. slots[i].pad # None =>
              slots[i].pad \in DOMAIN host'.pads
              /\ host'.pads[slots[i].pad] = host.pads[slots[i].pad]
        BY <1>2, <2>4, <4>1
      <4> QED BY <1>2, <4>1, <4>2, <4>3
    <3> QED BY <3>1, <3>2
  <2>8. PadsMatch'
    BY <2>1, <2>7 DEF PadsMatch, Slot
  <2> QED BY <1>0, <2>1, <2>2, <2>3, <2>4, <2>5, <2>8 DEF Excusing
<1>4. CASE PadRemoved(p)
  <2>1. /\ p \in DOMAIN host.pads /\ padFrame /\ excuses' = excuses
        /\ host' = [host EXCEPT !.pads = Without(host.pads, p)]
        /\ slots' = [i \in Slot |-> IF i \in SlotOf(p) THEN Empty ELSE slots[i]]
        /\ dev' = [dev EXCEPT !.pads = [i \in Slot |-> IF i \in SlotOf(p) THEN "none"
                                                       ELSE dev.pads[i]]]
    BY <1>4 DEF PadRemoved, Close
  <2>2. /\ HostShape' /\ host'.pads = Without(host.pads, p)
        /\ host'.keys = host.keys /\ host'.buttons = host.buttons
        /\ host'.fingers = host.fingers /\ host'.locks = host.locks
    BY <1>0, <2>1 DEF HostShape
  <2>3. /\ DevShape'
        /\ dev'.pads = [i \in Slot |-> IF i \in SlotOf(p) THEN "none" ELSE dev.pads[i]]
        /\ dev'.injected = dev.injected /\ dev'.report = dev.report
        /\ dev'.buttons = dev.buttons /\ dev'.pointers = dev.pointers /\ dev'.locks = dev.locks
    BY <1>0, <2>1 DEF DevShape, Slot
  <2>4. /\ DOMAIN host'.pads = DOMAIN host.pads \ {p}
        /\ \A q \in DOMAIN host.pads : q # p => host'.pads[q] = host.pads[q]
    BY <2>2 DEF Without
  <2>5. \A i \in Slot :
          /\ DOMAIN slots'[i] = {"pad", "pressed"}
          /\ slots'[i].pad = IF i \in SlotOf(p) THEN None ELSE slots[i].pad
          /\ dev'.pads[i] = IF i \in SlotOf(p) THEN "none" ELSE dev.pads[i]
    BY <1>0, <2>1, <2>3 DEF Empty
  <2>6. ASSUME NEW i \in Slot
        PROVE  /\ dev'.pads[i] = "none" <=> slots'[i].pad = None
               /\ slots'[i].pad # None =>
                    /\ slots'[i].pad \in DOMAIN host'.pads
                    /\ \A j \in Slot \ {i} : slots'[j].pad # slots'[i].pad
                    /\ excuses = {} =>
                         (dev'.pads[i] = "pressed" <=> host'.pads[slots'[i].pad] = <<FALSE>>)
    <3>1. CASE i \in SlotOf(p)
      BY <2>5, <3>1
    <3>2. CASE i \notin SlotOf(p)
      <4>1. slots'[i].pad = slots[i].pad /\ dev'.pads[i] = dev.pads[i] /\ slots[i].pad # p
        BY <1>1, <2>5, <3>2
      <4>2. slots[i].pad # None => \A j \in Slot \ {i} : slots'[j].pad # slots[i].pad
        BY <1>2, <2>5, <4>1
      <4>3. slots[i].pad # None =>
              slots[i].pad \in DOMAIN host'.pads
              /\ host'.pads[slots[i].pad] = host.pads[slots[i].pad]
        BY <1>2, <2>4, <4>1
      <4> QED BY <1>2, <4>1, <4>2, <4>3
    <3> QED BY <3>1, <3>2
  <2>7. PadsMatch'
    BY <2>1, <2>6 DEF PadsMatch, Slot
  <2> QED BY <1>0, <2>1, <2>2, <2>3, <2>4, <2>5, <2>7 DEF Excusing
<1>5. CASE PadInput(p, down, lost)
  <2>1. /\ p \in DOMAIN host.pads /\ (down <=> host.pads[p] = <<>>) /\ padFrame
        /\ host' = [host EXCEPT !.pads = With(host.pads, p, IF down THEN <<paused>> ELSE <<>>)]
        /\ slots' = IF paused THEN slots
                    ELSE [i \in Slot |-> IF i \in SlotOf(p) THEN [slots[i] EXCEPT !.pressed = down]
                                         ELSE slots[i]]
        /\ dev' = IF paused \/ lost # {} THEN dev
                  ELSE [dev EXCEPT !.pads = [i \in Slot |->
                          IF i \in SlotOf(p) THEN IF down THEN "pressed" ELSE "idle"
                          ELSE dev.pads[i]]]
        /\ Excuse(~down /\ host.pads[p] # <<paused>>, lost)
    BY <1>5 DEF PadInput
  <2>2. /\ HostShape' /\ host'.pads = With(host.pads, p, IF down THEN <<paused>> ELSE <<>>)
        /\ host'.keys = host.keys /\ host'.buttons = host.buttons
        /\ host'.fingers = host.fingers /\ host'.locks = host.locks
    BY <1>0, <2>1 DEF HostShape
  <2>3. /\ DevShape'
        /\ dev'.pads = IF paused \/ lost # {} THEN dev.pads
                       ELSE [i \in Slot |-> IF i \in SlotOf(p)
                                            THEN IF down THEN "pressed" ELSE "idle"
                                            ELSE dev.pads[i]]
        /\ dev'.injected = dev.injected /\ dev'.report = dev.report
        /\ dev'.buttons = dev.buttons /\ dev'.pointers = dev.pointers /\ dev'.locks = dev.locks
    <3>1. CASE paused \/ lost # {}
      BY <1>0, <2>1, <3>1 DEF DevShape
    <3>2. CASE ~(paused \/ lost # {})
      BY <1>0, <2>1, <3>2 DEF DevShape, Slot
    <3> QED BY <3>1, <3>2
  <2>4. /\ DOMAIN host'.pads = DOMAIN host.pads
        /\ host'.pads[p] = IF down THEN <<paused>> ELSE <<>>
        /\ \A q \in DOMAIN host.pads : q # p => host'.pads[q] = host.pads[q]
    BY <2>1, <2>2 DEF With
  <2>5. /\ DOMAIN slots' = Slot
        /\ \A i \in Slot : DOMAIN slots'[i] = {"pad", "pressed"} /\ slots'[i].pad = slots[i].pad
    <3>1. CASE paused
      BY <1>0, <2>1, <3>1
    <3>2. CASE ~paused
      BY <1>0, <2>1, <3>2
    <3> QED BY <3>1, <3>2
  <2>6. /\ Excusing
        /\ excuses' = {} => excuses = {} /\ lost = {} /\ (~down => host.pads[p] = <<paused>>)
    BY <2>1, Excused DEF Excusing
  <2>7. ASSUME NEW i \in Slot
        PROVE  /\ dev'.pads[i] = "none" <=> slots[i].pad = None
               /\ slots[i].pad # None => slots[i].pad \in DOMAIN host'.pads
               /\ slots[i].pad # None /\ excuses' = {} =>
                    (dev'.pads[i] = "pressed" <=> host'.pads[slots[i].pad] = <<FALSE>>)
    <3>1. CASE i \in SlotOf(p) /\ ~paused
      <4>1. slots[i].pad = p
        BY <1>1, <3>1
      <4>2. dev'.pads[i] = IF lost # {} THEN dev.pads[i] ELSE IF down THEN "pressed" ELSE "idle"
        BY <2>3, <3>1
      <4>3. excuses' = {} => (dev'.pads[i] = "pressed" <=> host'.pads[p] = <<FALSE>>)
        <5>1. paused = FALSE
          BY <1>0, <3>1
        <5>2. <<>> # <<FALSE>>
          OBVIOUS
        <5>3. host'.pads[p] = IF down THEN <<FALSE>> ELSE <<>>
          BY <2>4, <5>1
        <5> QED BY <2>6, <4>2, <5>2, <5>3
      <4>4. dev'.pads[i] # "none"
        BY <1>0, <1>2, <4>1, <4>2
      <4> QED BY <1>0, <2>1, <2>4, <4>1, <4>3, <4>4
    <3>2. CASE i \in SlotOf(p) /\ paused
      <4>1. slots[i].pad = p /\ dev'.pads[i] = dev.pads[i]
        BY <1>1, <2>3, <3>2
      <4>2. <<paused>> # <<FALSE>> /\ <<>> # <<FALSE>>
        <5>1. <<paused>>[1] # <<FALSE>>[1]
          BY <3>2
        <5> QED BY <5>1
      <4>3. excuses' = {} => host.pads[p] # <<FALSE>>
        BY <2>1, <2>6, <4>2
      <4>4. host'.pads[p] # <<FALSE>>
        BY <2>4, <4>2
      <4>5. excuses' = {} => dev.pads[i] # "pressed"
        BY <1>0, <1>2, <2>6, <4>1, <4>3
      <4> QED BY <1>0, <1>2, <2>4, <4>1, <4>4, <4>5
    <3>3. CASE i \notin SlotOf(p)
      <4>1. slots[i].pad # p /\ dev'.pads[i] = dev.pads[i]
        BY <1>1, <2>3, <3>3
      <4> QED BY <1>2, <2>4, <2>6, <4>1
    <3> QED BY <3>1, <3>2, <3>3
  <2>8. PadsMatch'
    <3>1. \A i, j \in Slot : slots[i].pad # None /\ i # j => slots[j].pad # slots[i].pad
      BY <1>2
    <3> QED BY <2>5, <2>7, <3>1 DEF PadsMatch, Slot
  <2> QED BY <1>0, <2>1, <2>2, <2>3, <2>4, <2>5, <2>6, <2>8
<1> QED BY <1>3, <1>4, <1>5 DEF PadEvent

LEMMA PadStep ==
  ASSUME InputInv, NEW p \in settings.pads, NEW down \in BOOLEAN, NEW lost,
         PadEvent(p, down, lost)
  PROVE  InputInv'
<1> USE DEF InputInv, HostInSync
<1>1. /\ PadsMatch' /\ DOMAIN host'.pads \subseteq settings.pads
      /\ DOMAIN slots' = Slot /\ \A i \in Slot : DOMAIN slots'[i] = {"pad", "pressed"}
      /\ Excusing /\ padFrame /\ HostShape' /\ DevShape'
      /\ host'.keys = host.keys /\ host'.buttons = host.buttons
      /\ host'.fingers = host.fingers /\ host'.locks = host.locks
      /\ dev'.injected = dev.injected /\ dev'.report = dev.report
      /\ dev'.buttons = dev.buttons /\ dev'.pointers = dev.pointers /\ dev'.locks = dev.locks
  BY PadKeepsMatch
<1>2. /\ UNCHANGED <<settings, paused, im, hidKeys, deviceMod, outputs, settled, typed>>
      /\ UNCHANGED <<settings, hidVars, settled>>
  BY <1>1 DEF padFrame, hidVars
<1>3. InputTypeOK'
  BY <1>1, <1>2 DEF InputTypeOK, Slot
<1>4. InjectedHeld'
  BY <1>1, <1>2, InjectedFrame
<1>5. ReportHeld'
  BY <1>1, <1>2, ReportFrame
<1>6. LocksFollowed'
  BY <1>1, <1>2, LocksFrame
<1>7. ButtonsHeld' /\ InputManagerInSync'
  BY <1>1, <1>2, ButtonsFrame
<1>8. TouchHeld'
  BY <1>1, <1>2, TouchFrame
<1>9. TypedOnce'
  BY <1>2 DEF TypedOnce
<1> QED BY <1>1, <1>3, <1>4, <1>5, <1>6, <1>7, <1>8, <1>9

-----------------------------------------------------------------------------
(* The theorems.                                                           *)

LEMMA InitInv ==
  ASSUME Init
  PROVE  InputInv
<1> USE DEF Init
<1>1. PICK locks \in SUBSET (settings.keys \cap LockKeys) :
        host = [keys |-> <<>>, buttons |-> <<>>, fingers |-> <<>>, locks |-> locks, pads |-> <<>>]
  OBVIOUS
<1>2. /\ DOMAIN host.keys = {} /\ DOMAIN host.buttons = {} /\ DOMAIN host.pads = {}
      /\ host.keys = <<>> /\ host.fingers = <<>> /\ host.locks \subseteq LockKeys /\ HostShape
  BY <1>1 DEF HostShape
<1>3. DevShape /\ dev.injected = {} /\ dev.report = {} /\ dev.buttons = {}
      /\ dev.pointers = {} /\ dev.locks = {} /\ \A i \in Slot : dev.pads[i] = "none"
  BY DEF DevShape
<1>4. DOMAIN slots = Slot /\ \A i \in Slot : slots[i] = Empty
  OBVIOUS
<1>5. InputTypeOK
  <2>1. settings \in Settings /\ paused \in BOOLEAN
    OBVIOUS
  <2>2. DOMAIN im = {"buttons", "vfinger"} /\ im.vfinger \in BOOLEAN
    OBVIOUS
  <2>3. DOMAIN slots = Slot /\ \A i \in Slot : DOMAIN slots[i] = {"pad", "pressed"}
    BY <1>4 DEF Empty
  <2>4. /\ deviceMod \subseteq LockKeys /\ outputs \in Seq(SUBSET LockKeys)
        /\ settled \in {"no", "doubt", "yes"}
    OBVIOUS
  <2>5. HostShape /\ DevShape /\ DOMAIN host.pads \subseteq settings.pads
        /\ host.locks \subseteq LockKeys /\ dev.locks \subseteq LockKeys
    BY <1>2, <1>3
  <2> HIDE DEF Init
  <2> QED BY <2>1, <2>2, <2>3, <2>4, <2>5 DEF InputTypeOK
<1>6. HostInSync /\ TypedOnce
  <2>1. PadsMatch
    BY <1>3, <1>4 DEF PadsMatch, Empty
  <2> QED BY <1>2, <1>3, <2>1 DEF HostInSync, InputManagerInSync, TypedOnce
<1>7. InjectedHeld
  BY <1>3 DEF InjectedHeld
<1>8. ReportHeld
  <2>1. MaxKeys \in Nat
    BY InputAssumption
  <2>2. Pressed = {}
    BY <1>2 DEF Pressed
  <2> QED BY <1>3, <2>1, <2>2, FS_EmptySet DEF ReportHeld
<1>9. ButtonsHeld /\ TouchHeld
  BY <1>2, <1>3 DEF ButtonsHeld, ButtonsAgree, TouchHeld
<1>10. LocksFollowed
  BY <1>3 DEF LocksFollowed
<1> QED BY <1>5, <1>6, <1>7, <1>8, <1>9, <1>10 DEF InputInv

LEMMA InputStep ==
  ASSUME InputInv, [Next]_vars
  PROVE  InputInv'
<1>1. CASE Key
  BY <1>1, KeyStep
<1>2. CASE HidOutput
  BY <1>2, HidOutputStep
<1>3. CASE ToggleOutside
  BY <1>3, ToggleStep
<1>4. CASE Mouse
  BY <1>4, MouseStep
<1>5. CASE Pads
  <2>1. \E p \in settings.pads, down \in BOOLEAN : \E lost : PadEvent(p, down, lost)
    BY <1>5 DEF Pads, PadEvent
  <2> QED BY <2>1, PadStep
<1>6. CASE UNCHANGED vars
  <2>1. /\ UNCHANGED <<settings, paused, im, hidKeys, deviceMod, outputs, slots, host, dev, excuses,
                       settled, typed>>
        /\ UNCHANGED hidVars /\ Excusing
    BY <1>6 DEF vars, hidVars, Excusing
  <2> USE DEF InputInv, HostInSync
  <2>2. InputTypeOK'
    BY <2>1 DEF InputTypeOK, HostShape, DevShape, Slot
  <2>3. InjectedHeld'
    BY <2>1, InjectedFrame
  <2>4. ReportHeld'
    BY <2>1, ReportFrame
  <2>5. LocksFollowed'
    BY <2>1, LocksFrame
  <2>6. ButtonsHeld' /\ InputManagerInSync'
    BY <2>1, ButtonsFrame
  <2>7. TouchHeld'
    BY <2>1, TouchFrame
  <2>8. PadsMatch'
    BY <2>1, PadsFrame
  <2>9. TypedOnce'
    BY <2>1 DEF TypedOnce
  <2> QED BY <2>2, <2>3, <2>4, <2>5, <2>6, <2>7, <2>8, <2>9
<1> QED BY <1>1, <1>2, <1>3, <1>4, <1>5, <1>6 DEF Next

\* In every session, the invariant holds: what the device sees pressed is explained by
\* what the user holds, and each processor knows what the device was told.
THEOREM InputInvariance == Spec => []InputInv
<1>1. Init => InputInv
  BY InitInv
<1>2. InputInv /\ [Next]_vars => InputInv'
  BY InputStep
<1> QED BY <1>1, <1>2, PTL DEF Spec

\* Whatever is dropped, the input manager knows the virtual finger and the buttons, and
\* the slots are those of the gamepads plugged in, as the device has them
\* (input_manager.c, hid_gamepad.c).
THEOREM InputInSync == Spec => []HostInSync
<1>1. InputInv => HostInSync
  BY DEF InputInv
<1> QED BY <1>1, InputInvariance, PTL

\* In every injection mode, a character reaches the device exactly once, as a key or as
\* text (convert_keycode and process_text of keyboard_sdk.c).
THEOREM CharactersOnce == Spec => []TypedOnce
<1>1. InputInv => TypedOnce
  BY DEF InputInv
<1> QED BY <1>1, InputInvariance, PTL

\* Once the user holds nothing, nothing is pressed on the device, unless one of the
\* listed circumstances changed in between (input_manager.c, hid_keyboard.c).
THEOREM NothingRemains == Spec => []NothingStuck
<1>1. InputInv => NothingStuck
  <2>1. SUFFICES ASSUME InputInv, excuses = {}
                 PROVE  /\ host.keys = <<>> /\ host.buttons = <<>>
                             => dev.injected = {} /\ dev.report = {}
                        /\ host.buttons = <<>>
                             => dev.buttons = {} /\ dev.pointers \subseteq {"touch"}
                        /\ host.fingers = <<>> => "touch" \notin dev.pointers
    BY DEF NothingStuck
  <2> USE <2>1 DEF InputInv
  <2>2. ASSUME host.keys = <<>>, host.buttons = <<>>
        PROVE  dev.injected = {} /\ dev.report = {}
    <3>1. DOMAIN host.keys = {} /\ DOMAIN host.buttons = {}
      BY <2>2
    <3>2. dev.injected = {}
      BY <3>1 DEF InjectedHeld
    <3>3. Pressed = {}
      BY <3>1 DEF Pressed
    <3>4. MaxKeys \in Nat /\ Cardinality({}) = 0
      BY InputAssumption, FS_EmptySet
    <3>5. dev.report = {}
      BY <3>1, <3>3, <3>4 DEF ReportHeld
    <3> QED BY <3>2, <3>5
  <2>3. ASSUME host.buttons = <<>>
        PROVE  dev.buttons = {} /\ dev.pointers \subseteq {"touch"}
    <3>1. DOMAIN host.buttons = {}
      BY <2>3
    <3>2. ButtonsAgree /\ im.buttons = {}
      BY <3>1 DEF ButtonsHeld, ButtonsAgree
    <3>3. dev.buttons = {}
      BY <3>1, <3>2, SettingsFacts DEF ButtonsAgree, InputTypeOK
    <3>4. ~im.vfinger
      BY <3>2 DEF ButtonsAgree
    <3> QED BY <3>2, <3>3, <3>4 DEF ButtonsAgree, HostInSync, InputManagerInSync
  <2>4. ASSUME host.fingers = <<>>
        PROVE  "touch" \notin dev.pointers
    <3>1. host.fingers # <<FALSE>>
      BY <2>4
    <3> QED BY <3>1 DEF TouchHeld
  <2> QED BY <2>2, <2>3, <2>4
<1> QED BY <1>1, InputInvariance, PTL

\* Until then, the device sees the buttons that the input manager knows and the keys
\* that the user holds, or the phantom state (hid_keyboard.c).
THEOREM DeviceSeesHeld == Spec => []DeviceFollows
<1>1. InputInv => DeviceFollows
  <2>1. SUFFICES ASSUME InputInv, excuses = {}
                 PROVE  /\ settings.mp # "none" /\ ~settings.otg => dev.buttons = im.buttons
                        /\ Hid /\ ~settings.legacy =>
                             dev.report \ Modifiers
                               = IF Cardinality(Pressed) > MaxKeys THEN {"phantom"} ELSE Pressed
    BY DEF DeviceFollows
  <2>2. ~settings.otg => dev.buttons = im.buttons
    BY <2>1 DEF InputInv, ButtonsHeld, ButtonsAgree
  <2>3. Hid /\ ~settings.legacy =>
          dev.report \ Modifiers = IF Cardinality(Pressed) > MaxKeys THEN {"phantom"} ELSE Pressed
    BY <2>1 DEF InputInv, ReportHeld
  <2> QED BY <2>2, <2>3
<1> QED BY <1>1, InputInvariance, PTL

\* Once a key that is no lock is pressed and all reports of the device are processed, the
\* locks of the device are those of the computer (keyboard_uhid.c).
THEOREM LocksFollow == Spec => []LocksCatchUp
<1>1. InputInv => LocksCatchUp
  BY DEF InputInv, LocksFollowed, LocksCatchUp
<1> QED BY <1>1, InputInvariance, PTL

-----------------------------------------------------------------------------
(* The window: types, and the invariant.                                     *)

Dims == [w : Nat, h : Nat]
Pictures == [n : Nat, size : Dims]
Received == [n : Nat \ {0}, size : Sizes]
Rects == [x : Int, y : Int, w : Nat, h : Nat]
Screens == [fullscreen : BOOLEAN, maximized : BOOLEAN, minimized : BOOLEAN,
            resizePending : BOOLEAN, hasFrame : BOOLEAN, paused : BOOLEAN,
            req : Requests, orientation : 0 .. 7, frameSize : Sizes, content : Dims,
            windowedContent : Dims, frame : Pictures, resume : Received \cup {NoFrame},
            rect : Rects]
Windows == [fullscreen : BOOLEAN, maximized : BOOLEAN, minimized : BOOLEAN, size : Sizes,
            chosen : BOOLEAN]
Displays == [texture : [size : Dims, frame : Pictures], pendingSize : Dims,
             pendingFrame : Pictures, flags : SUBSET {"size", "frame"}]
Shows == [frame : Pictures, orientation : 0 .. 7, rect : Rects]
WindowEvents == {"size", "maximized", "minimized", "restored"}
Contexts == [screen : Screens, window : Windows, display : Displays, shown : Shows,
             events : Seq(WindowEvents), status : {"run", "quit", "aborted"},
             result : {"ok", "pending", "error"}]
Budgets == [frames : 0 .. Frames, moves : 0 .. Moves, faults : 0 .. Faults]

\* Queues of window events.
Has(q, e)       == \E i \in 1 .. Len(q) : q[i] = e
Lacks(q, E)   == \A i \in 1 .. Len(q) : q[i] \notin E
LastIs(q, E, e) == \E i \in 1 .. Len(q) :
                     q[i] = e /\ \A j \in i + 1 .. Len(q) : q[j] \notin E
OneSize(q)      == \A i, j \in 1 .. Len(q) : q[i] = "size" /\ q[j] = "size" => i = j

\* The screen is told by the events of the kinds up and "restored" if the window
\* is in a state: the last of them says what it is.
Follows(q, missed, told, actual, up) ==
  /\ LastIs(q, {up, "restored"}, up) => actual
  /\ LastIs(q, {up, "restored"}, "restored") => ~actual
  /\ Lacks(q, {up, "restored"}) /\ ~missed => told = actual

Fit(s, w, q, missed) ==
  /\ s.fullscreen = w.fullscreen
  /\ Follows(q, missed, s.maximized, w.maximized, "maximized")
  /\ Follows(q, missed, s.minimized, w.minimized, "minimized")
  /\ s.resizePending /\ Windowed(s) => Has(q, "restored") \/ missed
  /\ s.hasFrame => w.chosen \/ s.resizePending \/ IsOptimal(w.size, s.content)
  /\ ~s.hasFrame => /\ Windowed(s) /\ ~s.resizePending /\ Windowed(w)
                    /\ Lacks(q, {"maximized", "minimized", "restored"})
  /\ OneSize(q)

Centered(s, w, q) ==
  s.hasFrame => s.rect = ContentRect(Drawable(w), s.content) \/ Has(q, "size")

\* The size of the content is known.
Sized(s) ==
  /\ s.content \in Sizes /\ s.content = Oriented(s.frameSize, s.orientation)
  /\ s.resizePending => s.windowedContent \in Sizes

Latest(s) == IF s.resume = NoFrame THEN s.frame ELSE s.resume

\* The last frame is the one to show, or to show at the end of the pause.
Timely(s, n) == Latest(s).n = n /\ (~s.paused => s.resume = NoFrame)

\* The texture has its size, and nothing is pending.
Loaded(c) == c.display.flags = {} /\ c.display.texture.size \in Sizes

\* The texture is presented, as the user turned it and where the content is.
Drawn(c) ==
  /\ c.shown.frame = c.display.texture.frame /\ c.shown.orientation = c.screen.orientation
  /\ c.shown.rect = Destination(c.screen.rect, c.screen.orientation)

Painted(c) ==
  Loaded(c) /\ (c.screen.hasFrame => Drawn(c) /\ c.screen.frame = c.display.texture.frame)

\* Nothing happened before SC_EVENT_SCREEN_INIT_SIZE.
Fresh ==
  /\ events = <<>> /\ display.texture = NoTexture /\ display.flags = {}
  /\ ~screen.hasFrame /\ Windowed(screen) /\ ~screen.resizePending /\ Windowed(window)
  /\ screen.frame = NoFrame /\ screen.resume = NoFrame /\ ~screen.paused
  /\ budget.frames = Frames

Typed ==
  /\ Current \in Contexts /\ budget \in Budgets /\ ignored \in BOOLEAN

Tracked == view = <<Turned(screen.orientation, <<1, 0>>), Turned(screen.orientation, <<0, 1>>)>>

ScreenInvariant ==
  /\ Typed
  /\ IF screen.content = Size(0, 0) THEN Fresh ELSE Sized(screen)
  /\ Fit(screen, window, events, ignored)
  /\ Centered(screen, window, events)
  /\ Tracked
  /\ budget.faults = Faults /\ screen.content # Size(0, 0) =>
       Painted(Current) /\ Timely(screen, Frames - budget.frames)

-----------------------------------------------------------------------------
(* Divisions, and the sizes of the window.                                  *)

LEMMA DivideNat ==
  ASSUME NEW a \in Nat, NEW b \in Nat \ {0}
  PROVE  /\ a \div b \in Nat
         /\ b * (a \div b) <= a /\ a < b * (a \div b) + b
BY SMT

LEMMA HalfInt ==
  ASSUME NEW a \in Int
  PROVE  a \div 2 \in Int /\ 2 * (a \div 2) <= a /\ a <= 2 * (a \div 2) + 1
BY SMT

LEMMA ProductNat ==
  ASSUME NEW a \in Nat, NEW b \in Nat
  PROVE  a * b \in Nat
BY SMT

LEMMA Exact ==
  ASSUME NEW a \in Nat \ {0}, NEW b \in Nat
  PROVE  (a * b) \div a = b
<1>1. a * b \in Nat
  BY ProductNat
<1> DEFINE q == (a * b) \div a
<1>2. q \in Nat /\ a * q <= a * b /\ a * b < a * q + a
  BY <1>1, DivideNat
<1>3. CASE q < b
  <2>1. b >= q + 1
    BY <1>2, <1>3
  <2>2. a * b >= a * (q + 1)
    BY <1>2, <2>1
  <2>3. a * (q + 1) = a * q + a
    BY <1>2
  <2> QED BY <1>2, <2>2, <2>3
<1>4. CASE q > b
  <2>1. q >= b + 1
    BY <1>2, <1>4
  <2>2. a * q >= a * (b + 1)
    BY <1>2, <2>1
  <2>3. a * (b + 1) = a * b + a
    OBVIOUS
  <2> QED BY <1>2, <2>2, <2>3
<1> QED BY <1>2, <1>3, <1>4

LEMMA CroppedFits ==
  ASSUME NEW size \in Dims, NEW content \in Sizes
  PROVE  Cropped(size, content) \in Dims /\ IsOptimal(Cropped(size, content), content)
<1>1. /\ size = [w |-> size.w, h |-> size.h] /\ size.w \in Nat /\ size.h \in Nat
      /\ content.w \in Nat \ {0} /\ content.h \in Nat \ {0}
  BY DEF Dims, Sizes
<1>2. /\ content.h * size.w \in Nat /\ content.w * size.h \in Nat
      /\ content.h * size.w = size.w * content.h /\ content.w * size.h = size.h * content.w
  BY <1>1, ProductNat
<1>3. (content.h * size.w) \div content.w \in Nat /\ (content.w * size.h) \div content.h \in Nat
  BY <1>1, <1>2, DivideNat
<1>4. CASE IsOptimal(size, content)
  BY <1>4 DEF Cropped
<1>5. CASE ~IsOptimal(size, content) /\ content.w * size.h > content.h * size.w
  BY <1>1, <1>2, <1>3, <1>5 DEF Cropped, IsOptimal, Dims
<1>6. CASE ~IsOptimal(size, content) /\ ~(content.w * size.h > content.h * size.w)
  BY <1>1, <1>2, <1>3, <1>6 DEF Cropped, IsOptimal, Dims
<1> QED BY <1>4, <1>5, <1>6

LEMMA OptimalFits ==
  ASSUME NEW size \in Dims, NEW content \in Sizes, NEW within \in BOOLEAN
  PROVE  /\ OptimalSize(size, content, within) \in Dims
         /\ IsOptimal(OptimalSize(size, content, within), content)
<1>1. Preferred \in Dims
  BY ScreenAssumption DEF Preferred, Dims, Sizes, Size, Most
<1> DEFINE bounded == Size(Least(size.w, Preferred.w), Least(size.h, Preferred.h))
<1>2. bounded \in Dims
  BY <1>1 DEF Dims, Size, Least
<1> QED BY <1>2, CroppedFits DEF OptimalSize

LEMMA ContentFits ==
  ASSUME NEW content \in Sizes
  PROVE  IsOptimal(content, content)
<1>1. content.w \in Nat \ {0} /\ content.h \in Nat \ {0}
  BY DEF Sizes
<1>2. (content.w * content.h) \div content.w = content.h
  BY <1>1, Exact
<1> QED BY <1>2 DEF IsOptimal

LEMMA InitialFits ==
  ASSUME NEW content \in Sizes, NEW req \in Requests
  PROVE  /\ InitialSize(content, req) \in Dims
         /\ ~(req.w # 0 /\ req.h # 0) => IsOptimal(InitialSize(content, req), content)
<1>1. /\ req.w \in Nat /\ req.h \in Nat /\ content \in Dims
      /\ content.w \in Nat \ {0} /\ content.h \in Nat \ {0}
  BY ScreenAssumption DEF Sizes, Dims
<1>2. /\ req.h * content.w \in Nat /\ req.w * content.h \in Nat
  BY <1>1, ProductNat
<1>3. (req.h * content.w) \div content.h \in Nat /\ (req.w * content.h) \div content.w \in Nat
  BY <1>1, <1>2, DivideNat
<1>4. CASE req.w = 0 /\ req.h = 0
  BY <1>1, <1>4, OptimalFits DEF InitialSize
<1>5. CASE req.w # 0 \/ req.h # 0
  BY <1>1, <1>3, <1>5 DEF InitialSize, IsOptimal, Size, Dims
<1> QED BY <1>4, <1>5

LEMMA DrawableSize ==
  ASSUME NEW w \in Windows
  PROVE  WindowSize(w) \in Sizes /\ Drawable(w) \in Sizes
<1>1. WindowSize(w) \in Sizes
  BY ScreenAssumption DEF WindowSize, Windows
<1>2. /\ WindowSize(w).w \in Nat \ {0} /\ WindowSize(w).h \in Nat \ {0} /\ Scale \in Nat \ {0}
  BY <1>1, ScreenAssumption DEF Sizes
<1>3. WindowSize(w).w * Scale \in Nat \ {0} /\ WindowSize(w).h * Scale \in Nat \ {0}
  BY <1>2
<1> QED BY <1>1, <1>3 DEF Drawable, Size, Sizes

LEMMA ContentRectType ==
  ASSUME NEW drawable \in Sizes, NEW content \in Sizes
  PROVE  ContentRect(drawable, content) \in Rects
<1>1. drawable \in Dims /\ drawable.w \in Nat /\ drawable.h \in Nat
  BY DEF Sizes, Dims
<1>2. Cropped(drawable, content) \in Dims
  BY <1>1, CroppedFits
<1> DEFINE size == Cropped(drawable, content)
<1>3. size.w \in Nat /\ size.h \in Nat
  BY <1>2 DEF Dims
<1> HIDE DEF size
<1>4. (drawable.w - size.w) \div 2 \in Int /\ (drawable.h - size.h) \div 2 \in Int
  BY <1>1, <1>3, HalfInt
<1> QED BY <1>3, <1>4 DEF ContentRect, Rects, size

LEMMA DestinationType ==
  ASSUME NEW rect \in Rects, NEW o \in 0 .. 7
  PROVE  Destination(rect, o) \in Rects
<1>1. rect.x \in Int /\ rect.y \in Int /\ rect.w \in Nat /\ rect.h \in Nat
  BY DEF Rects
<1>2. /\ (rect.h - rect.w) \div 2 \in Int /\ (rect.w - rect.h) \div 2 \in Int
  BY <1>1, HalfInt
<1> QED BY <1>1, <1>2 DEF Destination, Rects

-----------------------------------------------------------------------------
(* The queue of window events.                                             *)

\* A window event handled leaves what the later ones say.
LEMMA TailSays ==
  ASSUME NEW q \in Seq(WindowEvents), q # <<>>, NEW E, NEW e
  PROVE  /\ Tail(q) \in Seq(WindowEvents)
         /\ LastIs(Tail(q), E, e) => LastIs(q, E, e)
         /\ Lacks(Tail(q), E) /\ Head(q) \notin E => Lacks(q, E)
         /\ Lacks(Tail(q), E) /\ Head(q) = e /\ e \in E => LastIs(q, E, e)
         /\ Has(q, e) /\ Head(q) # e => Has(Tail(q), e)
         /\ OneSize(q) => OneSize(Tail(q))
         /\ Lacks(q, E) => Lacks(Tail(q), E) /\ Head(q) \notin E
<1>1. /\ Tail(q) \in Seq(WindowEvents) /\ Len(q) \in Nat /\ Len(q) > 0 /\ Len(Tail(q)) = Len(q) - 1
      /\ \A i \in 1 .. Len(q) - 1 : Tail(q)[i] = q[i + 1]
      /\ Head(q) = q[1]
  OBVIOUS
<1> DEFINE t == Tail(q)
<1>2. t \in Seq(WindowEvents) /\ Len(t) = Len(q) - 1 /\ \A i \in 1 .. Len(q) - 1 : t[i] = q[i + 1]
  BY <1>1
<1> HIDE DEF t
<1>3. LastIs(t, E, e) => LastIs(q, E, e)
  <2>1. SUFFICES ASSUME NEW i \in 1 .. Len(t), t[i] = e, \A j \in i + 1 .. Len(t) : t[j] \notin E
                 PROVE  LastIs(q, E, e)
    BY DEF LastIs
  <2>2. i + 1 \in 1 .. Len(q) /\ q[i + 1] = e
    BY <1>1, <1>2, <2>1
  <2>3. ASSUME NEW j \in i + 2 .. Len(q)
        PROVE  q[j] \notin E
    <3>1. j - 1 \in i + 1 .. Len(t) /\ t[j - 1] = q[j]
      BY <1>1, <1>2, <2>1
    <3> QED BY <2>1, <3>1
  <2> QED BY <2>2, <2>3 DEF LastIs
<1>4. \A j \in 2 .. Len(q) : j - 1 \in 1 .. Len(t) /\ t[j - 1] = q[j]
  BY <1>1, <1>2
<1>5. Lacks(t, E) => \A j \in 2 .. Len(q) : q[j] \notin E
  BY <1>4 DEF Lacks
<1>6. Lacks(t, E) /\ Head(q) \notin E => Lacks(q, E)
  BY <1>1, <1>5 DEF Lacks
<1>7. Lacks(t, E) /\ Head(q) = e /\ e \in E => LastIs(q, E, e)
  BY <1>1, <1>5 DEF LastIs
<1>8. Has(q, e) /\ Head(q) # e => Has(t, e)
  BY <1>1, <1>4 DEF Has
<1>9. OneSize(q) => OneSize(t)
  BY <1>1, <1>2 DEF OneSize
<1>10. Lacks(q, E) => Lacks(t, E) /\ Head(q) \notin E
  BY <1>1, <1>2 DEF Lacks
<1> QED BY <1>1, <1>3, <1>6, <1>7, <1>8, <1>9, <1>10 DEF t

\* An event pushed at the end, but for a size that replaces another one.
LEMMA AppendSays ==
  ASSUME NEW q \in Seq(WindowEvents), NEW e \in WindowEvents
  PROVE  LET r == Append(q, e) IN
         /\ r \in Seq(WindowEvents) /\ Has(r, e) /\ \A x : Has(q, x) => Has(r, x)
         /\ \A E, x : e \notin E => /\ x \in E /\ LastIs(r, E, x) => LastIs(q, E, x)
                                    /\ Lacks(r, E) <=> Lacks(q, E)
         /\ \A E, x : e \in E => ~Lacks(r, E) /\ (LastIs(r, E, x) => x = e)
         /\ OneSize(q) /\ ~(e = "size" /\ Has(q, "size")) => OneSize(r)
<1> DEFINE r == Append(q, e)
<1>1. /\ r \in Seq(WindowEvents) /\ Len(q) \in Nat /\ Len(r) = Len(q) + 1 /\ r[Len(q) + 1] = e
      /\ \A i \in 1 .. Len(q) : r[i] = q[i]
  OBVIOUS
<1> HIDE DEF r
<1>2. Len(r) \in 1 .. Len(r) /\ r[Len(r)] = e /\ \A i \in 1 .. Len(q) : i \in 1 .. Len(r) /\ i < Len(r)
  BY <1>1
<1>3. Has(r, e) /\ \A x : Has(q, x) => Has(r, x)
  BY <1>1, <1>2 DEF Has
<1>4. ASSUME NEW E, NEW x, e \notin E
      PROVE  /\ x \in E /\ LastIs(r, E, x) => LastIs(q, E, x)
             /\ Lacks(r, E) <=> Lacks(q, E)
  <2>1. Lacks(r, E) => Lacks(q, E)
    BY <1>1, <1>2 DEF Lacks
  <2>2. Lacks(q, E) => Lacks(r, E)
    BY <1>1, <1>4 DEF Lacks
  <2>3. ASSUME NEW i \in 1 .. Len(r), r[i] = x, \A j \in i + 1 .. Len(r) : r[j] \notin E, x \in E
        PROVE  LastIs(q, E, x)
    <3>1. i \in 1 .. Len(q) /\ q[i] = x
      BY <1>1, <1>4, <2>3
    <3>2. \A j \in i + 1 .. Len(q) : j \in i + 1 .. Len(r) /\ q[j] = r[j]
      BY <1>1, <3>1
    <3> QED BY <2>3, <3>1, <3>2 DEF LastIs
  <2> QED BY <2>1, <2>2, <2>3 DEF LastIs
<1>5. ASSUME NEW E, NEW x, e \in E
      PROVE  ~Lacks(r, E) /\ (LastIs(r, E, x) => x = e)
  <2>1. ~Lacks(r, E)
    BY <1>2, <1>5 DEF Lacks
  <2>2. ASSUME NEW i \in 1 .. Len(r), r[i] = x, \A j \in i + 1 .. Len(r) : r[j] \notin E
        PROVE  x = e
    <3>1. i = Len(r) \/ Len(r) \in i + 1 .. Len(r)
      BY <1>1
    <3> QED BY <1>2, <1>5, <2>2, <3>1
  <2> QED BY <2>1, <2>2 DEF LastIs
<1>6. OneSize(q) /\ ~(e = "size" /\ Has(q, "size")) => OneSize(r)
  BY <1>1 DEF OneSize, Has
<1> QED BY <1>1, <1>3, <1>4, <1>5, <1>6 DEF r

LEMMA RemovedSays ==
  ASSUME NEW q \in Seq(WindowEvents), OneSize(q), NEW i \in 1 .. Len(q), q[i] = "size"
  PROVE  LET t == SubSeq(q, 1, i - 1) \o SubSeq(q, i + 1, Len(q)) IN
         /\ t \in Seq(WindowEvents) /\ ~Has(t, "size") /\ OneSize(t)
         /\ \A x : Has(q, x) /\ x # "size" => Has(t, x)
         /\ \A E, x : "size" \notin E => /\ x \in E /\ LastIs(t, E, x) => LastIs(q, E, x)
                                         /\ Lacks(t, E) <=> Lacks(q, E)
<1> DEFINE t == SubSeq(q, 1, i - 1) \o SubSeq(q, i + 1, Len(q))
<1>1. /\ t \in Seq(WindowEvents) /\ Len(q) \in Nat /\ Len(t) = Len(q) - 1 /\ i \in Nat
      /\ \A j \in 1 .. i - 1 : t[j] = q[j]
      /\ \A j \in i .. Len(q) - 1 : t[j] = q[j + 1]
  <2> DEFINE a == SubSeq(q, 1, i - 1)
             b == SubSeq(q, i + 1, Len(q))
  <2>1. /\ a \in Seq(WindowEvents) /\ Len(a) = i - 1 /\ i \in Nat
        /\ \A j \in 1 .. i - 1 : a[j] = q[j]
    OBVIOUS
  <2>2. /\ b \in Seq(WindowEvents) /\ Len(b) = Len(q) - i /\ Len(q) \in Nat
        /\ \A j \in 1 .. Len(q) - i : b[j] = q[i + j]
    OBVIOUS
  <2> HIDE DEF a, b
  <2>3. t = a \o b
    BY DEF a, b
  <2> HIDE DEF t
  <2>4. t \in Seq(WindowEvents) /\ Len(t) = Len(q) - 1
    BY <2>1, <2>2, <2>3
  <2>5. \A j \in 1 .. i - 1 : t[j] = q[j]
    BY <2>1, <2>2, <2>3
  <2>6. ASSUME NEW j \in i .. Len(q) - 1
        PROVE  t[j] = q[j + 1]
    <3>1. j - (i - 1) \in 1 .. Len(q) - i /\ j \in 1 .. Len(a) + Len(b) /\ ~(j <= Len(a))
      BY <2>1, <2>2
    <3>2. t[j] = b[j - Len(a)]
      BY <2>1, <2>2, <2>3, <3>1
    <3>3. b[j - (i - 1)] = q[i + (j - (i - 1))] /\ i + (j - (i - 1)) = j + 1
      BY <2>1, <2>2, <3>1
    <3> QED BY <2>1, <3>2, <3>3
  <2> QED BY <2>1, <2>2, <2>4, <2>5, <2>6
<1> HIDE DEF t
<1>2. \A j \in 1 .. Len(q) : q[j] = "size" => j = i
  BY DEF OneSize
<1>3. \A j \in 1 .. Len(t) : t[j] # "size"
  <2>1. TAKE j \in 1 .. Len(t)
  <2>2. CASE j < i
    <3>1. j \in 1 .. Len(q) /\ j # i /\ t[j] = q[j]
      BY <1>1, <2>2
    <3> QED BY <1>2, <3>1
  <2>3. CASE j >= i
    <3>1. j + 1 \in 1 .. Len(q) /\ j + 1 # i /\ t[j] = q[j + 1]
      BY <1>1, <2>3
    <3> QED BY <1>2, <3>1
  <2> QED BY <1>1, <2>2, <2>3
<1>4. ~Has(t, "size") /\ OneSize(t)
  BY <1>3 DEF Has, OneSize
<1>5. ASSUME NEW j \in 1 .. Len(q), j # i
      PROVE  \E k \in 1 .. Len(t) : t[k] = q[j]
  <2>1. CASE j < i
    BY <1>1, <2>1
  <2>2. CASE j > i
    <3>1. j - 1 \in 1 .. Len(t) /\ t[j - 1] = q[j]
      BY <1>1, <2>2
    <3> QED BY <3>1
  <2> QED BY <1>1, <1>5, <2>1, <2>2
<1>6. \A k \in 1 .. Len(t) : \E j \in 1 .. Len(q) : t[k] = q[j]
  <2>1. TAKE k \in 1 .. Len(t)
  <2>2. CASE k < i
    BY <1>1, <2>2
  <2>3. CASE k >= i
    <3>1. k + 1 \in 1 .. Len(q) /\ t[k] = q[k + 1]
      BY <1>1, <2>3
    <3> QED BY <3>1
  <2> QED BY <1>1, <2>2, <2>3
<1>7. \A x : Has(q, x) /\ x # "size" => Has(t, x)
  BY <1>5 DEF Has
<1>8. ASSUME NEW E, NEW x, "size" \notin E
      PROVE  /\ x \in E /\ LastIs(t, E, x) => LastIs(q, E, x)
             /\ Lacks(t, E) <=> Lacks(q, E)
  <2>1. Lacks(t, E) <=> Lacks(q, E)
    BY <1>5, <1>6, <1>8 DEF Lacks
  <2>2. ASSUME NEW k \in 1 .. Len(t), t[k] = x, \A j \in k + 1 .. Len(t) : t[j] \notin E, x \in E
        PROVE  LastIs(q, E, x)
    <3>1. CASE k < i
      <4>1. k \in 1 .. Len(q) /\ q[k] = x
        BY <1>1, <2>2, <3>1
      <4>2. ASSUME NEW j \in k + 1 .. Len(q)
            PROVE  q[j] \notin E
        <5>1. CASE j < i
          <6>1. j \in k + 1 .. Len(t) /\ t[j] = q[j]
            BY <1>1, <4>1, <5>1
          <6> QED BY <2>2, <6>1
        <5>2. CASE j > i
          <6>1. j - 1 \in k + 1 .. Len(t) /\ t[j - 1] = q[j]
            BY <1>1, <3>1, <4>1, <5>2
          <6> QED BY <2>2, <6>1
        <5>3. CASE j = i
          BY <1>8, <5>3
        <5> QED BY <1>1, <4>1, <5>1, <5>2, <5>3
      <4> QED BY <4>1, <4>2 DEF LastIs
    <3>2. CASE k >= i
      <4>1. k + 1 \in 1 .. Len(q) /\ q[k + 1] = x
        BY <1>1, <2>2, <3>2
      <4>2. ASSUME NEW j \in k + 2 .. Len(q)
            PROVE  q[j] \notin E
        <5>1. j - 1 \in k + 1 .. Len(t) /\ t[j - 1] = q[j]
          BY <1>1, <3>2, <4>1
        <5> QED BY <2>2, <5>1
      <4> QED BY <4>1, <4>2 DEF LastIs
    <3> QED BY <1>1, <3>1, <3>2
  <2> QED BY <2>1, <2>2 DEF LastIs
<1> QED BY <1>1, <1>4, <1>7, <1>8 DEF t

LEMMA NoticeSays ==
  ASSUME NEW q \in Seq(WindowEvents), OneSize(q), NEW e \in WindowEvents
  PROVE  LET r == Notice(q, e) IN
         /\ r \in Seq(WindowEvents) /\ OneSize(r) /\ Has(r, e)
         /\ \A x : Has(q, x) => Has(r, x)
         /\ \A E, x : "size" \notin E /\ e \notin E =>
              /\ x \in E /\ LastIs(r, E, x) => LastIs(q, E, x)
              /\ Lacks(r, E) <=> Lacks(q, E)
         /\ \A E, x : e \in E => ~Lacks(r, E) /\ (LastIs(r, E, x) => x = e)
<1>1. CASE ~(e = "size" /\ Has(q, "size"))
  <2>1. Notice(q, e) = Append(q, e)
    BY <1>1 DEF Notice, Has
  <2> HIDE DEF Notice
  <2> QED BY <1>1, <2>1, AppendSays
<1>2. CASE e = "size" /\ Has(q, "size")
  <2>1. PICK i \in 1 .. Len(q) : q[i] = "size" /\ i = CHOOSE j \in DOMAIN q : q[j] = "size"
    BY <1>2 DEF Has
  <2> DEFINE t == SubSeq(q, 1, i - 1) \o SubSeq(q, i + 1, Len(q))
  <2>2. Notice(q, e) = Append(t, e)
    <3>1. \E j \in DOMAIN q : q[j] = "size"
      BY <1>2 DEF Has
    <3> QED BY <1>2, <2>1, <3>1, Zenon DEF Notice
  <2>3. /\ t \in Seq(WindowEvents) /\ ~Has(t, "size") /\ OneSize(t)
        /\ \A x : Has(q, x) /\ x # "size" => Has(t, x)
        /\ \A E, x : "size" \notin E => /\ x \in E /\ LastIs(t, E, x) => LastIs(q, E, x)
                                        /\ Lacks(t, E) <=> Lacks(q, E)
    BY <2>1, RemovedSays
  <2> HIDE DEF t
  <2>4. LET r == Append(t, e) IN
         /\ r \in Seq(WindowEvents) /\ Has(r, e) /\ \A x : Has(t, x) => Has(r, x)
         /\ \A E, x : e \notin E => /\ x \in E /\ LastIs(r, E, x) => LastIs(t, E, x)
                                    /\ Lacks(r, E) <=> Lacks(t, E)
         /\ \A E, x : e \in E => ~Lacks(r, E) /\ (LastIs(r, E, x) => x = e)
         /\ OneSize(r)
    BY <2>3, AppendSays
  <2> QED BY <1>2, <2>2, <2>3, <2>4
<1> QED BY <1>1, <1>2

-----------------------------------------------------------------------------
(* What the functions of the screen and of the display change.             *)

\* An operation changes the display, and what is shown, alone.
SameDisplay(c, d) == d.display = c.display /\ d.shown = c.shown /\ d.status = c.status

\* The window is in the same state, and a notice comes unless the drawable is the same.
SameWindow(c, d) ==
  /\ d.window.fullscreen = c.window.fullscreen
  /\ d.window.maximized = c.window.maximized /\ d.window.minimized = c.window.minimized
  /\ \/ d.events = c.events /\ Drawable(d.window) = Drawable(c.window)
     \/ d.events = Notice(c.events, "size")

SameState(s, t) ==
  /\ t.fullscreen = s.fullscreen /\ t.maximized = s.maximized /\ t.minimized = s.minimized
  /\ t.hasFrame = s.hasFrame /\ t.paused = s.paused /\ t.req = s.req
  /\ t.orientation = s.orientation /\ t.frameSize = s.frameSize
  /\ t.frame = s.frame /\ t.resume = s.resume

Resized(c, d) ==
  d \in Contexts /\ d.screen = c.screen /\ SameWindow(c, d) /\ SameDisplay(c, d)

LEMMA SetWindowSizeStep ==
  ASSUME NEW c \in Contexts, NEW size \in Dims, OneSize(c.events)
  PROVE  LET d == SetWindowSize(c, size) IN
         /\ Resized(c, d) /\ d.result = c.result
         /\ d.window.chosen \/ d.window.size = size
<1> DEFINE d == SetWindowSize(c, size)
<1>1. c.window \in Windows /\ c.events \in Seq(WindowEvents)
  BY DEF Contexts
<1>2. CASE size.w = 0 \/ size.h = 0
  <2>1. d = [c EXCEPT !.window.chosen = TRUE]
    BY <1>2 DEF SetWindowSize
  <2>2. d.window = [c.window EXCEPT !.chosen = TRUE] /\ d.events = c.events
    BY <2>1 DEF Contexts
  <2>3. d.window \in Windows /\ d.window.chosen /\ Drawable(d.window) = Drawable(c.window)
    BY <1>1, <2>2 DEF Windows, Drawable, WindowSize
  <2>4. d \in Contexts /\ SameDisplay(c, d) /\ d.screen = c.screen /\ d.result = c.result
    BY <2>1, <2>2, <2>3 DEF Contexts, SameDisplay
  <2> HIDE DEF d
  <2> QED BY <1>1, <2>2, <2>3, <2>4 DEF Resized, SameWindow, Windows, d
<1>3. CASE size.w # 0 /\ size.h # 0
  <2>1. size \in Sizes
    BY <1>3 DEF Sizes, Dims
  <2> DEFINE w == [c.window EXCEPT !.size = size, !.chosen = FALSE]
  <2>2. w \in Windows /\ w.size = size /\ w.fullscreen = c.window.fullscreen
        /\ w.maximized = c.window.maximized /\ w.minimized = c.window.minimized
    BY <1>1, <2>1 DEF Windows
  <2>3. Drawable(w) = Drawable([c.window EXCEPT !.size = size])
    BY <1>1, <2>2 DEF Drawable, WindowSize, Windows
  <2>4. d = [c EXCEPT !.window = w, !.events = IF Drawable(c.window) # Drawable(w)
                                             THEN Notice(c.events, "size") ELSE c.events]
    BY <1>3, <2>3 DEF SetWindowSize, Contexts
  <2> HIDE DEF w
  <2>5. d.window = w /\ d.events \in Seq(WindowEvents)
        /\ \/ d.events = c.events /\ Drawable(w) = Drawable(c.window)
           \/ d.events = Notice(c.events, "size")
    BY <1>1, <2>4, NoticeSays DEF Contexts, WindowEvents
  <2>6. d \in Contexts /\ SameDisplay(c, d) /\ d.screen = c.screen /\ d.result = c.result
    BY <2>2, <2>4, <2>5 DEF Contexts, SameDisplay
  <2> HIDE DEF d
  <2> QED BY <2>2, <2>5, <2>6 DEF Resized, SameWindow, d
<1> QED BY <1>2, <1>3 DEF Dims

LEMMA ResizeForContentStep ==
  ASSUME NEW c \in Contexts, NEW old \in Sizes, NEW new \in Sizes, OneSize(c.events)
  PROVE  LET d == ResizeForContent(c, old, new) IN
         Resized(c, d) /\ (d.window.chosen \/ IsOptimal(d.window.size, new))
<1> DEFINE current == WindowSize(c.window)
           wanted == Size((current.w * new.w) \div old.w, (current.h * new.h) \div old.h)
<1>1. current \in Sizes
  BY DrawableSize DEF Contexts
<1> HIDE DEF current
<1>2. /\ current.w \in Nat /\ current.h \in Nat /\ new.w \in Nat /\ new.h \in Nat
      /\ old.w \in Nat \ {0} /\ old.h \in Nat \ {0}
  BY <1>1 DEF Sizes
<1>3. current.w * new.w \in Nat /\ current.h * new.h \in Nat
  BY <1>2, ProductNat
<1>4. wanted \in Dims
  BY <1>2, <1>3, DivideNat DEF Dims, Size
<1> HIDE DEF wanted
<1>5. OptimalSize(wanted, new, TRUE) \in Dims /\ IsOptimal(OptimalSize(wanted, new, TRUE), new)
  BY <1>4, OptimalFits
<1>6. ResizeForContent(c, old, new) = SetWindowSize(c, OptimalSize(wanted, new, TRUE))
  BY DEF ResizeForContent, wanted, current
<1> QED BY <1>5, <1>6, SetWindowSizeStep

\* The content has the size `new`, and the window with it, unless this is left for later.
ContentResized(c, d, new) ==
  /\ d \in Contexts /\ SameWindow(c, d) /\ SameDisplay(c, d)
  /\ SameState(c.screen, d.screen) /\ d.screen.rect = c.screen.rect
  /\ d.screen.content = new
  /\ d.screen.resizePending =>
       /\ d.screen.windowedContent \in Sizes
       /\ c.screen.resizePending \/ ~Windowed(c.screen)
  /\ d.window.chosen \/ d.screen.resizePending \/ IsOptimal(d.window.size, new)

LEMMA SetContentSizeStep ==
  ASSUME NEW c \in Contexts, c.screen.content \in Sizes, NEW new \in Sizes, OneSize(c.events),
         c.screen.resizePending => c.screen.windowedContent \in Sizes
  PROVE  ContentResized(c, SetContentSize(c, new), new)
<1> DEFINE s == c.screen
           d == SetContentSize(c, new)
<1>1. s \in Screens /\ c.window \in Windows /\ new \in Dims /\ s.content \in Dims
  BY DEF Contexts, Sizes, Dims
<1>2. CASE Windowed(s)
  <2> DEFINE r == ResizeForContent(c, s.content, new)
  <2>1. Resized(c, r) /\ (r.window.chosen \/ IsOptimal(r.window.size, new))
    BY ResizeForContentStep
  <2>2. d = [r EXCEPT !.screen.content = new]
    BY <1>2 DEF SetContentSize
  <2> HIDE DEF r
  <2> DEFINE t == [s EXCEPT !.content = new]
  <2>3. /\ t \in Screens /\ SameState(s, t) /\ t.content = new /\ t.rect = s.rect
        /\ t.resizePending = s.resizePending /\ t.windowedContent = s.windowedContent
    BY <1>1 DEF Screens, SameState
  <2>4. d = [r EXCEPT !.screen = t]
    BY <2>1, <2>2 DEF Resized, Contexts
  <2> HIDE DEF t, d
  <2>5. d \in Contexts /\ d.screen = t /\ d.window = r.window /\ d.events = r.events /\ SameDisplay(r, d)
    BY <2>1, <2>3, <2>4 DEF Resized, Contexts, SameDisplay
  <2> QED BY <2>1, <2>3, <2>5 DEF Resized, SameWindow, SameDisplay, ContentResized, d
<1>3. CASE ~Windowed(s)
  <2> DEFINE t == [s EXCEPT !.content = new, !.resizePending = TRUE,
                            !.windowedContent = IF s.resizePending THEN @ ELSE s.content]
  <2>1. d = [c EXCEPT !.screen = t]
    BY <1>1, <1>3 DEF SetContentSize, Contexts, Screens
  <2>2. /\ t \in Screens /\ t.resizePending /\ t.windowedContent \in Sizes /\ t.content = new
        /\ SameState(s, t) /\ t.rect = s.rect
    BY <1>1, <1>3 DEF Screens, SameState
  <2> HIDE DEF t, d
  <2>3. d \in Contexts /\ d.screen = t /\ d.window = c.window /\ d.events = c.events /\ SameDisplay(c, d)
    BY <2>1, <2>2 DEF Contexts, SameDisplay
  <2> QED BY <1>3, <2>2, <2>3 DEF SameWindow, ContentResized, d
<1> QED BY <1>2, <1>3

\* What an operation on the display leaves alone.
SameScreen(c, d) == d.screen = c.screen /\ d.window = c.window /\ d.events = c.events

LEMMA NoTextureType == NoTexture \in [size : Dims, frame : Pictures] /\ NoFrame \in Pictures
BY DEF NoTexture, NoFrame, Size, Dims, Pictures

LEMMA SetTextureSizeStep ==
  ASSUME NEW c \in Contexts, NEW size \in Sizes, NEW failing
  PROVE  LET d == SetTextureSize(c, size, failing) IN
         /\ d \in Contexts /\ SameScreen(c, d) /\ d.shown = c.shown /\ d.status = c.status
         /\ d.result \in {"ok", "pending"}
         /\ failing = "none" => /\ d.result = "ok" /\ d.display.flags = c.display.flags
                                /\ d.display.texture.size = size
<1> DEFINE d == SetTextureSize(c, size, failing)
<1>1. c.display \in Displays /\ size \in Dims
  BY DEF Contexts, Sizes, Dims
<1>2. CASE failing = "create"
  <2> DEFINE e == [c.display EXCEPT !.texture = NoTexture, !.pendingSize = size,
                                    !.flags = @ \cup {"size"}]
  <2>1. e \in Displays
    BY <1>1, NoTextureType DEF Displays
  <2>2. d = [c EXCEPT !.display = e, !.result = "pending"]
    BY <1>2 DEF SetTextureSize, Contexts
  <2> HIDE DEF e
  <2> QED BY <1>2, <2>1, <2>2 DEF Contexts, SameScreen
<1>3. CASE failing # "create"
  <2> DEFINE e == [c.display EXCEPT !.texture = Texture(size)]
  <2>1. e \in Displays /\ e.flags = c.display.flags /\ e.texture.size = size
    BY <1>1, NoTextureType DEF Displays, Texture
  <2>2. d = [c EXCEPT !.display = e, !.result = "ok"]
    BY <1>3 DEF SetTextureSize, Contexts
  <2> HIDE DEF e
  <2> QED BY <1>3, <2>1, <2>2 DEF Contexts, SameScreen
<1> QED BY <1>2, <1>3

LEMMA UpdateTextureStep ==
  ASSUME NEW c \in Contexts, NEW frame \in Pictures, NEW failing
  PROVE  LET d == UpdateTexture(c, frame, failing) IN
         /\ d \in Contexts /\ SameScreen(c, d) /\ d.shown = c.shown /\ d.status = c.status
         /\ failing = "none" /\ c.display.texture.size \in Sizes =>
              /\ d.result = "ok" /\ d.display.flags = c.display.flags
              /\ d.display.texture.size = c.display.texture.size
              /\ d.display.texture.frame = frame
<1> DEFINE d == UpdateTexture(c, frame, failing)
<1>1. c.display \in Displays
  BY DEF Contexts
<1>2. c.display.texture.size \in Sizes => c.display.texture # NoTexture
  BY DEF Sizes, NoTexture, Size
<1>3. CASE c.display.texture # NoTexture /\ failing \notin {"update", "alloc"}
  <2> DEFINE e == [c.display EXCEPT !.texture.frame = frame]
  <2>1. /\ e \in Displays /\ e.flags = c.display.flags
        /\ e.texture.size = c.display.texture.size /\ e.texture.frame = frame
    BY <1>1 DEF Displays
  <2>2. d = [c EXCEPT !.display = e, !.result = "ok"]
    BY <1>3 DEF UpdateTexture, Contexts
  <2> HIDE DEF e
  <2> QED BY <1>3, <2>1, <2>2 DEF Contexts, SameScreen
<1>4. CASE ~(c.display.texture # NoTexture /\ failing \notin {"update", "alloc"})
  <2>1. ~(failing = "none" /\ c.display.texture.size \in Sizes)
    BY <1>2, <1>4
  <2>2. CASE failing = "alloc"
    BY <1>4, <2>1, <2>2 DEF UpdateTexture, Contexts, SameScreen
  <2>3. CASE failing # "alloc"
    <3> DEFINE e == [c.display EXCEPT !.pendingFrame = frame, !.flags = @ \cup {"frame"}]
    <3>1. e \in Displays
      BY <1>1 DEF Displays
    <3>2. d = [c EXCEPT !.display = e, !.result = "pending"]
      BY <1>4, <2>3 DEF UpdateTexture, Contexts
    <3> HIDE DEF e
    <3> QED BY <2>1, <3>1, <3>2 DEF Contexts, SameScreen
  <2> QED BY <2>2, <2>3
<1> QED BY <1>3, <1>4

LEMMA ApplyPendingStep ==
  ASSUME NEW c \in Contexts, NEW failing
  PROVE  LET d == ApplyPending(c, failing) IN
         /\ d \in Contexts /\ SameScreen(c, d) /\ d.shown = c.shown
         /\ c.display.flags = {} /\ c.status = "run" =>
              d.result = "ok" /\ d.display = c.display /\ d.status = c.status
<1> DEFINE sized == ApplyPendingSize(c, failing)
           d == ApplyPending(c, failing)
<1>1. c.display \in Displays
  BY DEF Contexts
<1>2. /\ sized \in Contexts /\ SameScreen(c, sized) /\ sized.shown = c.shown
      /\ c.display.flags = {} =>
           sized.result = "ok" /\ sized.display = c.display /\ sized.status = c.status
  <2>1. CASE "size" \notin c.display.flags
    BY <2>1 DEF ApplyPendingSize, Contexts, SameScreen
  <2>2. CASE "size" \in c.display.flags /\ (c.display.texture # NoTexture \/ failing = "create")
    BY <2>2 DEF ApplyPendingSize, Contexts, SameScreen
  <2>3. CASE "size" \in c.display.flags /\ c.display.texture = NoTexture /\ failing # "create"
    <3> DEFINE e == [c.display EXCEPT !.texture = Texture(c.display.pendingSize),
                                      !.flags = @ \ {"size"}]
    <3>1. e \in Displays
      BY <1>1, NoTextureType DEF Displays, Texture
    <3>2. sized = [c EXCEPT !.display = e, !.result = "ok"]
      BY <2>3 DEF ApplyPendingSize, Contexts
    <3> HIDE DEF e
    <3> QED BY <2>3, <3>1, <3>2 DEF Contexts, SameScreen
  <2> QED BY <2>1, <2>2, <2>3
<1> HIDE DEF sized
<1>3. CASE sized.status # "run" \/ sized.result # "ok"
  BY <1>2, <1>3 DEF ApplyPending, sized
<1>4. CASE ~(sized.status # "run" \/ sized.result # "ok")
  <2> DEFINE updated == UpdateTexture(sized, sized.display.pendingFrame, failing)
  <2>1. d = ApplyPendingFrame(sized, failing)
    BY <1>4 DEF ApplyPending, sized
  <2>2. sized.display \in Displays /\ sized.display.pendingFrame \in Pictures
    BY <1>2 DEF Contexts, Displays
  <2>3. updated \in Contexts /\ SameScreen(sized, updated) /\ updated.shown = sized.shown
    BY <1>2, <2>2, UpdateTextureStep
  <2> HIDE DEF updated
  <2>4. CASE "frame" \notin sized.display.flags
    <3>1. d = sized
      BY <2>1, <2>4 DEF ApplyPendingFrame
    <3> QED BY <1>2, <1>4, <3>1
  <2>5. CASE "frame" \in sized.display.flags
    <3> DEFINE e == [updated.display EXCEPT !.pendingFrame = NoFrame, !.flags = @ \ {"frame"}]
    <3>1. updated.display \in Displays /\ e \in Displays
      BY <2>3, NoTextureType DEF Contexts, Displays
    <3>2. \/ d = [updated EXCEPT !.result = "pending"]
          \/ d = [updated EXCEPT !.display = e, !.result = "ok"]
      BY <2>1, <2>3, <2>5 DEF ApplyPendingFrame, updated, Contexts
    <3> HIDE DEF e, d
    <3>3. d \in Contexts /\ SameScreen(updated, d) /\ d.shown = updated.shown
      BY <2>3, <3>1, <3>2 DEF Contexts, SameScreen
    <3> QED BY <1>2, <2>3, <2>5, <3>3 DEF SameScreen, d
  <2> QED BY <2>4, <2>5
<1> QED BY <1>3, <1>4

LEMMA PresentStep ==
  ASSUME NEW c \in Contexts, NEW failing
  PROVE  LET d == Present(c, failing) IN
         /\ d \in Contexts /\ SameScreen(c, d)
         /\ Loaded(c) /\ c.status = "run" /\ failing = "none" =>
              /\ Loaded(d) /\ d.status = "run" /\ d.display = c.display
              /\ d.shown.frame = c.display.texture.frame
              /\ d.shown.orientation = c.screen.orientation
              /\ d.shown.rect = Destination(c.screen.rect, c.screen.orientation)
<1> DEFINE applied == ApplyPending(c, failing)
           d == Present(c, failing)
           p == [frame |-> applied.display.texture.frame, orientation |-> applied.screen.orientation,
                 rect |-> Destination(applied.screen.rect, applied.screen.orientation)]
<1>1. /\ applied \in Contexts /\ SameScreen(c, applied) /\ applied.shown = c.shown
      /\ c.display.flags = {} /\ c.status = "run" =>
           applied.result = "ok" /\ applied.display = c.display /\ applied.status = c.status
  BY ApplyPendingStep
<1> HIDE DEF applied
<1>2. p \in Shows
  <2>1. /\ applied.display.texture.frame \in Pictures /\ applied.screen.orientation \in 0 .. 7
        /\ applied.screen.rect \in Rects
    BY <1>1 DEF Contexts, Displays, Screens
  <2> QED BY <2>1, DestinationType DEF Shows
<1>3. d = applied \/ d = [applied EXCEPT !.shown = p]
  BY DEF Present, applied
<1>4. Loaded(c) /\ c.status = "run" /\ failing = "none" => d = [applied EXCEPT !.shown = p]
  <2>1. c.display.texture.size \in Sizes => c.display.texture # NoTexture
    BY DEF Sizes, NoTexture, Size
  <2> QED BY <1>1, <2>1 DEF Present, applied, Loaded
<1> HIDE DEF p, d
<1>5. d \in Contexts /\ SameScreen(c, d)
  BY <1>1, <1>2, <1>3 DEF Contexts, SameScreen
<1>6. ASSUME Loaded(c), c.status = "run", failing = "none"
      PROVE  /\ Loaded(d) /\ d.status = "run" /\ d.display = c.display
             /\ d.shown.frame = c.display.texture.frame
             /\ d.shown.orientation = c.screen.orientation
             /\ d.shown.rect = Destination(c.screen.rect, c.screen.orientation)
  <2>1. d.shown = p /\ d.display = applied.display /\ d.status = applied.status
    BY <1>1, <1>4, <1>6 DEF Contexts
  <2>2. applied.display = c.display /\ applied.status = c.status /\ applied.screen = c.screen
    BY <1>1, <1>6 DEF Loaded, SameScreen
  <2> QED BY <1>6, <2>1, <2>2 DEF p, Loaded
<1> QED BY <1>5, <1>6 DEF d

LEMMA UpdateContentRectStep ==
  ASSUME NEW c \in Contexts, c.screen.content \in Sizes
  PROVE  LET d == UpdateContentRect(c) IN
         /\ d \in Contexts /\ SameDisplay(c, d) /\ d.window = c.window /\ d.events = c.events
         /\ d.result = c.result
         /\ SameState(c.screen, d.screen) /\ d.screen.content = c.screen.content
         /\ d.screen.resizePending = c.screen.resizePending
         /\ d.screen.windowedContent = c.screen.windowedContent
         /\ d.screen.rect = ContentRect(Drawable(c.window), c.screen.content)
<1> DEFINE r == ContentRect(Drawable(c.window), c.screen.content)
           s == [c.screen EXCEPT !.rect = r]
<1>1. c.window \in Windows /\ c.screen \in Screens
  BY DEF Contexts
<1>2. r \in Rects
  BY <1>1, DrawableSize, ContentRectType
<1> HIDE DEF r
<1>3. /\ s \in Screens /\ SameState(c.screen, s) /\ s.content = c.screen.content
      /\ s.resizePending = c.screen.resizePending /\ s.windowedContent = c.screen.windowedContent
      /\ s.rect = r
  BY <1>1, <1>2 DEF Screens, SameState
<1>4. UpdateContentRect(c) = [c EXCEPT !.screen = s]
  BY DEF UpdateContentRect, Contexts, r
<1> HIDE DEF s
<1> QED BY <1>3, <1>4 DEF Contexts, SameDisplay, r

\* The queue r has, of the notices of a size, at most one more than the queue q, and the
\* same other events.
Later(q, r) ==
  /\ r \in Seq(WindowEvents) /\ OneSize(r)
  /\ \A x : Has(q, x) => Has(r, x)
  /\ \A E, x : "size" \notin E => /\ x \in E /\ LastIs(r, E, x) => LastIs(q, E, x)
                                  /\ Lacks(r, E) <=> Lacks(q, E)

LEMMA LaterNotice ==
  ASSUME NEW q \in Seq(WindowEvents), OneSize(q)
  PROVE  Later(q, Notice(q, "size")) /\ Has(Notice(q, "size"), "size")
<1>1. "size" \in WindowEvents
  BY DEF WindowEvents
<1> QED BY <1>1, NoticeSays DEF Later

LEMMA LaterSame ==
  ASSUME NEW q \in Seq(WindowEvents), OneSize(q)
  PROVE  Later(q, q)
BY DEF Later

LEMMA LaterLater ==
  ASSUME NEW q, NEW r, NEW t, Later(q, r), Later(r, t)
  PROVE  Later(q, t)
BY DEF Later

\* What the screen knows stays true when the window is resized.
LEMMA FitStays ==
  ASSUME NEW s, NEW w, NEW q, NEW missed, Fit(s, w, q, missed),
         NEW t, NEW x, NEW r, Later(q, r),
         t.fullscreen = x.fullscreen,
         t.maximized = s.maximized /\ x.maximized = w.maximized,
         t.minimized = s.minimized /\ x.minimized = w.minimized,
         t.resizePending /\ Windowed(t) => s.resizePending /\ Windowed(s),
         t.hasFrame => x.chosen \/ t.resizePending \/ IsOptimal(x.size, t.content),
         ~t.hasFrame => ~s.hasFrame /\ Windowed(t) /\ ~t.resizePending /\ Windowed(x)
  PROVE  Fit(t, x, r, missed)
<1> DEFINE M == {"maximized", "restored"}
           N == {"minimized", "restored"}
           A == {"maximized", "minimized", "restored"}
<1>1. /\ \A e \in M : LastIs(r, M, e) => LastIs(q, M, e)
      /\ Lacks(r, M) <=> Lacks(q, M)
  BY DEF Later
<1>2. /\ \A e \in N : LastIs(r, N, e) => LastIs(q, N, e)
      /\ Lacks(r, N) <=> Lacks(q, N)
  BY DEF Later
<1>3. Lacks(r, A) <=> Lacks(q, A)
  BY DEF Later
<1>4. OneSize(r) /\ (Has(q, "restored") => Has(r, "restored"))
  BY DEF Later
<1>5. Follows(r, missed, t.maximized, x.maximized, "maximized")
  BY <1>1 DEF Fit, Follows
<1>6. Follows(r, missed, t.minimized, x.minimized, "minimized")
  BY <1>2 DEF Fit, Follows
<1> QED BY <1>3, <1>4, <1>5, <1>6 DEF Fit

\* Among finitely many positions, one is the last: by well-foundedness of the natural
\* numbers, the distances to the end have a least one.
LEMMA LastExists ==
  ASSUME NEW n \in Nat, NEW q, NEW E, NEW i \in 1 .. n, q[i] \in E
  PROVE  \E j \in 1 .. n : q[j] \in E /\ \A k \in j + 1 .. n : q[k] \notin E
<1> DEFINE T == {m \in Nat : m < n /\ q[n - m] \in E}
           R == OpToRel(<, Nat)
<1>1. T \subseteq Nat /\ n - i \in T
  OBVIOUS
<1>2. T # {}
  BY <1>1
<1>3. IsWellFoundedOn(R, Nat)
  BY NatLessThanWellFounded
<1>4. R = {ss \in Nat \X Nat : ss[1] < ss[2]}
  BY DEF OpToRel
<1> HIDE DEF R
<1>5. \E m \in T : \A l \in T : ~(<<l, m>> \in R)
  <2> HIDE DEF T
  <2> QED BY <1>1, <1>2, <1>3, WFMin
<1>6. PICK m \in T : \A l \in T : ~(<<l, m>> \in R)
  BY <1>5
<1>7. \A l \in T : ~(l < m)
  BY <1>1, <1>4, <1>6
<1>8. n - m \in 1 .. n /\ q[n - m] \in E
  OBVIOUS
<1>9. ASSUME NEW k \in n - m + 1 .. n
      PROVE  q[k] \notin E
  <2>1. n - k \in Nat /\ n - k < m /\ n - (n - k) = k /\ n - k < n
    OBVIOUS
  <2> QED BY <1>7, <2>1
<1> QED BY <1>8, <1>9

-----------------------------------------------------------------------------
(* The operations on the window.                                           *)

\* The screen knows the state of the window, and the window fits the content.
Sound(c, missed) ==
  /\ c \in Contexts /\ Sized(c.screen)
  /\ Fit(c.screen, c.window, c.events, missed)

Whole(c, missed) == Sound(c, missed) /\ Centered(c.screen, c.window, c.events)

LEMMA SoundFacts ==
  ASSUME NEW c, NEW missed, Sound(c, missed)
  PROVE  /\ c \in Contexts /\ c.screen \in Screens /\ c.window \in Windows
         /\ c.events \in Seq(WindowEvents) /\ OneSize(c.events)
         /\ c.screen.content \in Sizes
         /\ c.screen.content = Oriented(c.screen.frameSize, c.screen.orientation)
         /\ c.screen.resizePending => c.screen.windowedContent \in Sizes
         /\ c.screen.fullscreen = c.window.fullscreen
BY DEF Sound, Sized, Fit, Contexts

LEMMA OrientedSize ==
  ASSUME NEW size \in Sizes, NEW o
  PROVE  Oriented(size, o) \in Sizes
BY DEF Oriented, Sizes, Size

LEMMA SameWindowLater ==
  ASSUME NEW c, NEW d, c.events \in Seq(WindowEvents), OneSize(c.events), SameWindow(c, d)
  PROVE  /\ Later(c.events, d.events)
         /\ Drawable(d.window) = Drawable(c.window) \/ Has(d.events, "size")
BY LaterSame, LaterNotice DEF SameWindow

LEMMA RenderStep ==
  ASSUME NEW c, NEW missed, Sound(c, missed), NEW failing
  PROVE  LET d == Render(c, failing) IN
         /\ Whole(d, missed) /\ SameState(c.screen, d.screen)
         /\ d.window = c.window /\ d.events = c.events
         /\ Loaded(c) /\ c.status = "run" /\ failing = "none" =>
              /\ Loaded(d) /\ d.status = "run" /\ d.display = c.display /\ Drawn(d)
<1> DEFINE e == UpdateContentRect(c)
           d == Render(c, failing)
<1>1. c \in Contexts /\ c.screen.content \in Sizes
  BY SoundFacts
<1>2. /\ e \in Contexts /\ SameDisplay(c, e) /\ e.window = c.window /\ e.events = c.events
      /\ SameState(c.screen, e.screen) /\ e.screen.content = c.screen.content
      /\ e.screen.resizePending = c.screen.resizePending
      /\ e.screen.windowedContent = c.screen.windowedContent
      /\ e.screen.rect = ContentRect(Drawable(c.window), c.screen.content)
  BY <1>1, UpdateContentRectStep
<1>3. d = Present(e, failing)
  BY DEF Render
<1> HIDE DEF d, e
<1>4. /\ d \in Contexts /\ SameScreen(e, d)
      /\ Loaded(e) /\ e.status = "run" /\ failing = "none" =>
           /\ Loaded(d) /\ d.status = "run" /\ d.display = e.display /\ Drawn(d)
  BY <1>2, <1>3, PresentStep DEF SameScreen, Drawn
<1>5. Sized(d.screen) /\ Fit(d.screen, d.window, d.events, missed)
  BY <1>2, <1>4 DEF Sound, Sized, Fit, SameState, SameScreen, Windowed
<1>6. Centered(d.screen, d.window, d.events)
  BY <1>2, <1>4 DEF Centered, SameScreen
<1>7. Whole(d, missed) /\ SameState(c.screen, d.screen) /\ d.window = c.window /\ d.events = c.events
  BY <1>2, <1>4, <1>5, <1>6 DEF Whole, Sound, SameState, SameScreen
<1>8. ASSUME Loaded(c), c.status = "run", failing = "none"
      PROVE  Loaded(d) /\ d.status = "run" /\ d.display = c.display /\ Drawn(d)
  <2>1. Loaded(e) /\ e.status = "run" /\ e.display = c.display
    BY <1>2, <1>8 DEF Loaded, SameDisplay
  <2> QED BY <1>4, <1>8, <2>1
<1> QED BY <1>7, <1>8 DEF d

LEMMA ApplyPendingResizeStep ==
  ASSUME NEW c \in Contexts, OneSize(c.events), c.screen.content \in Sizes,
         c.screen.resizePending => c.screen.windowedContent \in Sizes
  PROVE  LET d == ApplyPendingResize(c) IN
         /\ d \in Contexts /\ SameDisplay(c, d) /\ SameWindow(c, d)
         /\ SameState(c.screen, d.screen) /\ d.screen.content = c.screen.content
         /\ d.screen.rect = c.screen.rect /\ ~d.screen.resizePending
         /\ IF c.screen.resizePending
            THEN d.window.chosen \/ IsOptimal(d.window.size, c.screen.content)
            ELSE d.window = c.window
<1> DEFINE d == ApplyPendingResize(c)
<1>1. c.screen \in Screens
  BY DEF Contexts
<1>2. CASE ~c.screen.resizePending
  <2>1. d = c
    BY <1>2 DEF ApplyPendingResize
  <2> QED BY <1>2, <2>1 DEF SameDisplay, SameWindow, SameState
<1>3. CASE c.screen.resizePending
  <2> DEFINE r == ResizeForContent(c, c.screen.windowedContent, c.screen.content)
             t == [c.screen EXCEPT !.resizePending = FALSE]
  <2>1. Resized(c, r) /\ (r.window.chosen \/ IsOptimal(r.window.size, c.screen.content))
    BY <1>3, ResizeForContentStep
  <2>2. d = [r EXCEPT !.screen.resizePending = FALSE]
    BY <1>3 DEF ApplyPendingResize
  <2> HIDE DEF r
  <2>3. /\ t \in Screens /\ SameState(c.screen, t) /\ t.content = c.screen.content
        /\ t.rect = c.screen.rect /\ ~t.resizePending
    BY <1>1 DEF Screens, SameState
  <2>4. d = [r EXCEPT !.screen = t]
    BY <2>1, <2>2 DEF Resized, Contexts
  <2> HIDE DEF t, d
  <2>5. /\ d \in Contexts /\ d.screen = t /\ d.window = r.window /\ d.events = r.events
        /\ SameDisplay(r, d)
    BY <2>1, <2>3, <2>4 DEF Resized, Contexts, SameDisplay
  <2>6. SameWindow(c, d) /\ SameDisplay(c, d)
    BY <2>1, <2>5 DEF Resized, SameWindow, SameDisplay
  <2> QED BY <1>3, <2>1, <2>3, <2>5, <2>6 DEF d
<1> QED BY <1>2, <1>3

LEMMA SetOrientationStep ==
  ASSUME NEW c, NEW missed, Whole(c, missed), NEW o \in 0 .. 7, NEW failing, c.screen.hasFrame
  PROVE  LET d == SetOrientation(c, o, failing) IN
         /\ Whole(d, missed) /\ d.screen.orientation = o /\ d.screen.hasFrame
         /\ d.screen.frame = c.screen.frame /\ d.screen.resume = c.screen.resume
         /\ d.screen.paused = c.screen.paused
         /\ Painted(c) /\ c.status = "run" /\ failing = "none" => Painted(d) /\ d.status = "run"
<1> DEFINE new == Oriented(c.screen.frameSize, o)
           r == SetContentSize(c, new)
           e == [r EXCEPT !.screen.orientation = o]
           d == SetOrientation(c, o, failing)
<1>1. Sound(c, missed)
  BY DEF Whole
<1>2. CASE o = c.screen.orientation
  BY <1>2 DEF SetOrientation, Painted
<1>3. CASE o # c.screen.orientation
  <2>1. new \in Sizes
    BY <1>1, SoundFacts, OrientedSize DEF Screens
  <2> HIDE DEF new
  <2>2. ContentResized(c, r, new)
    BY <1>1, <2>1, SoundFacts, SetContentSizeStep
  <2>3. d = Render(e, failing)
    BY <1>3 DEF SetOrientation, new
  <2> HIDE DEF r, d
  <2> DEFINE t == [r.screen EXCEPT !.orientation = o]
  <2>4. r.screen \in Screens
    BY <2>2 DEF ContentResized, Contexts
  <2>5. /\ t \in Screens /\ t.fullscreen = r.screen.fullscreen /\ t.maximized = r.screen.maximized
        /\ t.minimized = r.screen.minimized /\ t.resizePending = r.screen.resizePending
        /\ t.content = r.screen.content /\ t.windowedContent = r.screen.windowedContent
        /\ t.hasFrame = r.screen.hasFrame /\ t.frameSize = r.screen.frameSize
        /\ t.orientation = o /\ t.frame = r.screen.frame /\ t.resume = r.screen.resume
        /\ t.paused = r.screen.paused
    BY <2>4 DEF Screens
  <2>6. e = [r EXCEPT !.screen = t]
    BY <2>2 DEF ContentResized, Contexts
  <2> HIDE DEF t, e
  <2>7. /\ e \in Contexts /\ e.screen = t /\ e.window = r.window /\ e.events = r.events
        /\ SameDisplay(r, e)
    BY <2>2, <2>5, <2>6 DEF ContentResized, Contexts, SameDisplay
  <2>8. Sized(t)
    BY <2>1, <2>2, <2>5 DEF Sized, ContentResized, SameState, new
  <2>9. Later(c.events, e.events)
    BY <1>1, <2>2, <2>7, SoundFacts, SameWindowLater DEF ContentResized
  <2>10. Fit(t, e.window, e.events, missed)
    <3>1. /\ t.fullscreen = e.window.fullscreen
          /\ t.maximized = c.screen.maximized /\ e.window.maximized = c.window.maximized
          /\ t.minimized = c.screen.minimized /\ e.window.minimized = c.window.minimized
          /\ Windowed(t) = Windowed(c.screen)
      BY <1>1, <2>2, <2>5, <2>7, SoundFacts DEF ContentResized, SameWindow, SameState, Windowed
    <3>2. t.resizePending /\ Windowed(t) => c.screen.resizePending /\ Windowed(c.screen)
      BY <2>2, <2>5, <3>1 DEF ContentResized
    <3>3. e.window.chosen \/ t.resizePending \/ IsOptimal(e.window.size, t.content)
      BY <2>2, <2>5, <2>7 DEF ContentResized
    <3>4. t.hasFrame
      BY <2>2, <2>5 DEF ContentResized, SameState
    <3> QED BY <1>1, <2>9, <3>1, <3>2, <3>3, <3>4, FitStays DEF Sound
  <2>11. Sound(e, missed)
    BY <2>7, <2>8, <2>10 DEF Sound
  <2>12. /\ Whole(d, missed) /\ SameState(e.screen, d.screen)
         /\ Loaded(e) /\ e.status = "run" /\ failing = "none" =>
              /\ Loaded(d) /\ d.status = "run" /\ d.display = e.display /\ Drawn(d)
    BY <2>3, <2>11, RenderStep
  <2>13. /\ d.screen.orientation = o /\ d.screen.hasFrame
         /\ d.screen.frame = c.screen.frame /\ d.screen.resume = c.screen.resume
         /\ d.screen.paused = c.screen.paused
    BY <2>2, <2>5, <2>7, <2>12 DEF ContentResized, SameState
  <2>14. e.display = c.display /\ e.status = c.status
    BY <2>2, <2>7 DEF ContentResized, SameDisplay
  <2>15. Painted(c) /\ c.status = "run" /\ failing = "none" => Painted(d) /\ d.status = "run"
    BY <2>12, <2>13, <2>14 DEF Painted, Loaded
  <2> QED BY <2>12, <2>13, <2>15 DEF d
<1> QED BY <1>2, <1>3

LEMMA ToggleFullscreenStep ==
  ASSUME NEW c, NEW missed, Sound(c, missed), NEW failing, c.screen.hasFrame
  PROVE  LET d == ToggleFullscreen(c, failing) IN
         /\ Sound(d, missed) /\ d.screen.hasFrame
         /\ Centered(c.screen, c.window, c.events) => Centered(d.screen, d.window, d.events)
         /\ d.screen.orientation = c.screen.orientation
         /\ d.screen.frame = c.screen.frame /\ d.screen.resume = c.screen.resume
         /\ d.screen.paused = c.screen.paused
         /\ Loaded(c) /\ c.status = "run" /\ failing = "none" =>
              /\ Loaded(d) /\ d.status = "run" /\ d.display = c.display /\ Drawn(d)
<1> DEFINE s == [c.screen EXCEPT !.fullscreen = ~@]
           w == [c.window EXCEPT !.fullscreen = ~@]
           q == Notice(c.events, "size")
           e == [c EXCEPT !.screen = s, !.window = w, !.events = q]
           f == IF Windowed(s) THEN ApplyPendingResize(e) ELSE e
           d == ToggleFullscreen(c, failing)
<1>1. /\ c \in Contexts /\ c.screen \in Screens /\ c.window \in Windows
      /\ c.events \in Seq(WindowEvents) /\ OneSize(c.events)
      /\ c.screen.content \in Sizes
      /\ c.screen.content = Oriented(c.screen.frameSize, c.screen.orientation)
      /\ c.screen.resizePending => c.screen.windowedContent \in Sizes
      /\ c.screen.fullscreen = c.window.fullscreen
  BY SoundFacts
<1>2. CASE failing = "fullscreen"
  BY <1>2 DEF ToggleFullscreen
<1>3. CASE failing # "fullscreen"
  <2>1. [c EXCEPT !.screen.fullscreen = ~@, !.window.fullscreen = ~@,
                  !.events = Notice(@, "size")] = e
    BY <1>1 DEF Contexts
  <2>2. d = Render(IF Windowed(e.screen) THEN ApplyPendingResize(e) ELSE e, failing)
    BY <1>3, <2>1 DEF ToggleFullscreen
  <2>3. /\ s \in Screens /\ s.fullscreen = ~c.screen.fullscreen
        /\ s.maximized = c.screen.maximized /\ s.minimized = c.screen.minimized
        /\ s.resizePending = c.screen.resizePending /\ s.content = c.screen.content
        /\ s.windowedContent = c.screen.windowedContent /\ s.hasFrame = c.screen.hasFrame
        /\ s.frameSize = c.screen.frameSize /\ s.orientation = c.screen.orientation
        /\ s.frame = c.screen.frame /\ s.resume = c.screen.resume /\ s.paused = c.screen.paused
    BY <1>1 DEF Screens
  <2>4. /\ w \in Windows /\ w.fullscreen = ~c.window.fullscreen
        /\ w.maximized = c.window.maximized /\ w.minimized = c.window.minimized
        /\ w.size = c.window.size /\ w.chosen = c.window.chosen
    BY <1>1 DEF Windows
  <2>5. Later(c.events, q) /\ q \in Seq(WindowEvents) /\ OneSize(q)
    BY <1>1, LaterNotice DEF Later
  <2> HIDE DEF s, w, q, d
  <2>6. /\ e \in Contexts /\ e.screen = s /\ e.window = w /\ e.events = q
        /\ SameDisplay(c, e)
    BY <1>1, <2>3, <2>4, <2>5 DEF Contexts, SameDisplay
  <2>7. d = Render(f, failing)
    BY <2>2, <2>6
  <2> HIDE DEF e
  <2>8. CASE Windowed(s)
    <3>1. /\ f \in Contexts /\ SameDisplay(e, f) /\ SameWindow(e, f)
          /\ SameState(s, f.screen) /\ f.screen.content = s.content
          /\ ~f.screen.resizePending
          /\ IF s.resizePending THEN f.window.chosen \/ IsOptimal(f.window.size, s.content)
             ELSE f.window = w
      BY <1>1, <2>3, <2>5, <2>6, <2>8, ApplyPendingResizeStep
    <3> HIDE DEF f
    <3>2. Later(c.events, f.events)
      BY <2>5, <2>6, <3>1, SameWindowLater, LaterLater
    <3>3. Sized(f.screen)
      BY <1>1, <2>3, <3>1 DEF Sized, SameState
    <3>4. f.window.chosen \/ IsOptimal(f.window.size, f.screen.content)
      BY <2>3, <2>4, <3>1 DEF Sound, Fit
    <3>5. Fit(f.screen, f.window, f.events, missed)
      <4>1. /\ f.screen.fullscreen = f.window.fullscreen
            /\ f.screen.maximized = c.screen.maximized /\ f.window.maximized = c.window.maximized
            /\ f.screen.minimized = c.screen.minimized /\ f.window.minimized = c.window.minimized
            /\ f.screen.hasFrame
        BY <1>1, <2>3, <2>4, <2>6, <3>1 DEF SameWindow, SameState
      <4> QED BY <3>1, <3>2, <3>4, <4>1, FitStays DEF Sound
    <3>6. Sound(f, missed)
      BY <3>1, <3>3, <3>5 DEF Sound
    <3>7. f.display = c.display /\ f.status = c.status
      BY <2>6, <3>1 DEF SameDisplay
    <3>8. /\ Whole(d, missed) /\ SameState(f.screen, d.screen)
          /\ Loaded(f) /\ f.status = "run" /\ failing = "none" =>
               /\ Loaded(d) /\ d.status = "run" /\ d.display = f.display /\ Drawn(d)
      BY <2>7, <3>6, RenderStep
    <3> QED BY <2>3, <3>1, <3>7, <3>8 DEF Whole, SameState, Loaded, d
  <2>9. CASE ~Windowed(s)
    <3>1. f = e
      BY <2>9
    <3>2. Sized(e.screen)
      BY <1>1, <2>3, <2>6 DEF Sized
    <3>3. Fit(e.screen, e.window, e.events, missed)
      <4>1. w.chosen \/ s.resizePending \/ IsOptimal(w.size, s.content)
        BY <2>3, <2>4 DEF Sound, Fit
      <4> QED BY <1>1, <2>3, <2>4, <2>5, <2>6, <2>9, <4>1, FitStays DEF Sound
    <3>4. Sound(e, missed)
      BY <2>6, <3>2, <3>3 DEF Sound
    <3>5. e.display = c.display /\ e.status = c.status
      BY <2>6 DEF SameDisplay
    <3>6. /\ Whole(d, missed) /\ SameState(e.screen, d.screen)
          /\ Loaded(e) /\ e.status = "run" /\ failing = "none" =>
               /\ Loaded(d) /\ d.status = "run" /\ d.display = e.display /\ Drawn(d)
      BY <2>7, <3>1, <3>4, RenderStep
    <3> QED BY <2>3, <2>6, <3>5, <3>6 DEF Whole, SameState, Loaded, d
  <2> QED BY <2>8, <2>9
<1> QED BY <1>2, <1>3

LEMMA ResizeToFitStep ==
  ASSUME NEW c, NEW missed, Whole(c, missed)
  PROVE  LET d == ResizeToFit(c) IN
         Whole(d, missed) /\ d.screen = c.screen /\ SameDisplay(c, d)
<1> DEFINE size == OptimalSize(WindowSize(c.window), c.screen.content, FALSE)
           d == ResizeToFit(c)
<1>1. Sound(c, missed)
  BY DEF Whole
<1>2. CASE ~Windowed(c.screen)
  BY <1>2 DEF ResizeToFit, SameDisplay
<1>3. CASE Windowed(c.screen)
  <2>1. c.window \in Windows /\ c.screen.content \in Sizes /\ c \in Contexts /\ OneSize(c.events)
        /\ c.events \in Seq(WindowEvents)
    BY <1>1, SoundFacts
  <2>2. WindowSize(c.window) \in Dims
    BY <2>1, DrawableSize DEF Sizes, Dims
  <2>3. size \in Dims /\ IsOptimal(size, c.screen.content)
    BY <2>1, <2>2, OptimalFits
  <2>4. d = SetWindowSize(c, size)
    BY <1>3 DEF ResizeToFit
  <2> HIDE DEF size, d
  <2>5. Resized(c, d) /\ (d.window.chosen \/ d.window.size = size)
    BY <2>1, <2>3, <2>4, SetWindowSizeStep
  <2>6. Later(c.events, d.events)
        /\ (Drawable(d.window) = Drawable(c.window) \/ Has(d.events, "size"))
    BY <2>1, <2>5, SameWindowLater DEF Resized
  <2>7. Fit(d.screen, d.window, d.events, missed)
    <3>1. /\ d.screen = c.screen /\ d.window.fullscreen = c.window.fullscreen
          /\ d.window.maximized = c.window.maximized /\ d.window.minimized = c.window.minimized
      BY <2>5 DEF Resized, SameWindow
    <3>2. d.window.chosen \/ IsOptimal(d.window.size, d.screen.content)
      BY <2>3, <2>5, <3>1
    <3>3. Fit(c.screen, c.window, c.events, missed)
      BY <1>1 DEF Sound
    <3>4. /\ c.screen.fullscreen = c.window.fullscreen
          /\ ~c.screen.hasFrame => Windowed(c.screen) /\ ~c.screen.resizePending /\ Windowed(c.window)
      BY <3>3 DEF Fit
    <3>5. Windowed(d.window) = Windowed(c.window)
      BY <3>1 DEF Windowed
    <3> QED BY <1>3, <2>6, <3>1, <3>2, <3>3, <3>4, <3>5, FitStays
  <2>8. Centered(d.screen, d.window, d.events)
    BY <2>5, <2>6 DEF Whole, Centered, Resized, Later
  <2> QED BY <1>1, <2>5, <2>7, <2>8 DEF Whole, Sound, Resized, d
<1> QED BY <1>2, <1>3

\* The screen leaves the maximized state before it is told, and the window with it.
LEMMA ResizeToPixelPerfectStep ==
  ASSUME NEW c, NEW missed, Whole(c, missed), c.screen.hasFrame, ~c.window.minimized
  PROVE  LET d == ResizeToPixelPerfect(c) IN
         /\ Whole(d, missed) /\ SameDisplay(c, d)
         /\ d.screen = [c.screen EXCEPT !.maximized = d.screen.maximized]
<1> DEFINE d == ResizeToPixelPerfect(c)
<1>1. Sound(c, missed) /\ Fit(c.screen, c.window, c.events, missed)
  BY DEF Whole, Sound
<1>2. /\ c \in Contexts /\ c.screen \in Screens /\ c.window \in Windows
      /\ c.events \in Seq(WindowEvents) /\ OneSize(c.events)
      /\ c.screen.content \in Sizes /\ c.screen.content \in Dims
  BY <1>1, SoundFacts DEF Sizes, Dims
<1>3. CASE c.screen.fullscreen \/ c.screen.minimized
  <2>1. d = c
    BY <1>3 DEF ResizeToPixelPerfect
  <2>2. c.screen = [c.screen EXCEPT !.maximized = c.screen.maximized]
    BY <1>2 DEF Screens
  <2> QED BY <2>1, <2>2 DEF SameDisplay
<1>4. CASE ~(c.screen.fullscreen \/ c.screen.minimized)
  <2> DEFINE q == IF c.window.maximized THEN Notice(Notice(c.events, "restored"), "size")
                  ELSE c.events
             s == [c.screen EXCEPT !.maximized = FALSE]
             w == [c.window EXCEPT !.maximized = FALSE]
             e == IF ~c.screen.maximized THEN c
                  ELSE [c EXCEPT !.screen = s, !.window = w, !.events = q]
  <2>1. d = SetWindowSize(e, c.screen.content)
    <3>1. [c EXCEPT !.screen.maximized = FALSE, !.window.maximized = FALSE,
                    !.events = IF c.window.maximized THEN Notice(Notice(@, "restored"), "size")
                               ELSE @]
            = [c EXCEPT !.screen = s, !.window = w, !.events = q]
      BY <1>2 DEF Contexts
    <3> QED BY <1>4, <3>1 DEF ResizeToPixelPerfect
  <2>2. /\ Sound(e, missed) /\ SameDisplay(c, e) /\ Centered(e.screen, e.window, e.events)
        /\ e.screen = [c.screen EXCEPT !.maximized = e.screen.maximized]
        /\ e.screen.content = c.screen.content /\ e.screen.hasFrame
    <3>1. CASE ~c.screen.maximized
      <4>1. c.screen = [c.screen EXCEPT !.maximized = c.screen.maximized]
        BY <1>2 DEF Screens
      <4> QED BY <1>1, <3>1, <4>1 DEF SameDisplay, Whole
    <3>2. CASE c.screen.maximized
      <4>1. /\ s \in Screens /\ s.fullscreen = c.screen.fullscreen /\ ~s.maximized
            /\ s.minimized = c.screen.minimized /\ s.resizePending = c.screen.resizePending
            /\ s.content = c.screen.content /\ s.windowedContent = c.screen.windowedContent
            /\ s.hasFrame = c.screen.hasFrame /\ s.frameSize = c.screen.frameSize
            /\ s.orientation = c.screen.orientation /\ s.rect = c.screen.rect
            /\ s = [c.screen EXCEPT !.maximized = s.maximized]
        BY <1>2 DEF Screens
      <4>2. /\ w \in Windows /\ w.fullscreen = c.window.fullscreen /\ ~w.maximized
            /\ ~w.minimized /\ w.size = c.window.size /\ w.chosen = c.window.chosen
        BY <1>2 DEF Windows
      <4> DEFINE r == Notice(c.events, "restored")
      <4>3. /\ r \in Seq(WindowEvents) /\ OneSize(r) /\ Has(r, "restored")
            /\ \A x : Has(c.events, x) => Has(r, x)
            /\ \A E, x : "restored" \in E => ~Lacks(r, E) /\ (LastIs(r, E, x) => x = "restored")
        BY <1>2, NoticeSays DEF WindowEvents
      <4>4. /\ q \in Seq(WindowEvents) /\ OneSize(q)
            /\ \A x : Has(c.events, x) => Has(q, x)
            /\ c.window.maximized => Later(r, q) /\ Has(q, "size")
        BY <1>2, <4>3, LaterNotice DEF Later
      <4> HIDE DEF r
      <4> DEFINE M == {"maximized", "restored"}
                 N == {"minimized", "restored"}
      <4>5. Follows(q, missed, s.maximized, w.maximized, "maximized")
        <5>1. CASE c.window.maximized
          <6>1. LastIs(q, M, "maximized") => LastIs(r, M, "maximized")
            BY <4>4, <5>1 DEF Later
          <6>2. ~LastIs(r, M, "maximized")
            BY <4>3
          <6> QED BY <4>1, <4>2, <6>1, <6>2 DEF Follows
        <5>2. CASE ~c.window.maximized
          BY <1>1, <4>1, <4>2, <5>2 DEF Fit, Follows
        <5> QED BY <5>1, <5>2
      <4>6. Follows(q, missed, s.minimized, w.minimized, "minimized")
        <5>1. CASE c.window.maximized
          <6>1. /\ LastIs(q, N, "minimized") => LastIs(r, N, "minimized")
                /\ Lacks(q, N) => Lacks(r, N)
            BY <4>4, <5>1 DEF Later
          <6>2. ~LastIs(r, N, "minimized") /\ ~Lacks(r, N)
            BY <4>3
          <6> QED BY <4>2, <6>1, <6>2 DEF Follows
        <5>2. CASE ~c.window.maximized
          BY <1>1, <4>1, <4>2, <5>2 DEF Fit, Follows
        <5> QED BY <5>1, <5>2
      <4>7. s.resizePending /\ Windowed(s) => Has(q, "restored") \/ missed
        <5>1. CASE c.window.maximized
          BY <4>3, <4>4, <5>1 DEF Later
        <5>2. CASE ~c.window.maximized /\ ~Has(q, "restored") /\ ~missed
          <6>1. q = c.events
            BY <5>2
          <6>2. ~Lacks(c.events, M)
            BY <1>1, <1>2, <3>2, <5>2 DEF Fit, Follows, Windows, Screens
          <6>3. PICK i \in 1 .. Len(c.events) : c.events[i] \in M
            BY <6>2 DEF Lacks
          <6>4. Len(c.events) \in Nat
            BY <1>2
          <6>5. PICK j \in 1 .. Len(c.events) : /\ c.events[j] \in M
                                                /\ \A k \in j + 1 .. Len(c.events) : c.events[k] \notin M
            BY <6>3, <6>4, LastExists
          <6>6. c.events[j] = "maximized"
            BY <5>2, <6>1, <6>5 DEF Has
          <6>7. LastIs(c.events, M, "maximized")
            BY <6>5, <6>6 DEF LastIs
          <6> QED BY <1>1, <5>2, <6>7 DEF Fit, Follows
        <5> QED BY <5>1, <5>2
      <4> HIDE DEF q, s, w
      <4>8. Fit(s, w, q, missed)
        BY <1>1, <4>1, <4>2, <4>4, <4>5, <4>6, <4>7 DEF Fit
      <4>9. e = [c EXCEPT !.screen = s, !.window = w, !.events = q]
        BY <3>2
      <4> HIDE DEF e
      <4>10. /\ e \in Contexts /\ e.screen = s /\ e.window = w /\ e.events = q
             /\ SameDisplay(c, e)
        BY <1>2, <4>1, <4>2, <4>4, <4>9 DEF Contexts, SameDisplay
      <4>11. Sized(s)
        BY <1>1, <4>1 DEF Sized, Sound
      <4>12. Centered(s, w, q)
        <5>1. CASE c.window.maximized
          BY <4>4, <5>1 DEF Centered
        <5>2. CASE ~c.window.maximized
          <6>1. Drawable(w) = Drawable(c.window)
            BY <4>2, <5>2 DEF Drawable, WindowSize
          <6> QED BY <4>1, <4>4, <6>1 DEF Centered, Whole
        <5> QED BY <5>1, <5>2
      <4> QED BY <4>1, <4>8, <4>10, <4>11, <4>12 DEF Sound
    <3> QED BY <3>1, <3>2
  <2> HIDE DEF e, d
  <2>3. e \in Contexts /\ OneSize(e.events) /\ e.events \in Seq(WindowEvents)
    BY <2>2, SoundFacts
  <2>4. Resized(e, d) /\ (d.window.chosen \/ d.window.size = c.screen.content)
    BY <1>2, <2>1, <2>3, SetWindowSizeStep
  <2>5. Later(e.events, d.events)
        /\ (Drawable(d.window) = Drawable(e.window) \/ Has(d.events, "size"))
    BY <2>3, <2>4, SameWindowLater DEF Resized
  <2>6. Fit(d.screen, d.window, d.events, missed)
    <3>1. /\ d.screen = e.screen /\ d.window.fullscreen = e.window.fullscreen
          /\ d.window.maximized = e.window.maximized /\ d.window.minimized = e.window.minimized
      BY <2>4 DEF Resized, SameWindow
    <3>2. d.window.chosen \/ IsOptimal(d.window.size, d.screen.content)
      BY <1>2, <2>2, <2>4, <3>1, ContentFits
    <3>3. Fit(e.screen, e.window, e.events, missed) /\ e.screen.fullscreen = e.window.fullscreen
      BY <2>2 DEF Sound, Fit
    <3> QED BY <2>2, <2>5, <3>1, <3>2, <3>3, FitStays
  <2>7. Centered(d.screen, d.window, d.events)
    BY <2>2, <2>4, <2>5 DEF Centered, Resized, Later
  <2> QED BY <2>2, <2>4, <2>6, <2>7 DEF Whole, Sound, Resized, SameDisplay, d
<1> QED BY <1>3, <1>4

-----------------------------------------------------------------------------
(* Frames.                                                                 *)

\* What Whole says does not depend on the display, on the frames or on the pause.
LEMMA WholeStays ==
  ASSUME NEW c, NEW missed, Whole(c, missed), NEW d \in Contexts,
         d.window = c.window, d.events = c.events,
         NEW s, s = c.screen, NEW t, t = d.screen,
         t.fullscreen = s.fullscreen /\ t.maximized = s.maximized /\ t.minimized = s.minimized,
         t.resizePending = s.resizePending /\ t.hasFrame = s.hasFrame /\ t.content = s.content,
         t.windowedContent = s.windowedContent /\ t.frameSize = s.frameSize,
         t.orientation = s.orientation /\ t.rect = s.rect
  PROVE  Whole(d, missed)
<1>1. Sized(d.screen)
  BY DEF Whole, Sound, Sized
<1>2. Fit(d.screen, d.window, d.events, missed)
  BY DEF Whole, Sound, Fit, Windowed
<1>3. Centered(d.screen, d.window, d.events)
  BY DEF Whole, Centered
<1> QED BY <1>1, <1>2, <1>3 DEF Whole, Sound

\* The frames, and the orientation they are shown with.
SameFrames(s, t) ==
  /\ t.orientation = s.orientation /\ t.frame = s.frame /\ t.resume = s.resume
  /\ t.paused = s.paused

LEMMA PrepareForFrameStep ==
  ASSUME NEW c, NEW missed, Whole(c, missed), NEW size \in Sizes, NEW failing
  PROVE  LET d == PrepareForFrame(c, size, failing) IN
         /\ Whole(d, missed) /\ SameFrames(c.screen, d.screen)
         /\ d.screen.hasFrame = c.screen.hasFrame
         /\ Loaded(c) /\ c.status = "run" /\ failing = "none" =>
              Loaded(d) /\ d.status = "run" /\ d.result = "ok"
<1> DEFINE d == PrepareForFrame(c, size, failing)
<1>1. Sound(c, missed) /\ c \in Contexts /\ c.screen \in Screens
  BY SoundFacts DEF Whole
<1>2. CASE size = c.screen.frameSize
  <2>1. d = [c EXCEPT !.result = "ok"]
    BY <1>2 DEF PrepareForFrame
  <2> HIDE DEF d
  <2>2. /\ d \in Contexts /\ d.screen = c.screen /\ d.window = c.window /\ d.events = c.events
        /\ d.display = c.display /\ d.status = c.status /\ d.result = "ok"
    BY <1>1, <2>1 DEF Contexts
  <2>3. Whole(d, missed)
    BY <2>2, WholeStays
  <2> QED BY <2>2, <2>3 DEF SameFrames, Loaded, d
<1>3. CASE size # c.screen.frameSize
  <2> DEFINE new == Oriented(size, c.screen.orientation)
             s == [c.screen EXCEPT !.frameSize = size]
             e == [c EXCEPT !.screen = s]
             r == SetContentSize(e, new)
             u == UpdateContentRect(r)
  <2>1. [c EXCEPT !.screen.frameSize = size] = e
    BY <1>1 DEF Contexts
  <2>2. d = SetTextureSize(u, size, failing)
    BY <1>3, <2>1 DEF PrepareForFrame
  <2>3. /\ s \in Screens /\ s.fullscreen = c.screen.fullscreen
        /\ s.maximized = c.screen.maximized /\ s.minimized = c.screen.minimized
        /\ s.resizePending = c.screen.resizePending /\ s.content = c.screen.content
        /\ s.windowedContent = c.screen.windowedContent /\ s.hasFrame = c.screen.hasFrame
        /\ s.frameSize = size /\ s.orientation = c.screen.orientation
        /\ s.frame = c.screen.frame /\ s.resume = c.screen.resume /\ s.paused = c.screen.paused
    BY <1>1 DEF Screens
  <2>4. new \in Sizes
    BY OrientedSize
  <2> HIDE DEF s, new
  <2>5. /\ e \in Contexts /\ e.screen = s /\ e.window = c.window /\ e.events = c.events
        /\ e.display = c.display /\ e.status = c.status
    BY <1>1, <2>3 DEF Contexts
  <2> HIDE DEF e
  <2>6. ContentResized(e, r, new)
    BY <1>1, <2>3, <2>4, <2>5, SoundFacts, SetContentSizeStep
  <2> HIDE DEF r
  <2>7. /\ u \in Contexts /\ SameDisplay(r, u) /\ u.window = r.window /\ u.events = r.events
        /\ SameState(r.screen, u.screen) /\ u.screen.content = r.screen.content
        /\ u.screen.resizePending = r.screen.resizePending
        /\ u.screen.windowedContent = r.screen.windowedContent
        /\ u.screen.rect = ContentRect(Drawable(r.window), r.screen.content)
    BY <2>4, <2>6, UpdateContentRectStep DEF ContentResized
  <2> HIDE DEF u
  <2>8. Later(c.events, u.events)
    <3>1. c.events \in Seq(WindowEvents) /\ OneSize(c.events)
      BY <1>1, SoundFacts
    <3>2. SameWindow(e, r)
      BY <2>6 DEF ContentResized
    <3> QED BY <2>5, <2>7, <3>1, <3>2, SameWindowLater
  <2>9. Fit(u.screen, u.window, u.events, missed)
    <3>1. /\ c.screen.fullscreen = c.window.fullscreen
          /\ Fit(c.screen, c.window, c.events, missed)
          /\ ~c.screen.hasFrame => /\ Windowed(c.screen) /\ ~c.screen.resizePending
                                   /\ Windowed(c.window)
      BY <1>1 DEF Sound, Fit
    <3>2. /\ u.screen.fullscreen = u.window.fullscreen
          /\ u.screen.maximized = c.screen.maximized /\ u.window.maximized = c.window.maximized
          /\ u.screen.minimized = c.screen.minimized /\ u.window.minimized = c.window.minimized
          /\ Windowed(u.screen) = Windowed(c.screen) /\ Windowed(u.window) = Windowed(c.window)
          /\ u.screen.hasFrame = c.screen.hasFrame /\ Windowed(e.screen) = Windowed(c.screen)
      BY <2>3, <2>5, <2>6, <2>7, <3>1 DEF ContentResized, SameWindow, SameState, Windowed
    <3>3. u.screen.resizePending => c.screen.resizePending \/ ~Windowed(c.screen)
      BY <2>3, <2>5, <2>6, <2>7, <3>2 DEF ContentResized
    <3>4. u.window.chosen \/ u.screen.resizePending \/ IsOptimal(u.window.size, u.screen.content)
      BY <2>6, <2>7 DEF ContentResized
    <3> QED BY <2>8, <3>1, <3>2, <3>3, <3>4, FitStays
  <2>10. Sized(u.screen)
    BY <2>3, <2>4, <2>5, <2>6, <2>7 DEF Sized, ContentResized, SameState, new
  <2>11. Whole(u, missed)
    BY <2>6, <2>7, <2>9, <2>10 DEF Whole, Sound, Centered, ContentResized
  <2>12. /\ d \in Contexts /\ SameScreen(u, d) /\ d.status = u.status
         /\ failing = "none" => /\ d.result = "ok" /\ d.display.flags = u.display.flags
                                /\ d.display.texture.size = size
    BY <2>2, <2>7, SetTextureSizeStep
  <2> HIDE DEF d
  <2>13. Whole(d, missed)
    BY <2>11, <2>12, WholeStays DEF SameScreen
  <2>14. SameFrames(c.screen, d.screen) /\ d.screen.hasFrame = c.screen.hasFrame
    BY <2>3, <2>5, <2>6, <2>7, <2>12 DEF SameFrames, SameState, SameScreen, ContentResized
  <2>15. u.display = c.display /\ u.status = c.status
    BY <2>5, <2>6, <2>7 DEF SameDisplay, ContentResized
  <2> QED BY <2>12, <2>13, <2>14, <2>15 DEF Loaded, d
<1> QED BY <1>2, <1>3

LEMMA ShowInitialWindowStep ==
  ASSUME NEW c, NEW missed, Whole(c, missed), NEW failing
  PROVE  LET d == ShowInitialWindow(c, failing) IN
         /\ Whole(d, missed) /\ SameFrames(c.screen, d.screen) /\ d.screen.hasFrame
         /\ Loaded(c) /\ c.status = "run" /\ failing = "none" =>
              Loaded(d) /\ d.status = "run" /\ d.display = c.display
<1> DEFINE req == c.screen.req
           size == InitialSize(c.screen.content, req)
           r == SetWindowSize(c, size)
           s == [c.screen EXCEPT !.hasFrame = TRUE]
           w == [r.window EXCEPT !.chosen = @ \/ (req.w # 0 /\ req.h # 0)]
           e == [r EXCEPT !.screen = s, !.window = w]
           f == IF req.fullscreen THEN ToggleFullscreen(e, failing) ELSE e
           d == ShowInitialWindow(c, failing)
<1>1. /\ Sound(c, missed) /\ Fit(c.screen, c.window, c.events, missed) /\ c \in Contexts
      /\ c.screen \in Screens /\ c.screen.content \in Sizes /\ req \in Requests
      /\ c.events \in Seq(WindowEvents) /\ OneSize(c.events)
  BY SoundFacts DEF Whole, Sound, Screens
<1>2. /\ size \in Dims
      /\ ~(req.w # 0 /\ req.h # 0) => IsOptimal(size, c.screen.content)
  BY <1>1, InitialFits
<1>3. Resized(c, r) /\ (r.window.chosen \/ r.window.size = size)
  BY <1>1, <1>2, SetWindowSizeStep
<1>4. [SetWindowSize(c, InitialSize(c.screen.content, req))
         EXCEPT !.screen.hasFrame = TRUE,
                !.window.chosen = @ \/ (req.w # 0 /\ req.h # 0)] = e
  BY <1>3 DEF Resized, Contexts
<1>5. d = UpdateContentRect(f)
  BY <1>4 DEF ShowInitialWindow
<1> HIDE DEF size, r, d
<1>6. /\ s \in Screens /\ s.hasFrame /\ s.fullscreen = c.screen.fullscreen
      /\ s.maximized = c.screen.maximized /\ s.minimized = c.screen.minimized
      /\ s.resizePending = c.screen.resizePending /\ s.content = c.screen.content
      /\ s.windowedContent = c.screen.windowedContent /\ s.frameSize = c.screen.frameSize
      /\ s.orientation = c.screen.orientation
      /\ s.frame = c.screen.frame /\ s.resume = c.screen.resume /\ s.paused = c.screen.paused
  BY <1>1 DEF Screens
<1>7. /\ w \in Windows /\ w.fullscreen = r.window.fullscreen
      /\ w.maximized = r.window.maximized /\ w.minimized = r.window.minimized
      /\ w.size = r.window.size /\ w.chosen = (r.window.chosen \/ (req.w # 0 /\ req.h # 0))
  <2>1. r.window \in Windows
    BY <1>3 DEF Resized, Contexts
  <2>2. r.window.chosen \in BOOLEAN
    BY <2>1 DEF Windows
  <2>3. (r.window.chosen \/ (req.w # 0 /\ req.h # 0)) \in BOOLEAN
    BY <2>2
  <2> QED BY <2>1, <2>2, <2>3 DEF Windows
<1> HIDE DEF s, w, req
<1>8. /\ e \in Contexts /\ e.screen = s /\ e.window = w /\ e.events = r.events
      /\ e.display = c.display /\ e.status = c.status
  BY <1>3, <1>6, <1>7 DEF Resized, SameDisplay, Contexts
<1> HIDE DEF e
<1>9. Later(c.events, e.events)
  BY <1>1, <1>3, <1>8, SameWindowLater DEF Resized
<1>10. Fit(e.screen, e.window, e.events, missed)
  <2>1. w.chosen \/ IsOptimal(w.size, s.content)
    BY <1>2, <1>3, <1>6, <1>7
  <2>2. /\ s.fullscreen = w.fullscreen /\ w.maximized = c.window.maximized
        /\ w.minimized = c.window.minimized
    BY <1>1, <1>3, <1>6, <1>7 DEF Fit, Resized, SameWindow
  <2>3. s.resizePending /\ Windowed(s) => c.screen.resizePending /\ Windowed(c.screen)
    BY <1>6 DEF Windowed
  <2> QED BY <1>1, <1>6, <1>8, <1>9, <2>1, <2>2, <2>3, FitStays
<1>11. Sized(e.screen)
  BY <1>1, <1>6, <1>8 DEF Sound, Sized
<1>12. Sound(e, missed)
  BY <1>8, <1>10, <1>11 DEF Sound
<1>13. /\ Sound(f, missed) /\ f.screen.hasFrame /\ SameFrames(c.screen, f.screen)
       /\ Loaded(c) /\ c.status = "run" /\ failing = "none" =>
            f.display = c.display /\ f.status = "run"
  <2>1. SameFrames(c.screen, e.screen)
    BY <1>6, <1>8 DEF SameFrames
  <2>2. CASE req.fullscreen
    <3>1. Loaded(c) => Loaded(e)
      BY <1>8 DEF Loaded
    <3> QED BY <1>6, <1>8, <1>12, <2>1, <2>2, <3>1, ToggleFullscreenStep DEF SameFrames
  <2>3. CASE ~req.fullscreen
    BY <1>6, <1>8, <1>12, <2>1, <2>3
  <2> QED BY <2>2, <2>3
<1> HIDE DEF f
<1>14. f \in Contexts /\ f.screen.content \in Sizes
  BY <1>13, SoundFacts
<1>15. /\ d \in Contexts /\ SameDisplay(f, d) /\ d.window = f.window /\ d.events = f.events
       /\ SameState(f.screen, d.screen) /\ d.screen.content = f.screen.content
       /\ d.screen.resizePending = f.screen.resizePending
       /\ d.screen.windowedContent = f.screen.windowedContent
       /\ d.screen.rect = ContentRect(Drawable(f.window), f.screen.content)
  BY <1>5, <1>14, UpdateContentRectStep
<1>16. Sized(d.screen) /\ Fit(d.screen, d.window, d.events, missed)
  BY <1>13, <1>15 DEF Sound, Sized, Fit, SameState, Windowed
<1>17. Whole(d, missed)
  BY <1>15, <1>16 DEF Whole, Sound, Centered
<1> QED BY <1>13, <1>15, <1>17 DEF SameFrames, SameState, SameDisplay, Loaded, d

\* A frame is applied: it is what is shown, if no library call failed.
LEMMA ApplyFrameStep ==
  ASSUME NEW c, NEW missed, Whole(c, missed), c.screen.frame \in Received, NEW failing
  PROVE  LET d == ApplyFrame(c, failing) IN
         /\ Whole(d, missed) /\ SameFrames(c.screen, d.screen)
         /\ Loaded(c) /\ c.status = "run" /\ failing = "none" => Painted(d) /\ d.status = "run"
<1> DEFINE frame == c.screen.frame
           prepared == PrepareForFrame(c, frame.size, failing)
           updated == UpdateTexture(prepared, frame, failing)
           ready == IF updated.screen.hasFrame THEN updated
                    ELSE ShowInitialWindow(updated, failing)
           presented == Present(ready, failing)
           d == ApplyFrame(c, failing)
<1>1. frame.size \in Sizes /\ frame \in Pictures
  BY DEF Received, Pictures, Sizes, Dims
<1>2. \/ d \in {prepared, updated, presented}
      \/ d = [updated EXCEPT !.status = "quit"]
  BY DEF ApplyFrame
<1>3. prepared.result = "ok" /\ updated.result = "ok" => d = presented
  BY DEF ApplyFrame
<1> HIDE DEF d
<1>4. /\ Whole(prepared, missed) /\ SameFrames(c.screen, prepared.screen)
      /\ Loaded(c) /\ c.status = "run" /\ failing = "none" =>
           Loaded(prepared) /\ prepared.status = "run" /\ prepared.result = "ok"
  BY <1>1, PrepareForFrameStep
<1> HIDE DEF prepared
<1>5. /\ updated \in Contexts /\ SameScreen(prepared, updated)
      /\ updated.status = prepared.status
      /\ failing = "none" /\ prepared.display.texture.size \in Sizes =>
           /\ updated.result = "ok" /\ updated.display.flags = prepared.display.flags
           /\ updated.display.texture.size = prepared.display.texture.size
           /\ updated.display.texture.frame = frame
  <2>1. prepared \in Contexts
    BY <1>4 DEF Whole, Sound
  <2> QED BY <1>1, <2>1, UpdateTextureStep
<1> HIDE DEF updated
<1>6. Whole(updated, missed) /\ SameFrames(c.screen, updated.screen)
  BY <1>4, <1>5, WholeStays DEF SameFrames, SameScreen
<1>7. /\ Whole(ready, missed) /\ SameFrames(c.screen, ready.screen) /\ ready.screen.hasFrame
      /\ Loaded(updated) /\ updated.status = "run" /\ failing = "none" =>
           Loaded(ready) /\ ready.status = "run" /\ ready.display = updated.display
  <2>1. CASE updated.screen.hasFrame
    BY <1>6, <2>1
  <2>2. CASE ~updated.screen.hasFrame
    BY <1>6, <2>2, ShowInitialWindowStep DEF SameFrames
  <2> QED BY <2>1, <2>2
<1> HIDE DEF ready
<1>8. /\ presented \in Contexts /\ SameScreen(ready, presented)
      /\ Loaded(ready) /\ ready.status = "run" /\ failing = "none" =>
           /\ Loaded(presented) /\ presented.status = "run"
           /\ presented.display = ready.display /\ Drawn(presented)
  <2>1. ready \in Contexts
    BY <1>7 DEF Whole, Sound
  <2> QED BY <2>1, PresentStep DEF SameScreen, Drawn
<1> HIDE DEF presented
<1>9. Whole(presented, missed) /\ SameFrames(c.screen, presented.screen)
  BY <1>7, <1>8, WholeStays DEF SameFrames, SameScreen
<1>10. Whole(d, missed) /\ SameFrames(c.screen, d.screen)
  <2>1. CASE d \in {prepared, updated, presented}
    BY <1>4, <1>6, <1>9, <2>1
  <2>2. CASE d = [updated EXCEPT !.status = "quit"]
    <3>1. d \in Contexts /\ SameScreen(updated, d)
      BY <1>5, <2>2 DEF Contexts, SameScreen
    <3> QED BY <1>6, <3>1, WholeStays DEF SameScreen
  <2> QED BY <1>2, <2>1, <2>2
<1>11. ASSUME Loaded(c), c.status = "run", failing = "none"
       PROVE  Painted(d) /\ d.status = "run"
  <2>1. Loaded(updated) /\ updated.status = "run" /\ updated.result = "ok"
        /\ prepared.result = "ok" /\ updated.display.texture.frame = frame
    BY <1>4, <1>5, <1>11 DEF Loaded
  <2>2. d = presented /\ Loaded(d) /\ d.status = "run" /\ Drawn(d)
        /\ d.display.texture.frame = frame
    BY <1>3, <1>7, <1>8, <1>11, <2>1
  <2> QED BY <1>10, <2>2 DEF Painted, SameFrames
<1> QED BY <1>10, <1>11 DEF d

\* A frame received during a pause is only kept.
LEMMA UpdateFrameStep ==
  ASSUME NEW c, NEW missed, Whole(c, missed), NEW frame \in Received, NEW failing
  PROVE  LET d == UpdateFrame(c, frame, failing) IN
         /\ Whole(d, missed) /\ d.screen.orientation = c.screen.orientation
         /\ \A n : Painted(c) /\ Timely(c.screen, n) /\ c.status = "run" /\ failing = "none" =>
              Painted(d) /\ Timely(d.screen, frame.n)
<1> DEFINE d == UpdateFrame(c, frame, failing)
<1>1. c \in Contexts /\ c.screen \in Screens
  BY DEF Whole, Sound, Contexts
<1>2. frame \in Pictures /\ frame # NoFrame
  BY DEF Received, Pictures, NoFrame, Sizes, Dims
<1>3. CASE c.screen.paused
  <2> DEFINE t == [c.screen EXCEPT !.resume = frame]
  <2>1. d = [c EXCEPT !.screen = t]
    BY <1>1, <1>3 DEF UpdateFrame, Contexts
  <2>2. t \in Screens /\ t.resume = frame /\ t = [c.screen EXCEPT !.resume = t.resume]
    BY <1>1 DEF Screens
  <2> HIDE DEF t, d
  <2>3. /\ d \in Contexts /\ d.screen = t /\ d.window = c.window /\ d.events = c.events
        /\ d.display = c.display /\ d.shown = c.shown
    BY <1>1, <2>1, <2>2 DEF Contexts
  <2>4. /\ t.fullscreen = c.screen.fullscreen /\ t.maximized = c.screen.maximized
        /\ t.minimized = c.screen.minimized /\ t.resizePending = c.screen.resizePending
        /\ t.hasFrame = c.screen.hasFrame /\ t.content = c.screen.content
        /\ t.windowedContent = c.screen.windowedContent /\ t.frameSize = c.screen.frameSize
        /\ t.orientation = c.screen.orientation /\ t.rect = c.screen.rect
        /\ t.frame = c.screen.frame /\ t.paused = c.screen.paused
    BY <1>1, <2>2 DEF Screens
  <2>5. Whole(d, missed)
    BY <2>3, <2>4, WholeStays
  <2>6. Painted(c) => Painted(d)
    BY <2>3, <2>4 DEF Painted, Loaded, Drawn
  <2>7. Timely(d.screen, frame.n)
    BY <1>2, <1>3, <2>2, <2>3, <2>4 DEF Timely, Latest
  <2> QED BY <2>3, <2>4, <2>5, <2>6, <2>7 DEF d
<1>4. CASE ~c.screen.paused
  <2> DEFINE t == [c.screen EXCEPT !.frame = frame]
             e == [c EXCEPT !.screen = t]
  <2>1. d = ApplyFrame(e, failing)
    <3>1. [c EXCEPT !.screen.frame = frame] = e
      BY <1>1 DEF Contexts
    <3> QED BY <1>4, <3>1 DEF UpdateFrame
  <2>2. t \in Screens /\ t.frame = frame /\ t = [c.screen EXCEPT !.frame = t.frame]
    BY <1>1, <1>2 DEF Screens
  <2> HIDE DEF t, d
  <2>3. /\ e \in Contexts /\ e.screen = t /\ e.window = c.window /\ e.events = c.events
        /\ e.display = c.display /\ e.status = c.status
    BY <1>1, <2>2 DEF Contexts
  <2>4. /\ t.fullscreen = c.screen.fullscreen /\ t.maximized = c.screen.maximized
        /\ t.minimized = c.screen.minimized /\ t.resizePending = c.screen.resizePending
        /\ t.hasFrame = c.screen.hasFrame /\ t.content = c.screen.content
        /\ t.windowedContent = c.screen.windowedContent /\ t.frameSize = c.screen.frameSize
        /\ t.orientation = c.screen.orientation /\ t.rect = c.screen.rect
        /\ t.resume = c.screen.resume /\ t.paused = c.screen.paused
    BY <1>1, <2>2 DEF Screens
  <2> HIDE DEF e
  <2>5. Whole(e, missed)
    BY <2>3, <2>4, WholeStays
  <2>6. /\ Whole(d, missed) /\ SameFrames(e.screen, d.screen)
        /\ Loaded(e) /\ e.status = "run" /\ failing = "none" => Painted(d) /\ d.status = "run"
    BY <2>1, <2>2, <2>3, <2>5, ApplyFrameStep
  <2>7. d.screen.orientation = c.screen.orientation
    BY <2>3, <2>4, <2>6 DEF SameFrames
  <2>8. ASSUME NEW n, Painted(c), Timely(c.screen, n), c.status = "run", failing = "none"
        PROVE  Painted(d) /\ Timely(d.screen, frame.n)
    <3>1. Painted(d)
      BY <2>3, <2>6, <2>8 DEF Painted, Loaded
    <3>2. d.screen.frame = frame /\ d.screen.resume = NoFrame
      BY <1>4, <2>2, <2>3, <2>4, <2>6, <2>8 DEF SameFrames, Timely
    <3> QED BY <3>1, <3>2 DEF Timely, Latest
  <2> QED BY <2>6, <2>7, <2>8 DEF d
<1> QED BY <1>3, <1>4

\* At the end of a pause, the frame kept is shown.
LEMMA SetPausedStep ==
  ASSUME NEW c, NEW missed, Whole(c, missed), NEW pause \in BOOLEAN, NEW failing
  PROVE  LET d == SetPaused(c, pause, failing) IN
         /\ Whole(d, missed) /\ d.screen.orientation = c.screen.orientation
         /\ \A n : Painted(c) /\ Timely(c.screen, n) /\ c.status = "run" /\ failing = "none" =>
              Painted(d) /\ Timely(d.screen, n)
<1> DEFINE resume == c.screen.resume
           shows == c.screen.paused /\ resume # NoFrame
           t == [c.screen EXCEPT !.frame = resume, !.resume = NoFrame]
           e == [c EXCEPT !.screen = t]
           a == ApplyFrame(e, failing)
           resumed == IF shows THEN [a EXCEPT !.status = IF @ = "quit" THEN "run" ELSE @] ELSE c
           d == SetPaused(c, pause, failing)
<1>1. c \in Contexts /\ c.screen \in Screens
  BY DEF Whole, Sound, Contexts
<1>2. [c EXCEPT !.screen.frame = resume, !.screen.resume = NoFrame] = e
  BY <1>1 DEF Contexts
<1>3. d = IF ~pause /\ ~c.screen.paused THEN c ELSE [resumed EXCEPT !.screen.paused = pause]
  BY <1>2 DEF SetPaused
<1> HIDE DEF d
<1>4. /\ Whole(resumed, missed) /\ resumed.screen.orientation = c.screen.orientation
      /\ \A n : Painted(c) /\ Timely(c.screen, n) /\ c.status = "run" /\ failing = "none" =>
           /\ Painted(resumed) /\ resumed.screen.resume = NoFrame /\ resumed.screen.frame.n = n
  <2>1. CASE ~shows
    <3>1. ASSUME NEW n, Timely(c.screen, n)
          PROVE  c.screen.resume = NoFrame /\ c.screen.frame.n = n
      BY <2>1, <3>1 DEF Timely, Latest
    <3> QED BY <2>1, <3>1
  <2>2. CASE shows
    <3>1. resume \in Received /\ resume \in Pictures
      BY <1>1, <2>2 DEF Screens, Received, Pictures, Sizes, Dims
    <3>2. t \in Screens /\ t.frame = resume /\ t.resume = NoFrame
          /\ t = [c.screen EXCEPT !.frame = t.frame, !.resume = t.resume]
      BY <1>1, <3>1 DEF Screens
    <3> HIDE DEF t
    <3>3. /\ e \in Contexts /\ e.screen = t /\ e.window = c.window /\ e.events = c.events
          /\ e.display = c.display /\ e.status = c.status
      BY <1>1, <3>2 DEF Contexts
    <3>4. /\ t.fullscreen = c.screen.fullscreen /\ t.maximized = c.screen.maximized
          /\ t.minimized = c.screen.minimized /\ t.resizePending = c.screen.resizePending
          /\ t.hasFrame = c.screen.hasFrame /\ t.content = c.screen.content
          /\ t.windowedContent = c.screen.windowedContent /\ t.frameSize = c.screen.frameSize
          /\ t.orientation = c.screen.orientation /\ t.rect = c.screen.rect
      BY <1>1, <3>2 DEF Screens
    <3> HIDE DEF e
    <3>5. Whole(e, missed)
      BY <3>3, <3>4, WholeStays
    <3>6. e.screen.frame \in Received
      BY <3>1, <3>2, <3>3
    <3>7. a = ApplyFrame(e, failing)
      OBVIOUS
    <3> HIDE DEF a
    <3>8. /\ Whole(a, missed) /\ SameFrames(e.screen, a.screen)
          /\ Loaded(e) /\ e.status = "run" /\ failing = "none" => Painted(a) /\ a.status = "run"
      BY <3>5, <3>6, <3>7, ApplyFrameStep
    <3>9. a \in Contexts
      BY <3>8 DEF Whole, Sound
    <3>10. /\ resumed \in Contexts /\ SameScreen(a, resumed)
          /\ resumed.display = a.display /\ resumed.shown = a.shown
      BY <2>2, <3>9 DEF Contexts, SameScreen
    <3> HIDE DEF resumed
    <3>11. Whole(resumed, missed)
      BY <3>8, <3>10, WholeStays DEF SameScreen
    <3>12. /\ resumed.screen.orientation = c.screen.orientation
           /\ resumed.screen.resume = NoFrame /\ resumed.screen.frame = resume
      BY <3>2, <3>3, <3>4, <3>8, <3>10 DEF SameFrames, SameScreen
    <3>13. ASSUME NEW n, Painted(c), Timely(c.screen, n), c.status = "run", failing = "none"
           PROVE  Painted(resumed) /\ resumed.screen.frame.n = n
      <4>1. Painted(a)
        BY <3>3, <3>8, <3>13 DEF Painted, Loaded
      <4>2. Painted(resumed)
        BY <3>10, <4>1 DEF Painted, Loaded, Drawn, SameScreen
      <4> QED BY <2>2, <3>12, <3>13, <4>2 DEF Timely, Latest
    <3> QED BY <3>11, <3>12, <3>13
  <2> QED BY <2>1, <2>2
<1> HIDE DEF resumed
<1>5. CASE ~pause /\ ~c.screen.paused
  BY <1>3, <1>5 DEF d
<1>6. CASE ~(~pause /\ ~c.screen.paused)
  <2>1. resumed \in Contexts /\ resumed.screen \in Screens
    BY <1>4 DEF Whole, Sound, Contexts
  <2> DEFINE s == [resumed.screen EXCEPT !.paused = pause]
  <2>2. /\ s \in Screens /\ s.fullscreen = resumed.screen.fullscreen
        /\ s.maximized = resumed.screen.maximized /\ s.minimized = resumed.screen.minimized
        /\ s.resizePending = resumed.screen.resizePending
        /\ s.hasFrame = resumed.screen.hasFrame /\ s.content = resumed.screen.content
        /\ s.windowedContent = resumed.screen.windowedContent
        /\ s.frameSize = resumed.screen.frameSize
        /\ s.orientation = resumed.screen.orientation /\ s.rect = resumed.screen.rect
        /\ s.frame = resumed.screen.frame /\ s.resume = resumed.screen.resume
    BY <2>1 DEF Screens
  <2>3. d = [resumed EXCEPT !.screen = s]
    BY <1>3, <1>6, <2>1 DEF Contexts
  <2> HIDE DEF s
  <2>4. /\ d \in Contexts /\ d.screen = s /\ d.window = resumed.window
        /\ d.events = resumed.events /\ d.display = resumed.display /\ d.shown = resumed.shown
    BY <2>1, <2>2, <2>3 DEF Contexts
  <2>5. Whole(d, missed)
    BY <1>4, <2>2, <2>4, WholeStays
  <2>6. Painted(resumed) => Painted(d)
    BY <2>2, <2>4 DEF Painted, Loaded, Drawn
  <2>7. ASSUME NEW n, Painted(c), Timely(c.screen, n), c.status = "run", failing = "none"
        PROVE  Painted(d) /\ Timely(d.screen, n)
    <3>1. Painted(resumed) /\ resumed.screen.resume = NoFrame /\ resumed.screen.frame.n = n
      BY <1>4, <2>7
    <3> QED BY <2>2, <2>4, <2>6, <3>1 DEF Timely, Latest
  <2> QED BY <1>4, <2>2, <2>4, <2>5, <2>7 DEF d
<1> QED BY <1>5, <1>6 DEF d

-----------------------------------------------------------------------------
(* Window events.                                                          *)

LEMMA FollowsStays ==
  ASSUME NEW q, NEW r, Later(q, r), NEW missed, NEW told, NEW actual,
         NEW up \in {"maximized", "minimized"}, Follows(q, missed, told, actual, up)
  PROVE  Follows(r, missed, told, actual, up)
<1>1. /\ \A e \in {up, "restored"} :
           LastIs(r, {up, "restored"}, e) => LastIs(q, {up, "restored"}, e)
      /\ Lacks(r, {up, "restored"}) <=> Lacks(q, {up, "restored"})
  BY DEF Later
<1> QED BY <1>1 DEF Follows

\* The screen handles an event: what it is told agrees with the ones that follow.
LEMMA FollowsHead ==
  ASSUME NEW q \in Seq(WindowEvents), q # <<>>, NEW missed, NEW told, NEW actual \in BOOLEAN,
         NEW up, Follows(q, missed, told, actual, up)
  PROVE  /\ Head(q) \notin {up, "restored"} => Follows(Tail(q), missed, told, actual, up)
         /\ Head(q) = up => Follows(Tail(q), missed, TRUE, actual, up)
         /\ Head(q) = "restored" => /\ Follows(Tail(q), FALSE, FALSE, actual, up)
                                    /\ Follows(Tail(q), TRUE, told, actual, up)
<1> DEFINE E == {up, "restored"}
<1>1. \A e : /\ LastIs(Tail(q), E, e) => LastIs(q, E, e)
             /\ Lacks(Tail(q), E) /\ Head(q) \notin E => Lacks(q, E)
             /\ Lacks(Tail(q), E) /\ Head(q) = e /\ e \in E => LastIs(q, E, e)
  <2> HIDE DEF E
  <2> QED BY TailSays
<1>2. CASE Head(q) \notin E
  BY <1>1, <1>2 DEF Follows
<1>3. CASE Head(q) = up
  BY <1>1, <1>3 DEF Follows
<1>4. CASE Head(q) = "restored"
  BY <1>1, <1>4 DEF Follows
<1> QED BY <1>2, <1>3, <1>4

LEMMA WindowEventStep ==
  ASSUME NEW c, NEW missed \in BOOLEAN, Whole(c, missed), c.events # <<>>, NEW failing
  PROVE  LET d == WindowEvent([c EXCEPT !.events = Tail(c.events)], Head(c.events), failing)
             now == IF Head(c.events) = "restored" THEN c.screen.fullscreen ELSE missed IN
         /\ Whole(d, now) /\ d.screen.orientation = c.screen.orientation
         /\ \A n : Painted(c) /\ Timely(c.screen, n) /\ c.status = "run" /\ failing = "none" =>
              Painted(d) /\ Timely(d.screen, n)
<1> DEFINE q == Tail(c.events)
           h == Head(c.events)
           b == [c EXCEPT !.events = q]
           d == WindowEvent(b, h, failing)
           s == c.screen
           now == IF h = "restored" THEN s.fullscreen ELSE missed
           M == {"maximized", "restored"}
           N == {"minimized", "restored"}
<1>1. /\ Sound(c, missed) /\ Fit(s, c.window, c.events, missed) /\ c \in Contexts
      /\ s \in Screens /\ c.window \in Windows /\ s.content \in Sizes
      /\ c.events \in Seq(WindowEvents) /\ OneSize(c.events)
      /\ s.resizePending => s.windowedContent \in Sizes
      /\ s.fullscreen = c.window.fullscreen
  BY SoundFacts DEF Whole, Sound
<1>2. h \in WindowEvents
  BY <1>1
<1>3. /\ q \in Seq(WindowEvents) /\ OneSize(q)
      /\ \A e : Has(c.events, e) /\ h # e => Has(q, e)
      /\ \A E : Lacks(c.events, E) => Lacks(q, E) /\ h \notin E
  <2> HIDE DEF q, h
  <2> QED BY <1>1, TailSays DEF q, h
<1>4. /\ h \notin M => Follows(q, missed, s.maximized, c.window.maximized, "maximized")
      /\ h = "maximized" => Follows(q, missed, TRUE, c.window.maximized, "maximized")
      /\ h = "restored" => /\ Follows(q, FALSE, FALSE, c.window.maximized, "maximized")
                           /\ Follows(q, TRUE, s.maximized, c.window.maximized, "maximized")
  BY <1>1, FollowsHead DEF Fit, Windows
<1>5. /\ h \notin N => Follows(q, missed, s.minimized, c.window.minimized, "minimized")
      /\ h = "minimized" => Follows(q, missed, TRUE, c.window.minimized, "minimized")
      /\ h = "restored" => /\ Follows(q, FALSE, FALSE, c.window.minimized, "minimized")
                           /\ Follows(q, TRUE, s.minimized, c.window.minimized, "minimized")
  BY <1>1, FollowsHead DEF Fit, Windows
<1> HIDE DEF q, h
<1>6. /\ b \in Contexts /\ b.screen = s /\ b.window = c.window /\ b.events = q
      /\ b.display = c.display /\ b.status = c.status /\ b.shown = c.shown
  BY <1>1, <1>3 DEF Contexts
<1>7. Sized(s)
  BY <1>1 DEF Sound
<1>8. Painted(c) => Painted(b)
  BY <1>6 DEF Painted, Loaded, Drawn
<1> HIDE DEF b, d
<1>9. CASE ~s.hasFrame
  <2>1. h = "size" /\ Lacks(q, {"maximized", "minimized", "restored"})
    BY <1>1, <1>2, <1>3, <1>9 DEF Fit, WindowEvents
  <2>2. d = b
    BY <1>6, <1>9 DEF WindowEvent, d
  <2>3. Fit(s, c.window, q, missed)
    BY <1>1, <1>3, <1>4, <1>5, <1>9, <2>1 DEF Fit
  <2>4. Whole(b, missed)
    BY <1>6, <1>7, <1>9, <2>3 DEF Whole, Sound, Centered
  <2> QED BY <1>6, <1>8, <2>1, <2>2, <2>4 DEF d, b, q, h
<1>10. CASE s.hasFrame /\ h = "size"
  <2>1. d = Render(b, failing)
    BY <1>6, <1>10 DEF WindowEvent, d
  <2>2. Fit(s, c.window, q, missed)
    BY <1>1, <1>3, <1>4, <1>5, <1>10 DEF Fit
  <2>3. Sound(b, missed)
    BY <1>6, <1>7, <2>2 DEF Sound
  <2>4. /\ Whole(d, missed) /\ SameState(s, d.screen)
        /\ Loaded(b) /\ b.status = "run" /\ failing = "none" =>
             Loaded(d) /\ d.display = b.display /\ Drawn(d)
    BY <1>6, <2>1, <2>3, RenderStep
  <2>5. \A n : Timely(s, n) => Timely(d.screen, n)
    BY <2>4 DEF Timely, Latest, SameState
  <2>6. Painted(c) /\ c.status = "run" /\ failing = "none" => Painted(d)
    BY <1>6, <1>10, <2>4 DEF Painted, Loaded, SameState
  <2> QED BY <1>10, <2>4, <2>5, <2>6 DEF d, b, q, h, SameState
<1>11. CASE s.hasFrame /\ (h = "maximized" \/ h = "minimized")
  <2> DEFINE t == IF h = "maximized" THEN [s EXCEPT !.maximized = TRUE]
                  ELSE [s EXCEPT !.minimized = TRUE]
  <2>1. d = [b EXCEPT !.screen = t]
    BY <1>6, <1>11 DEF WindowEvent, d, Contexts
  <2>2. /\ t \in Screens /\ t.fullscreen = s.fullscreen
        /\ h = "maximized" => t.maximized = TRUE /\ t.minimized = s.minimized
        /\ h = "minimized" => t.maximized = s.maximized /\ t.minimized = TRUE
        /\ t.resizePending = s.resizePending /\ t.hasFrame = s.hasFrame
        /\ t.content = s.content /\ t.windowedContent = s.windowedContent
        /\ t.frameSize = s.frameSize /\ t.orientation = s.orientation /\ t.rect = s.rect
        /\ t.frame = s.frame /\ t.resume = s.resume /\ t.paused = s.paused
    <3>1. CASE h = "maximized"
      BY <1>1, <3>1 DEF Screens
    <3>2. CASE h = "minimized"
      BY <1>1, <3>2 DEF Screens
    <3> QED BY <1>11, <3>1, <3>2
  <2> HIDE DEF t
  <2>3. /\ d \in Contexts /\ d.screen = t /\ d.window = c.window /\ d.events = q
        /\ d.display = c.display /\ d.shown = c.shown
    BY <1>6, <2>1, <2>2 DEF Contexts
  <2>4. ~Windowed(t)
    BY <1>11, <2>2 DEF Windowed
  <2>5. Follows(q, missed, t.maximized, c.window.maximized, "maximized")
    <3>1. CASE h = "maximized"
      BY <1>4, <2>2, <3>1, Zenon
    <3>2. CASE h = "minimized"
      <4>1. h \notin M
        BY <3>2
      <4> QED BY <1>4, <2>2, <3>2, <4>1, Zenon
    <3> QED BY <1>11, <3>1, <3>2
  <2>6. Follows(q, missed, t.minimized, c.window.minimized, "minimized")
    <3>1. CASE h = "minimized"
      BY <1>5, <2>2, <3>1, Zenon
    <3>2. CASE h = "maximized"
      <4>1. h \notin N
        BY <3>2
      <4> QED BY <1>5, <2>2, <3>2, <4>1, Zenon
    <3> QED BY <1>11, <3>1, <3>2
  <2>7. Fit(t, c.window, q, missed)
    BY <1>1, <1>3, <1>11, <2>2, <2>4, <2>5, <2>6 DEF Fit
  <2>8. Sized(t)
    BY <1>7, <2>2 DEF Sized
  <2>9. Centered(t, c.window, q)
    BY <1>3, <1>11, <2>2 DEF Whole, Centered
  <2>10. Whole(d, missed)
    BY <2>3, <2>7, <2>8, <2>9 DEF Whole, Sound
  <2>11. \A n : Timely(s, n) => Timely(d.screen, n)
    BY <2>2, <2>3 DEF Timely, Latest
  <2>12. Painted(c) => Painted(d)
    BY <2>2, <2>3 DEF Painted, Loaded, Drawn
  <2> QED BY <1>11, <2>2, <2>3, <2>10, <2>11, <2>12 DEF d, b, q, h
<1>12. CASE s.hasFrame /\ h = "restored" /\ s.fullscreen
  <2>1. d = b
    BY <1>6, <1>12 DEF WindowEvent, Restored, d
  <2>2. Fit(s, c.window, q, TRUE)
    BY <1>1, <1>3, <1>4, <1>5, <1>12 DEF Fit
  <2>3. Centered(s, c.window, q)
    BY <1>3, <1>12 DEF Whole, Centered
  <2>4. Whole(b, TRUE)
    BY <1>6, <1>7, <2>2, <2>3 DEF Whole, Sound
  <2> QED BY <1>6, <1>8, <1>12, <2>1, <2>4 DEF d, b, q, h
<1>13. CASE s.hasFrame /\ h = "restored" /\ ~s.fullscreen
  <2> DEFINE t == [s EXCEPT !.maximized = FALSE, !.minimized = FALSE]
             e == [b EXCEPT !.screen = t]
             a == ApplyPendingResize(e)
  <2>1. d = Render(a, failing)
    <3>1. [b EXCEPT !.screen.maximized = FALSE, !.screen.minimized = FALSE] = e
      BY <1>6 DEF Contexts
    <3> QED BY <1>6, <1>13, <3>1 DEF WindowEvent, Restored, d
  <2>2. /\ t \in Screens /\ ~t.fullscreen /\ ~t.maximized /\ ~t.minimized
        /\ t.resizePending = s.resizePending /\ t.hasFrame = s.hasFrame
        /\ t.content = s.content /\ t.windowedContent = s.windowedContent
        /\ t.frameSize = s.frameSize /\ t.orientation = s.orientation /\ t.rect = s.rect
        /\ t.frame = s.frame /\ t.resume = s.resume /\ t.paused = s.paused
    BY <1>1, <1>13 DEF Screens
  <2> HIDE DEF t
  <2>3. /\ e \in Contexts /\ e.screen = t /\ e.window = c.window /\ e.events = q
        /\ e.display = c.display /\ e.status = c.status /\ e.shown = c.shown
    BY <1>6, <2>2 DEF Contexts
  <2> HIDE DEF e
  <2>4. /\ a \in Contexts /\ SameDisplay(e, a) /\ SameWindow(e, a)
        /\ SameState(t, a.screen) /\ a.screen.content = t.content
        /\ ~a.screen.resizePending
        /\ IF t.resizePending THEN a.window.chosen \/ IsOptimal(a.window.size, t.content)
           ELSE a.window = c.window
    BY <1>1, <1>3, <2>2, <2>3, ApplyPendingResizeStep
  <2> HIDE DEF a
  <2>5. Later(q, a.events)
    BY <1>3, <2>3, <2>4, SameWindowLater
  <2>6. Sized(a.screen)
    BY <1>7, <2>2, <2>4 DEF Sized, SameState
  <2>7. Fit(a.screen, a.window, a.events, FALSE)
    <3>1. /\ a.screen.fullscreen = a.window.fullscreen /\ a.screen.hasFrame
          /\ a.screen.maximized = FALSE /\ a.window.maximized = c.window.maximized
          /\ a.screen.minimized = FALSE /\ a.window.minimized = c.window.minimized
      <4>1. a.screen \in Screens
        BY <2>4 DEF Contexts
      <4> QED BY <1>1, <1>13, <2>2, <2>3, <2>4, <4>1 DEF SameState, SameWindow, Screens
    <3>2. a.window.chosen \/ IsOptimal(a.window.size, a.screen.content)
      BY <1>1, <1>13, <2>2, <2>4 DEF Fit
    <3>3. /\ Follows(a.events, FALSE, a.screen.maximized, a.window.maximized, "maximized")
          /\ Follows(a.events, FALSE, a.screen.minimized, a.window.minimized, "minimized")
      <4>1. Follows(a.events, FALSE, FALSE, c.window.maximized, "maximized")
        BY <1>4, <1>13, <2>5, FollowsStays
      <4>2. Follows(a.events, FALSE, FALSE, c.window.minimized, "minimized")
        BY <1>5, <1>13, <2>5, FollowsStays
      <4> QED BY <3>1, <4>1, <4>2, Zenon
    <3> QED BY <2>4, <2>5, <3>1, <3>2, <3>3 DEF Fit, Later
  <2>8. Sound(a, FALSE)
    BY <2>4, <2>6, <2>7 DEF Sound
  <2>9. /\ Whole(d, FALSE) /\ SameState(a.screen, d.screen)
        /\ Loaded(a) /\ a.status = "run" /\ failing = "none" =>
             Loaded(d) /\ d.display = a.display /\ Drawn(d)
    BY <2>1, <2>8, RenderStep
  <2>10. \A n : Timely(s, n) => Timely(d.screen, n)
    BY <2>2, <2>4, <2>9 DEF Timely, Latest, SameState
  <2>11. Painted(c) /\ c.status = "run" /\ failing = "none" => Painted(d)
    BY <1>13, <2>2, <2>3, <2>4, <2>9 DEF Painted, Loaded, SameState, SameDisplay
  <2>12. d.screen.orientation = s.orientation /\ now = FALSE
    <3>1. s.fullscreen \in BOOLEAN
      BY <1>1 DEF Screens
    <3> QED BY <1>13, <2>2, <2>4, <2>9, <3>1 DEF SameState
  <2> QED BY <2>9, <2>10, <2>11, <2>12 DEF d, b, q, h
<1> QED BY <1>2, <1>9, <1>10, <1>11, <1>12, <1>13 DEF WindowEvents

-----------------------------------------------------------------------------
(* Orientations.                                                           *)

\* What each orientation makes of a direction.
LEMMA TurnedIs ==
  ASSUME NEW x \in Int, NEW y \in Int
  PROVE  /\ Turned(0, <<x, y>>) = <<x, y>>   /\ Turned(1, <<x, y>>) = <<-y, x>>
         /\ Turned(2, <<x, y>>) = <<-x, -y>> /\ Turned(3, <<x, y>>) = <<y, -x>>
         /\ Turned(4, <<x, y>>) = <<-x, y>>  /\ Turned(5, <<x, y>>) = <<-y, -x>>
         /\ Turned(6, <<x, y>>) = <<x, -y>>  /\ Turned(7, <<x, y>>) = <<y, x>>
<1>1. /\ Rotation(0) = 0 /\ Rotation(1) = 1 /\ Rotation(2) = 2 /\ Rotation(3) = 3
      /\ Rotation(4) = 0 /\ Rotation(5) = 1 /\ Rotation(6) = 2 /\ Rotation(7) = 3
  BY DEF Rotation
<1>2. ~Mirror(0) /\ ~Mirror(1) /\ ~Mirror(2) /\ ~Mirror(3)
  BY DEF Mirror
<1>3. Mirror(4) /\ Mirror(5) /\ Mirror(6) /\ Mirror(7)
  BY DEF Mirror
<1>4. Turned(0, <<x, y>>) = <<x, y>> /\ Turned(1, <<x, y>>) = <<-y, x>>
  BY <1>1, <1>2 DEF Turned
<1>5. Turned(2, <<x, y>>) = <<-x, -y>> /\ Turned(3, <<x, y>>) = <<y, -x>>
  BY <1>1, <1>2 DEF Turned
<1>6. Turned(4, <<x, y>>) = <<-x, y>> /\ Turned(5, <<x, y>>) = <<-y, -x>>
  BY <1>1, <1>3 DEF Turned
<1>7. Turned(6, <<x, y>>) = <<x, -y>> /\ Turned(7, <<x, y>>) = <<y, x>>
  BY <1>1, <1>3 DEF Turned
<1> QED BY <1>4, <1>5, <1>6, <1>7

\* The orientation composed by the code, for each shortcut.
LEMMA ApplyIs ==
  /\ OrientationApply(0, 1) = 1 /\ OrientationApply(1, 1) = 2
  /\ OrientationApply(2, 1) = 3 /\ OrientationApply(3, 1) = 0
  /\ OrientationApply(4, 1) = 5 /\ OrientationApply(5, 1) = 6
  /\ OrientationApply(6, 1) = 7 /\ OrientationApply(7, 1) = 4
  /\ OrientationApply(0, 3) = 3 /\ OrientationApply(1, 3) = 0
  /\ OrientationApply(2, 3) = 1 /\ OrientationApply(3, 3) = 2
  /\ OrientationApply(4, 3) = 7 /\ OrientationApply(5, 3) = 4
  /\ OrientationApply(6, 3) = 5 /\ OrientationApply(7, 3) = 6
  /\ OrientationApply(0, 4) = 4 /\ OrientationApply(1, 4) = 7
  /\ OrientationApply(2, 4) = 6 /\ OrientationApply(3, 4) = 5
  /\ OrientationApply(4, 4) = 0 /\ OrientationApply(5, 4) = 3
  /\ OrientationApply(6, 4) = 2 /\ OrientationApply(7, 4) = 1
  /\ OrientationApply(0, 6) = 6 /\ OrientationApply(1, 6) = 5
  /\ OrientationApply(2, 6) = 4 /\ OrientationApply(3, 6) = 7
  /\ OrientationApply(4, 6) = 2 /\ OrientationApply(5, 6) = 1
  /\ OrientationApply(6, 6) = 0 /\ OrientationApply(7, 6) = 3
BY DEF OrientationApply, Mirror, Rotation, Swap

\* To compose orientations is to turn a direction by one, then by the other.
LEMMA Composed ==
  ASSUME NEW o \in 0 .. 7, NEW t \in {1, 3, 4, 6}, NEW x \in Int, NEW y \in Int
  PROVE  Turned(t, Turned(o, <<x, y>>)) = Turned(OrientationApply(o, t), <<x, y>>)
<1>1. ASSUME NEW u \in Int, NEW v \in Int
      PROVE  /\ Turned(1, <<u, v>>) = <<-v, u>> /\ Turned(3, <<u, v>>) = <<v, -u>>
             /\ Turned(4, <<u, v>>) = <<-u, v>> /\ Turned(6, <<u, v>>) = <<u, -v>>
  BY TurnedIs
<1>2. -x \in Int /\ -y \in Int /\ -(-x) = x /\ -(-y) = y
  OBVIOUS
<1>3. /\ Turned(0, <<x, y>>) = <<x, y>>   /\ Turned(1, <<x, y>>) = <<-y, x>>
      /\ Turned(2, <<x, y>>) = <<-x, -y>> /\ Turned(3, <<x, y>>) = <<y, -x>>
      /\ Turned(4, <<x, y>>) = <<-x, y>>  /\ Turned(5, <<x, y>>) = <<-y, -x>>
      /\ Turned(6, <<x, y>>) = <<x, -y>>  /\ Turned(7, <<x, y>>) = <<y, x>>
  BY TurnedIs
<1>4. CASE t = 1
  <2>1. /\ Turned(1, <<x, y>>) = <<-y, x>> /\ Turned(1, <<-y, x>>) = <<-x, -y>>
        /\ Turned(1, <<-x, -y>>) = <<y, -x>> /\ Turned(1, <<y, -x>>) = <<x, y>>
        /\ Turned(1, <<-x, y>>) = <<-y, -x>> /\ Turned(1, <<-y, -x>>) = <<x, -y>>
        /\ Turned(1, <<x, -y>>) = <<y, x>> /\ Turned(1, <<y, x>>) = <<-x, y>>
    BY <1>1, <1>2
  <2>2. CASE o = 0
    BY <1>3, <1>4, <2>1, <2>2, ApplyIs, Zenon
  <2>3. CASE o = 1
    BY <1>3, <1>4, <2>1, <2>3, ApplyIs, Zenon
  <2>4. CASE o = 2
    BY <1>3, <1>4, <2>1, <2>4, ApplyIs, Zenon
  <2>5. CASE o = 3
    BY <1>3, <1>4, <2>1, <2>5, ApplyIs, Zenon
  <2>6. CASE o = 4
    BY <1>3, <1>4, <2>1, <2>6, ApplyIs, Zenon
  <2>7. CASE o = 5
    BY <1>3, <1>4, <2>1, <2>7, ApplyIs, Zenon
  <2>8. CASE o = 6
    BY <1>3, <1>4, <2>1, <2>8, ApplyIs, Zenon
  <2>9. CASE o = 7
    BY <1>3, <1>4, <2>1, <2>9, ApplyIs, Zenon
  <2> QED BY <2>2, <2>3, <2>4, <2>5, <2>6, <2>7, <2>8, <2>9
<1>5. CASE t = 3
  <2>1. /\ Turned(3, <<x, y>>) = <<y, -x>> /\ Turned(3, <<-y, x>>) = <<x, y>>
        /\ Turned(3, <<-x, -y>>) = <<-y, x>> /\ Turned(3, <<y, -x>>) = <<-x, -y>>
        /\ Turned(3, <<-x, y>>) = <<y, x>> /\ Turned(3, <<-y, -x>>) = <<-x, y>>
        /\ Turned(3, <<x, -y>>) = <<-y, -x>> /\ Turned(3, <<y, x>>) = <<x, -y>>
    BY <1>1, <1>2
  <2>2. CASE o = 0
    BY <1>3, <1>5, <2>1, <2>2, ApplyIs, Zenon
  <2>3. CASE o = 1
    BY <1>3, <1>5, <2>1, <2>3, ApplyIs, Zenon
  <2>4. CASE o = 2
    BY <1>3, <1>5, <2>1, <2>4, ApplyIs, Zenon
  <2>5. CASE o = 3
    BY <1>3, <1>5, <2>1, <2>5, ApplyIs, Zenon
  <2>6. CASE o = 4
    BY <1>3, <1>5, <2>1, <2>6, ApplyIs, Zenon
  <2>7. CASE o = 5
    BY <1>3, <1>5, <2>1, <2>7, ApplyIs, Zenon
  <2>8. CASE o = 6
    BY <1>3, <1>5, <2>1, <2>8, ApplyIs, Zenon
  <2>9. CASE o = 7
    BY <1>3, <1>5, <2>1, <2>9, ApplyIs, Zenon
  <2> QED BY <2>2, <2>3, <2>4, <2>5, <2>6, <2>7, <2>8, <2>9
<1>6. CASE t = 4
  <2>1. /\ Turned(4, <<x, y>>) = <<-x, y>> /\ Turned(4, <<-y, x>>) = <<y, x>>
        /\ Turned(4, <<-x, -y>>) = <<x, -y>> /\ Turned(4, <<y, -x>>) = <<-y, -x>>
        /\ Turned(4, <<-x, y>>) = <<x, y>> /\ Turned(4, <<-y, -x>>) = <<y, -x>>
        /\ Turned(4, <<x, -y>>) = <<-x, -y>> /\ Turned(4, <<y, x>>) = <<-y, x>>
    BY <1>1, <1>2
  <2>2. CASE o = 0
    BY <1>3, <1>6, <2>1, <2>2, ApplyIs, Zenon
  <2>3. CASE o = 1
    BY <1>3, <1>6, <2>1, <2>3, ApplyIs, Zenon
  <2>4. CASE o = 2
    BY <1>3, <1>6, <2>1, <2>4, ApplyIs, Zenon
  <2>5. CASE o = 3
    BY <1>3, <1>6, <2>1, <2>5, ApplyIs, Zenon
  <2>6. CASE o = 4
    BY <1>3, <1>6, <2>1, <2>6, ApplyIs, Zenon
  <2>7. CASE o = 5
    BY <1>3, <1>6, <2>1, <2>7, ApplyIs, Zenon
  <2>8. CASE o = 6
    BY <1>3, <1>6, <2>1, <2>8, ApplyIs, Zenon
  <2>9. CASE o = 7
    BY <1>3, <1>6, <2>1, <2>9, ApplyIs, Zenon
  <2> QED BY <2>2, <2>3, <2>4, <2>5, <2>6, <2>7, <2>8, <2>9
<1>7. CASE t = 6
  <2>1. /\ Turned(6, <<x, y>>) = <<x, -y>> /\ Turned(6, <<-y, x>>) = <<-y, -x>>
        /\ Turned(6, <<-x, -y>>) = <<-x, y>> /\ Turned(6, <<y, -x>>) = <<y, x>>
        /\ Turned(6, <<-x, y>>) = <<-x, -y>> /\ Turned(6, <<-y, -x>>) = <<-y, x>>
        /\ Turned(6, <<x, -y>>) = <<x, y>> /\ Turned(6, <<y, x>>) = <<y, -x>>
    BY <1>1, <1>2
  <2>2. CASE o = 0
    BY <1>3, <1>7, <2>1, <2>2, ApplyIs, Zenon
  <2>3. CASE o = 1
    BY <1>3, <1>7, <2>1, <2>3, ApplyIs, Zenon
  <2>4. CASE o = 2
    BY <1>3, <1>7, <2>1, <2>4, ApplyIs, Zenon
  <2>5. CASE o = 3
    BY <1>3, <1>7, <2>1, <2>5, ApplyIs, Zenon
  <2>6. CASE o = 4
    BY <1>3, <1>7, <2>1, <2>6, ApplyIs, Zenon
  <2>7. CASE o = 5
    BY <1>3, <1>7, <2>1, <2>7, ApplyIs, Zenon
  <2>8. CASE o = 6
    BY <1>3, <1>7, <2>1, <2>8, ApplyIs, Zenon
  <2>9. CASE o = 7
    BY <1>3, <1>7, <2>1, <2>9, ApplyIs, Zenon
  <2> QED BY <2>2, <2>3, <2>4, <2>5, <2>6, <2>7, <2>8, <2>9
<1> QED BY <1>4, <1>5, <1>6, <1>7

-----------------------------------------------------------------------------
(* The steps.                                                              *)

\* The size of the content is known, and nothing went wrong.
Live == ScreenInvariant /\ status = "run" /\ screen.content # Size(0, 0)

LEMMA CurrentFacts ==
  ASSUME ScreenInvariant
  PROVE  /\ Current \in Contexts /\ budget \in Budgets /\ ignored \in BOOLEAN
         /\ Current.screen = screen /\ Current.window = window /\ Current.display = display
         /\ Current.shown = shown /\ Current.events = events /\ Current.status = status
         /\ screen \in Screens /\ window \in Windows /\ events \in Seq(WindowEvents)
         /\ Frames \in Nat /\ Moves \in Nat /\ Faults \in Nat
         /\ budget.frames \in 0 .. Frames /\ budget.moves \in 0 .. Moves
         /\ budget.faults \in 0 .. Faults
         /\ budget = [frames |-> budget.frames, moves |-> budget.moves, faults |-> budget.faults]
<1>1. Current \in Contexts /\ budget \in Budgets /\ ignored \in BOOLEAN
  BY DEF ScreenInvariant, Typed
<1>2. /\ Current.screen = screen /\ Current.window = window /\ Current.display = display
      /\ Current.shown = shown /\ Current.events = events /\ Current.status = status
  BY DEF Current
<1>3. Current.screen \in Screens /\ Current.window \in Windows /\ Current.events \in Seq(WindowEvents)
  BY <1>1 DEF Contexts
<1>4. Frames \in Nat /\ Moves \in Nat /\ Faults \in Nat
  BY ScreenAssumption
<1>5. /\ budget.frames \in 0 .. Frames /\ budget.moves \in 0 .. Moves
      /\ budget.faults \in 0 .. Faults
      /\ budget = [frames |-> budget.frames, moves |-> budget.moves, faults |-> budget.faults]
  BY <1>1 DEF Budgets
<1> QED BY <1>1, <1>2, <1>3, <1>4, <1>5

LEMMA LiveFacts ==
  ASSUME Live
  PROVE  /\ Whole(Current, ignored)
         /\ budget.faults = Faults => Painted(Current) /\ Timely(screen, Frames - budget.frames)
<1>1. /\ Current \in Contexts /\ Current.screen = screen /\ Current.window = window
      /\ Current.events = events
  BY CurrentFacts DEF Live
<1>2. Sized(screen) /\ Fit(screen, window, events, ignored) /\ Centered(screen, window, events)
  BY DEF Live, ScreenInvariant
<1> QED BY <1>1, <1>2 DEF Live, ScreenInvariant, Whole, Sound

\* What a step has to show.
LEMMA StepKeeps ==
  ASSUME NEW d, Whole(d, ignored'), Do(d), ignored' \in BOOLEAN, budget' \in Budgets, Tracked',
         budget'.faults = Faults => Painted(d) /\ Timely(d.screen, Frames - budget'.frames)
  PROVE  ScreenInvariant'
<1> DEFINE e == [d EXCEPT !.result = "ok"]
<1>1. d \in Contexts /\ Sized(d.screen) /\ Fit(d.screen, d.window, d.events, ignored')
      /\ Centered(d.screen, d.window, d.events)
  BY DEF Whole, Sound
<1>2. /\ screen' = d.screen /\ window' = d.window /\ display' = d.display
      /\ shown' = d.shown /\ events' = d.events /\ status' = d.status
  BY DEF Do
<1>3. Current' = e
  BY <1>1, <1>2 DEF Current, Contexts
<1>4. e \in Contexts /\ e.screen = d.screen /\ e.display = d.display /\ e.shown = d.shown
  BY <1>1 DEF Contexts
<1> HIDE DEF e
<1>5. Typed'
  BY <1>3, <1>4 DEF Typed
<1>6. Sized(screen)' /\ Fit(screen, window, events, ignored)' /\ Centered(screen, window, events)'
  BY <1>1, <1>2 DEF Sized, Fit, Centered
<1>7. screen'.content # Size(0, 0)
  BY <1>1, <1>2 DEF Sized, Sizes, Size
<1>8. Painted(d) => Painted(Current)'
  BY <1>3, <1>4 DEF Painted, Loaded, Drawn
<1>9. Timely(d.screen, Frames - budget'.frames) => Timely(screen, Frames - budget.frames)'
  BY <1>2 DEF Timely, Latest
<1> QED BY <1>5, <1>6, <1>7, <1>8, <1>9 DEF ScreenInvariant

LEMMA SpentBudget ==
  ASSUME ScreenInvariant, NEW f, Failing(f),
         NEW frames \in {0, 1}, NEW moves \in {0, 1}, Spent(f, frames, moves),
         frames = 1 => budget.frames > 0, moves = 1 => budget.moves > 0
  PROVE  /\ budget' \in Budgets /\ budget'.frames = budget.frames - frames
         /\ budget'.faults = Faults => f = "none" /\ budget.faults = Faults
<1>1. /\ budget.frames \in 0 .. Frames /\ budget.moves \in 0 .. Moves
      /\ budget.faults \in 0 .. Faults /\ Frames \in Nat /\ Moves \in Nat /\ Faults \in Nat
      /\ budget = [frames |-> budget.frames, moves |-> budget.moves, faults |-> budget.faults]
  BY CurrentFacts
<1> DEFINE faults == IF f = "none" THEN budget.faults ELSE budget.faults - 1
<1>2. budget' = [frames |-> budget.frames - frames, moves |-> budget.moves - moves,
                 faults |-> faults]
  BY <1>1 DEF Spent
<1>3. f # "none" => budget.faults > 0
  BY DEF Failing
<1>4. /\ faults \in 0 .. Faults /\ budget.frames - frames \in 0 .. Frames
      /\ budget.moves - moves \in 0 .. Moves
      /\ faults = Faults => f = "none" /\ budget.faults = Faults
  BY <1>1, <1>3
<1> HIDE DEF faults
<1> QED BY <1>2, <1>4 DEF Budgets

\* The direction of the axes is kept by all but Rotate.
LEMMA TrackedStays ==
  ASSUME Tracked, view' = view, screen'.orientation = screen.orientation
  PROVE  Tracked'
BY DEF Tracked

LEMMA InitSizeKeeps ==
  ASSUME ScreenInvariant, InitSize
  PROVE  ScreenInvariant'
<1> DEFINE new == Oriented(screen.frameSize, screen.orientation)
           s == [screen EXCEPT !.content = new]
           e == [Current EXCEPT !.screen = s]
<1>1. PICK f \in {"none", "create"} :
        /\ Failing(f)
        /\ Do(SetTextureSize([Current EXCEPT !.screen.content =
                                Oriented(screen.frameSize, screen.orientation)],
                             screen.frameSize, f))
        /\ Spent(f, 0, 0)
  BY DEF InitSize
<1>2. Fresh /\ Fit(screen, window, events, ignored) /\ Tracked /\ status = "run"
  BY DEF ScreenInvariant, InitSize
<1>3. [Current EXCEPT !.screen.content = Oriented(screen.frameSize, screen.orientation)] = e
  BY CurrentFacts DEF Contexts
<1> DEFINE d == SetTextureSize(e, screen.frameSize, f)
<1>4. Do(d)
  BY <1>1, <1>3
<1>5. new \in Sizes /\ screen.frameSize \in Sizes
  BY CurrentFacts, OrientedSize DEF Screens
<1>6. /\ s \in Screens /\ s.fullscreen = screen.fullscreen /\ s.maximized = screen.maximized
      /\ s.minimized = screen.minimized /\ s.resizePending = screen.resizePending
      /\ s.hasFrame = screen.hasFrame /\ s.content = new /\ s.frameSize = screen.frameSize
      /\ s.orientation = screen.orientation /\ s.frame = screen.frame
      /\ s.resume = screen.resume /\ s.paused = screen.paused
  <2>1. screen \in Screens /\ new \in Dims
    BY <1>5, CurrentFacts DEF Sizes, Dims
  <2> QED BY <2>1 DEF Screens
<1>7. /\ e \in Contexts /\ e.screen = s /\ e.window = window /\ e.events = events
      /\ e.display = display /\ e.status = status
  BY <1>6, CurrentFacts DEF Contexts
<1> HIDE DEF e, s
<1>8. /\ d \in Contexts /\ SameScreen(e, d) /\ d.status = e.status
      /\ f = "none" => /\ d.display.flags = display.flags
                       /\ d.display.texture.size = screen.frameSize
  BY <1>5, <1>7, SetTextureSizeStep
<1> HIDE DEF d
<1>9. Sized(s)
  BY <1>2, <1>5, <1>6 DEF Sized, Fresh, new
<1>10. Fit(s, window, events, ignored)
  BY <1>2, <1>6 DEF Fit, Fresh, Windowed
<1>11. Whole(d, ignored)
  BY <1>2, <1>6, <1>7, <1>8, <1>9, <1>10 DEF Whole, Sound, SameScreen, Centered, Fresh
<1>12. /\ budget' \in Budgets /\ budget'.frames = budget.frames
       /\ budget'.faults = Faults => f = "none"
  <2>1. /\ budget' \in Budgets /\ budget'.frames = budget.frames - 0
        /\ budget'.faults = Faults => f = "none"
    BY <1>1, SpentBudget
  <2> QED BY <2>1, CurrentFacts
<1>13. ignored' = ignored /\ view' = view
  BY DEF InitSize
<1>14. Tracked'
  BY <1>2, <1>4, <1>6, <1>7, <1>8, <1>13, TrackedStays DEF Do, SameScreen
<1>15. ASSUME budget'.faults = Faults
       PROVE  Painted(d) /\ Timely(d.screen, Frames - budget'.frames)
  <2>1. Loaded(d) /\ ~d.screen.hasFrame
    BY <1>2, <1>5, <1>6, <1>7, <1>8, <1>12, <1>15 DEF Loaded, Fresh, SameScreen
  <2>2. Frames - budget'.frames = 0
    BY <1>2, <1>12, CurrentFacts DEF Fresh
  <2>3. Latest(d.screen).n = 0 /\ d.screen.resume = NoFrame
    BY <1>2, <1>6, <1>7, <1>8 DEF Latest, Fresh, NoFrame, SameScreen
  <2> QED BY <2>1, <2>2, <2>3 DEF Painted, Timely
<1>16. ignored' \in BOOLEAN
  BY <1>13, CurrentFacts
<1> QED BY <1>4, <1>11, <1>12, <1>13, <1>14, <1>15, <1>16, StepKeeps

LEMMA NewFrameKeeps ==
  ASSUME ScreenInvariant, NewFrame
  PROVE  ScreenInvariant'
<1> DEFINE n == Frames - budget.frames + 1
<1>1. Live /\ budget.frames > 0 /\ ignored' = ignored /\ view' = view
  BY DEF NewFrame, Live
<1>2. PICK size \in FrameSizes,
           f \in {"none", "create", "update", "alloc", "copy", "fullscreen"} :
        /\ Failing(f) /\ Do(UpdateFrame(Current, [n |-> n, size |-> size], f))
        /\ Spent(f, 1, 0)
  BY DEF NewFrame
<1> DEFINE frame == [n |-> n, size |-> size]
           d == UpdateFrame(Current, frame, f)
<1>3. /\ Frames \in Nat /\ budget.frames \in 0 .. Frames /\ ignored' \in BOOLEAN
      /\ Current.screen = screen /\ Current.status = status /\ screen \in Screens
  BY <1>1, CurrentFacts
<1>4. n \in Nat \ {0} /\ size \in Sizes
  BY <1>3, ScreenAssumption
<1>5. frame \in Received /\ frame.n = n
  BY <1>4 DEF Received
<1>6. Whole(Current, ignored)
      /\ (budget.faults = Faults => Painted(Current) /\ Timely(screen, Frames - budget.frames))
  BY <1>1, LiveFacts
<1>7. Do(d)
  BY <1>2
<1> HIDE DEF n, frame
<1>8. /\ Whole(d, ignored) /\ d.screen.orientation = screen.orientation
      /\ \A k : Painted(Current) /\ Timely(screen, k) /\ status = "run" /\ f = "none" =>
              Painted(d) /\ Timely(d.screen, n)
  BY <1>3, <1>5, <1>6, UpdateFrameStep
<1> HIDE DEF d
<1>9. /\ budget' \in Budgets /\ budget'.frames = budget.frames - 1
      /\ budget'.faults = Faults => f = "none" /\ budget.faults = Faults
  BY <1>1, <1>2, SpentBudget
<1>10. n = Frames - budget'.frames
  BY <1>3, <1>9 DEF n
<1>11. Tracked'
  BY <1>1, <1>7, <1>8, TrackedStays DEF Do, ScreenInvariant
<1> QED BY <1>1, <1>3, <1>6, <1>7, <1>8, <1>9, <1>10, <1>11, StepKeeps DEF Live

LEMMA HandleWindowEventKeeps ==
  ASSUME ScreenInvariant, HandleWindowEvent
  PROVE  ScreenInvariant'
<1>1. Live
  BY DEF HandleWindowEvent, Live, ScreenInvariant, Fresh
<1>2. PICK f \in {"none", "create", "update", "copy"} :
        /\ Failing(f) /\ Spent(f, 0, 0)
        /\ Do(WindowEvent([Current EXCEPT !.events = Tail(events)], Head(events), f))
  BY DEF HandleWindowEvent
<1> DEFINE d == WindowEvent([Current EXCEPT !.events = Tail(Current.events)],
                            Head(Current.events), f)
<1>3. /\ ignored \in BOOLEAN /\ Current.screen = screen /\ Current.status = status
      /\ Current.events = events /\ screen \in Screens /\ Frames \in Nat
      /\ budget.frames \in 0 .. Frames
  BY CurrentFacts
<1>4. Do(d) /\ events # <<>> /\ view' = view /\ status = "run"
      /\ ignored' = IF Head(events) = "restored" THEN screen.fullscreen ELSE ignored
  BY <1>2, <1>3 DEF HandleWindowEvent
<1>5. ignored' \in BOOLEAN
  BY <1>3, <1>4 DEF Screens
<1>6. Whole(Current, ignored)
      /\ (budget.faults = Faults => Painted(Current) /\ Timely(screen, Frames - budget.frames))
  BY <1>1, LiveFacts
<1>7. /\ Whole(d, ignored') /\ d.screen.orientation = screen.orientation
      /\ \A n : Painted(Current) /\ Timely(screen, n) /\ status = "run" /\ f = "none" =>
              Painted(d) /\ Timely(d.screen, n)
  BY <1>3, <1>4, <1>6, WindowEventStep
<1> HIDE DEF d
<1>8. /\ budget' \in Budgets /\ budget'.frames = budget.frames
      /\ budget'.faults = Faults => f = "none" /\ budget.faults = Faults
  <2>1. /\ budget' \in Budgets /\ budget'.frames = budget.frames - 0
        /\ budget'.faults = Faults => f = "none" /\ budget.faults = Faults
    BY <1>2, SpentBudget
  <2> QED BY <1>3, <2>1
<1>9. Tracked'
  BY <1>4, <1>7, TrackedStays DEF Do, ScreenInvariant
<1> QED BY <1>4, <1>5, <1>6, <1>7, <1>8, <1>9, StepKeeps

LEMMA RotateKeeps ==
  ASSUME ScreenInvariant, Rotate
  PROVE  ScreenInvariant'
<1>1. Live /\ screen.hasFrame
  BY DEF Rotate, Visible, Live, ScreenInvariant, Fresh
<1>2. PICK transform \in {1, 3, 4, 6}, f \in {"none", "create", "update", "copy"} :
        /\ Failing(f)
        /\ Do(SetOrientation(Current, OrientationApply(screen.orientation, transform), f))
        /\ view' = <<Turned(transform, view[1]), Turned(transform, view[2])>>
        /\ Spent(f, 0, 1)
  BY DEF Rotate
<1> DEFINE old == screen.orientation
           o == OrientationApply(old, transform)
           d == SetOrientation(Current, o, f)
<1>3. /\ Do(d) /\ budget.moves > 0 /\ ignored' = ignored /\ status = "run"
      /\ view' = <<Turned(transform, view[1]), Turned(transform, view[2])>>
  BY <1>2 DEF Rotate, Visible
<1>4. /\ ignored \in BOOLEAN /\ Current.screen = screen /\ Current.status = status
      /\ old \in 0 .. 7 /\ Frames \in Nat /\ budget.frames \in 0 .. Frames
  BY CurrentFacts DEF Screens
<1>5. o \in 0 .. 7
  BY <1>4 DEF OrientationApply, Rotation
<1> HIDE DEF o
<1>6. Whole(Current, ignored)
      /\ (budget.faults = Faults => Painted(Current) /\ Timely(screen, Frames - budget.frames))
  BY <1>1, LiveFacts
<1>7. /\ Whole(d, ignored) /\ d.screen.orientation = o
      /\ d.screen.frame = screen.frame /\ d.screen.resume = screen.resume
      /\ d.screen.paused = screen.paused
      /\ Painted(Current) /\ status = "run" /\ f = "none" => Painted(d)
  BY <1>1, <1>4, <1>5, <1>6, SetOrientationStep
<1> HIDE DEF d
<1>8. /\ budget' \in Budgets /\ budget'.frames = budget.frames
      /\ budget'.faults = Faults => f = "none" /\ budget.faults = Faults
  <2>1. /\ budget' \in Budgets /\ budget'.frames = budget.frames - 0
        /\ budget'.faults = Faults => f = "none" /\ budget.faults = Faults
    BY <1>2, <1>3, SpentBudget
  <2> QED BY <1>4, <2>1
<1>9. Tracked'
  <2>1. view = <<Turned(old, <<1, 0>>), Turned(old, <<0, 1>>)>>
    BY DEF ScreenInvariant, Tracked
  <2>2. view[1] = Turned(old, <<1, 0>>) /\ view[2] = Turned(old, <<0, 1>>)
    BY <2>1
  <2>3. /\ Turned(transform, Turned(old, <<1, 0>>)) = Turned(o, <<1, 0>>)
        /\ Turned(transform, Turned(old, <<0, 1>>)) = Turned(o, <<0, 1>>)
    <3>1. 0 \in Int /\ 1 \in Int
      OBVIOUS
    <3> QED BY <1>4, <3>1, Composed DEF o
  <2>4. view' = <<Turned(o, <<1, 0>>), Turned(o, <<0, 1>>)>>
    BY <1>3, <2>2, <2>3, Zenon
  <2>5. screen'.orientation = o
    BY <1>3, <1>7 DEF Do
  <2> QED BY <2>4, <2>5, Zenon DEF Tracked
<1>10. \A n : Timely(screen, n) => Timely(d.screen, n)
  BY <1>7 DEF Timely, Latest
<1> QED BY <1>3, <1>4, <1>6, <1>7, <1>8, <1>9, <1>10, StepKeeps

LEMMA ShortcutKeeps ==
  ASSUME ScreenInvariant, Shortcut
  PROVE  ScreenInvariant'
<1>1. Live /\ screen.hasFrame /\ ~window.minimized /\ status = "run" /\ budget.moves > 0
      /\ view' = view /\ ignored' = ignored
  BY DEF Shortcut, Visible, Live, ScreenInvariant, Fresh
<1>2. /\ ignored \in BOOLEAN /\ Current.screen = screen /\ Current.status = status
      /\ Current.window = window /\ Current.display = display /\ Current.shown = shown
      /\ Current \in Contexts
      /\ screen \in Screens /\ Frames \in Nat /\ budget.frames \in 0 .. Frames
  BY CurrentFacts
<1>3. Whole(Current, ignored)
      /\ (budget.faults = Faults => Painted(Current) /\ Timely(screen, Frames - budget.frames))
  BY <1>1, LiveFacts
<1> DEFINE n == Frames - budget.frames
<1>4. ASSUME NEW f, Failing(f), Spent(f, 0, 1), NEW d, Do(d), Whole(d, ignored),
             d.screen.orientation = screen.orientation,
             Painted(Current) /\ Timely(screen, n) /\ f = "none" =>
               Painted(d) /\ Timely(d.screen, n)
      PROVE  ScreenInvariant'
  <2>1. /\ budget' \in Budgets /\ budget'.frames = budget.frames
        /\ budget'.faults = Faults => f = "none" /\ budget.faults = Faults
    <3>1. /\ budget' \in Budgets /\ budget'.frames = budget.frames - 0
          /\ budget'.faults = Faults => f = "none" /\ budget.faults = Faults
      BY <1>1, <1>4, SpentBudget
    <3> QED BY <1>2, <3>1
  <2>2. Tracked'
    BY <1>1, <1>4, TrackedStays DEF Do, ScreenInvariant
  <2> QED BY <1>1, <1>2, <1>3, <1>4, <2>1, <2>2, StepKeeps
<1> HIDE DEF n
<1>5. CASE \E f \in {"none", "create", "update", "copy", "fullscreen"} :
             Failing(f) /\ Do(ToggleFullscreen(Current, f)) /\ Spent(f, 0, 1)
  <2>1. PICK f : Failing(f) /\ Do(ToggleFullscreen(Current, f)) /\ Spent(f, 0, 1)
    BY <1>5
  <2> DEFINE d == ToggleFullscreen(Current, f)
  <2>2. Do(d)
    BY <2>1
  <2>3. /\ Sound(d, ignored) /\ d.screen.hasFrame
        /\ Centered(Current.screen, Current.window, Current.events) =>
             Centered(d.screen, d.window, d.events)
        /\ d.screen.orientation = screen.orientation
        /\ d.screen.frame = screen.frame /\ d.screen.resume = screen.resume
        /\ d.screen.paused = screen.paused
        /\ Loaded(Current) /\ status = "run" /\ f = "none" =>
             Loaded(d) /\ d.display = display /\ Drawn(d)
    BY <1>1, <1>2, <1>3, ToggleFullscreenStep DEF Whole
  <2> HIDE DEF d
  <2>4. Whole(d, ignored)
    BY <1>3, <2>3 DEF Whole
  <2>5. Painted(Current) /\ Timely(screen, n) /\ f = "none" => Painted(d) /\ Timely(d.screen, n)
    BY <1>1, <1>2, <2>3 DEF Painted, Timely, Latest
  <2> QED BY <1>4, <2>1, <2>2, <2>3, <2>4, <2>5
<1>6. CASE \E pause \in BOOLEAN, f \in {"none", "create", "update", "alloc", "copy"} :
             Failing(f) /\ Do(SetPaused(Current, pause, f)) /\ Spent(f, 0, 1)
  <2>1. PICK pause \in BOOLEAN, f \in {"none", "create", "update", "alloc", "copy"} :
          Failing(f) /\ Do(SetPaused(Current, pause, f)) /\ Spent(f, 0, 1)
    BY <1>6
  <2> DEFINE d == SetPaused(Current, pause, f)
  <2>2. Do(d)
    BY <2>1
  <2>3. /\ Whole(d, ignored) /\ d.screen.orientation = screen.orientation
        /\ \A k : Painted(Current) /\ Timely(screen, k) /\ status = "run" /\ f = "none" =>
             Painted(d) /\ Timely(d.screen, k)
    BY <1>2, <1>3, SetPausedStep
  <2> HIDE DEF d
  <2> QED BY <1>1, <1>4, <2>1, <2>2, <2>3
<1>7. CASE (Do(ResizeToFit(Current)) \/ Do(ResizeToPixelPerfect(Current))) /\ Spent("none", 0, 1)
  <2>1. Failing("none")
    BY DEF Failing
  <2>2. CASE Do(ResizeToFit(Current))
    <3> DEFINE d == ResizeToFit(Current)
    <3>1. Do(d)
      BY <2>2
    <3>2. Whole(d, ignored) /\ d.screen = screen /\ SameDisplay(Current, d)
      BY <1>2, <1>3, ResizeToFitStep
    <3> HIDE DEF d
    <3>3. Painted(Current) => Painted(d)
      BY <1>2, <3>2 DEF Painted, Loaded, Drawn, SameDisplay
    <3> QED BY <1>4, <1>7, <2>1, <3>1, <3>2, <3>3
  <2>3. CASE Do(ResizeToPixelPerfect(Current))
    <3> DEFINE d == ResizeToPixelPerfect(Current)
    <3>1. Do(d)
      BY <2>3
    <3>2. /\ Whole(d, ignored) /\ SameDisplay(Current, d)
          /\ d.screen = [screen EXCEPT !.maximized = d.screen.maximized]
      BY <1>1, <1>2, <1>3, ResizeToPixelPerfectStep
    <3> HIDE DEF d
    <3>3. /\ d.screen.orientation = screen.orientation /\ d.screen.hasFrame = screen.hasFrame
          /\ d.screen.frame = screen.frame /\ d.screen.resume = screen.resume
          /\ d.screen.paused = screen.paused /\ d.screen.rect = screen.rect
      BY <1>2, <3>2 DEF Screens
    <3>4. Painted(Current) => Painted(d)
      BY <1>2, <3>2, <3>3 DEF Painted, Loaded, Drawn, SameDisplay
    <3>5. Timely(screen, n) => Timely(d.screen, n)
      BY <3>3 DEF Timely, Latest
    <3> QED BY <1>4, <1>7, <2>1, <3>1, <3>2, <3>3, <3>4, <3>5
  <2> QED BY <1>7, <2>2, <2>3
<1> QED BY <1>5, <1>6, <1>7 DEF Shortcut

-----------------------------------------------------------------------------
(* The window manager.                                                     *)

\* The window manager changes the window, and says so last.
LEMMA FollowsPushed ==
  ASSUME NEW q \in Seq(WindowEvents), OneSize(q), NEW e \in WindowEvents,
         NEW missed, NEW told, NEW actual, NEW up \in {"maximized", "minimized"}
  PROVE  /\ e \notin {up, "restored"} /\ Follows(q, missed, told, actual, up) =>
              Follows(Notice(q, e), missed, told, actual, up)
         /\ e = up /\ actual => Follows(Notice(q, e), missed, told, actual, up)
         /\ e = "restored" /\ ~actual => Follows(Notice(q, e), missed, told, actual, up)
<1> DEFINE E == {up, "restored"}
           r == Notice(q, e)
<1>1. /\ \A x : "size" \notin E /\ e \notin E =>
              /\ x \in E /\ LastIs(r, E, x) => LastIs(q, E, x)
              /\ Lacks(r, E) <=> Lacks(q, E)
      /\ \A x : e \in E => ~Lacks(r, E) /\ (LastIs(r, E, x) => x = e)
  <2> HIDE DEF E
  <2> QED BY NoticeSays
<1> HIDE DEF r
<1>2. "size" \notin E /\ up # "restored" /\ up \in E /\ "restored" \in E
  OBVIOUS
<1>3. CASE e \notin E /\ Follows(q, missed, told, actual, up)
  BY <1>1, <1>2, <1>3 DEF Follows, r
<1>4. CASE e = up /\ actual
  BY <1>1, <1>2, <1>4 DEF Follows, r
<1>5. CASE e = "restored" /\ ~actual
  BY <1>1, <1>2, <1>5 DEF Follows, r
<1> QED BY <1>3, <1>4, <1>5 DEF E

LEMMA ManageKeeps ==
  ASSUME Live, screen.hasFrame, budget.moves > 0, NEW w \in Windows, NEW e, Manage(w, e),
         Spent("none", 0, 1), UNCHANGED <<screen, display, shown, status, view, ignored>>,
         w.fullscreen = window.fullscreen,
         w.chosen \/ (w.size = window.size /\ w.chosen = window.chosen),
         e \in Seq(WindowEvents), OneSize(e), \A x : Has(events, x) => Has(e, x),
         Follows(e, ignored, screen.maximized, w.maximized, "maximized"),
         Follows(e, ignored, screen.minimized, w.minimized, "minimized")
  PROVE  ScreenInvariant'
<1> DEFINE q == IF Drawable(w) # Drawable(window) THEN Notice(e, "size") ELSE e
           d == [Current EXCEPT !.window = w, !.events = q]
<1>1. /\ Current \in Contexts /\ ignored \in BOOLEAN /\ Current.screen = screen
      /\ Current.display = display /\ Current.shown = shown /\ Current.status = status
      /\ Frames \in Nat /\ budget.frames \in 0 .. Frames
  BY CurrentFacts DEF Live
<1>2. Whole(Current, ignored)
      /\ (budget.faults = Faults => Painted(Current) /\ Timely(screen, Frames - budget.frames))
  BY LiveFacts
<1>3. Later(e, q) /\ (Drawable(w) = Drawable(window) \/ Has(q, "size"))
  BY LaterSame, LaterNotice
<1> HIDE DEF q
<1>4. /\ d \in Contexts /\ d.screen = screen /\ d.window = w /\ d.events = q
      /\ d.display = display /\ d.shown = shown /\ d.status = status
  BY <1>1, <1>3 DEF Contexts, Later
<1> HIDE DEF d
<1>5. Sized(screen) /\ Fit(screen, window, events, ignored) /\ Centered(screen, window, events)
  BY DEF Live, ScreenInvariant
<1>6. Fit(screen, w, q, ignored)
  <2>1. /\ Follows(q, ignored, screen.maximized, w.maximized, "maximized")
        /\ Follows(q, ignored, screen.minimized, w.minimized, "minimized")
    BY <1>3, FollowsStays
  <2>2. OneSize(q) /\ \A x : Has(events, x) => Has(q, x)
    BY <1>3 DEF Later
  <2> QED BY <1>5, <2>1, <2>2 DEF Fit
<1>7. Centered(screen, w, q)
  BY <1>3, <1>5 DEF Centered, Later
<1>8. Whole(d, ignored')
  BY <1>4, <1>5, <1>6, <1>7 DEF Whole, Sound
<1>9. Do(d)
  BY <1>4 DEF Do, Manage, q
<1>10. /\ budget' \in Budgets /\ budget'.frames = budget.frames
       /\ budget'.faults = Faults => budget.faults = Faults
  <2>1. Failing("none")
    BY DEF Failing
  <2>2. /\ budget' \in Budgets /\ budget'.frames = budget.frames - 0
        /\ budget'.faults = Faults => budget.faults = Faults
    BY <2>1, SpentBudget DEF Live
  <2> QED BY <1>1, <2>2
<1>11. Tracked'
  BY TrackedStays DEF Live, ScreenInvariant
<1>12. Painted(Current) => Painted(d)
  BY <1>1, <1>4 DEF Painted, Loaded, Drawn
<1> QED BY <1>1, <1>2, <1>4, <1>8, <1>9, <1>10, <1>11, <1>12, StepKeeps

LEMMA ManagerKeeps ==
  ASSUME ScreenInvariant, Manager
  PROVE  ScreenInvariant'
<1>1. /\ Live /\ screen.hasFrame /\ budget.moves > 0 /\ Spent("none", 0, 1)
      /\ UNCHANGED <<screen, display, shown, status, view, ignored>>
  BY DEF Manager, Live, ScreenInvariant, Fresh
<1>2. /\ window \in Windows /\ events \in Seq(WindowEvents) /\ OneSize(events)
      /\ Follows(events, ignored, screen.maximized, window.maximized, "maximized")
      /\ Follows(events, ignored, screen.minimized, window.minimized, "minimized")
  BY CurrentFacts DEF ScreenInvariant, Fit
<1>3. {"maximized", "minimized", "restored"} \subseteq WindowEvents
  BY DEF WindowEvents
<1>4. ASSUME NEW e \in {"maximized", "minimized", "restored"}
      PROVE  /\ Notice(events, e) \in Seq(WindowEvents) /\ OneSize(Notice(events, e))
             /\ \A x : Has(events, x) => Has(Notice(events, e), x)
  BY <1>2, <1>3, NoticeSays
<1>5. CASE /\ ~window.minimized /\ ~window.maximized /\ ~window.fullscreen
           /\ Manage([window EXCEPT !.maximized = TRUE], Notice(events, "maximized"))
  <2> DEFINE w == [window EXCEPT !.maximized = TRUE]
             e == Notice(events, "maximized")
  <2>1. /\ w \in Windows /\ w.fullscreen = window.fullscreen /\ w.size = window.size
        /\ w.chosen = window.chosen /\ w.maximized /\ w.minimized = window.minimized
    BY <1>2 DEF Windows
  <2>2. /\ Follows(e, ignored, screen.maximized, w.maximized, "maximized")
        /\ Follows(e, ignored, screen.minimized, window.minimized, "minimized")
    BY <1>2, <1>3, <2>1, FollowsPushed
  <2>3. Manage(w, e)
    BY <1>5
  <2> HIDE DEF w, e
  <2>4. Follows(e, ignored, screen.minimized, w.minimized, "minimized")
    BY <2>1, <2>2, Zenon
  <2>5. e \in Seq(WindowEvents) /\ OneSize(e) /\ \A x : Has(events, x) => Has(e, x)
    BY <1>4 DEF e
  <2> QED BY <1>1, <2>1, <2>2, <2>3, <2>4, <2>5, ManageKeeps
<1>6. CASE \E size \in UserSizes :
             Manage([window EXCEPT !.size = size, !.chosen = TRUE], events)
  <2>1. PICK size \in UserSizes : Manage([window EXCEPT !.size = size, !.chosen = TRUE], events)
    BY <1>6
  <2> DEFINE w == [window EXCEPT !.size = size, !.chosen = TRUE]
  <2>2. /\ w \in Windows /\ w.fullscreen = window.fullscreen /\ w.chosen
        /\ w.maximized = window.maximized /\ w.minimized = window.minimized
    BY <1>2, ScreenAssumption DEF Windows
  <2>3. Manage(w, events)
    BY <2>1
  <2> HIDE DEF w
  <2>4. /\ Follows(events, ignored, screen.maximized, w.maximized, "maximized")
        /\ Follows(events, ignored, screen.minimized, w.minimized, "minimized")
    BY <1>2, <2>2, Zenon
  <2> QED BY <1>1, <1>2, <2>2, <2>3, <2>4, ManageKeeps
<1>7. CASE /\ ~window.minimized
           /\ Manage([window EXCEPT !.minimized = TRUE], Notice(events, "minimized"))
  <2> DEFINE w == [window EXCEPT !.minimized = TRUE]
             e == Notice(events, "minimized")
  <2>1. /\ w \in Windows /\ w.fullscreen = window.fullscreen /\ w.size = window.size
        /\ w.chosen = window.chosen /\ w.minimized /\ w.maximized = window.maximized
    BY <1>2 DEF Windows
  <2>2. /\ Follows(e, ignored, screen.maximized, window.maximized, "maximized")
        /\ Follows(e, ignored, screen.minimized, w.minimized, "minimized")
    BY <1>2, <1>3, <2>1, FollowsPushed
  <2>3. Manage(w, e)
    BY <1>7
  <2> HIDE DEF w, e
  <2>4. Follows(e, ignored, screen.maximized, w.maximized, "maximized")
    BY <2>1, <2>2, Zenon
  <2>5. e \in Seq(WindowEvents) /\ OneSize(e) /\ \A x : Has(events, x) => Has(e, x)
    BY <1>4 DEF e
  <2> QED BY <1>1, <2>1, <2>2, <2>3, <2>4, <2>5, ManageKeeps
<1>8. CASE /\ window.minimized
           /\ Manage([window EXCEPT !.minimized = FALSE],
                     IF window.maximized THEN Notice(Notice(events, "restored"), "maximized")
                     ELSE Notice(events, "restored"))
  <2> DEFINE w == [window EXCEPT !.minimized = FALSE]
             r == Notice(events, "restored")
             e == IF window.maximized THEN Notice(r, "maximized") ELSE r
  <2>1. /\ w \in Windows /\ w.fullscreen = window.fullscreen /\ w.size = window.size
        /\ w.chosen = window.chosen /\ ~w.minimized /\ w.maximized = window.maximized
    BY <1>2 DEF Windows
  <2>2. r \in Seq(WindowEvents) /\ OneSize(r) /\ \A x : Has(events, x) => Has(r, x)
    BY <1>4
  <2>3. Follows(r, ignored, screen.minimized, w.minimized, "minimized")
    BY <1>2, <1>3, <2>1, FollowsPushed
  <2>4. ~window.maximized => Follows(r, ignored, screen.maximized, window.maximized, "maximized")
    BY <1>2, <1>3, FollowsPushed
  <2>5. Manage(w, e)
    BY <1>8
  <2> HIDE DEF w, r
  <2>6. /\ window.maximized =>
             Follows(Notice(r, "maximized"), ignored, screen.maximized, window.maximized, "maximized")
        /\ Follows(Notice(r, "maximized"), ignored, screen.minimized, w.minimized, "minimized")
    BY <1>3, <2>2, <2>3, FollowsPushed
  <2>7. e \in Seq(WindowEvents) /\ OneSize(e) /\ \A x : Has(events, x) => Has(e, x)
    BY <1>3, <2>2, NoticeSays
  <2>8. Follows(e, ignored, screen.maximized, window.maximized, "maximized")
        /\ Follows(e, ignored, screen.minimized, w.minimized, "minimized")
    BY <2>3, <2>4, <2>6
  <2> HIDE DEF e
  <2>9. Follows(e, ignored, screen.maximized, w.maximized, "maximized")
    BY <2>1, <2>8, Zenon
  <2> QED BY <1>1, <2>1, <2>5, <2>7, <2>8, <2>9, ManageKeeps
<1>9. CASE /\ ~window.minimized
           /\ Manage([window EXCEPT !.maximized = FALSE], Notice(events, "restored"))
  <2> DEFINE w == [window EXCEPT !.maximized = FALSE]
             e == Notice(events, "restored")
  <2>1. /\ w \in Windows /\ w.fullscreen = window.fullscreen /\ w.size = window.size
        /\ w.chosen = window.chosen /\ ~w.maximized /\ w.minimized = window.minimized
    BY <1>2 DEF Windows
  <2>2. /\ Follows(e, ignored, screen.maximized, w.maximized, "maximized")
        /\ Follows(e, ignored, screen.minimized, window.minimized, "minimized")
    BY <1>2, <1>3, <1>9, <2>1, FollowsPushed
  <2>3. Manage(w, e)
    BY <1>9
  <2> HIDE DEF w, e
  <2>4. Follows(e, ignored, screen.minimized, w.minimized, "minimized")
    BY <2>1, <2>2, Zenon
  <2>5. e \in Seq(WindowEvents) /\ OneSize(e) /\ \A x : Has(events, x) => Has(e, x)
    BY <1>4 DEF e
  <2> QED BY <1>1, <2>1, <2>2, <2>3, <2>4, <2>5, ManageKeeps
<1> QED BY <1>5, <1>6, <1>7, <1>8, <1>9 DEF Manager

LEMMA InitHolds ==
  ASSUME ScreenInit
  PROVE  ScreenInvariant
<1>1. PICK size \in FrameSizes, o \in Orientations, req \in Requests :
        /\ screen = [fullscreen |-> FALSE, maximized |-> FALSE, minimized |-> FALSE,
                     resizePending |-> FALSE, hasFrame |-> FALSE, paused |-> FALSE,
                     req |-> req, orientation |-> o,
                     frameSize |-> size, content |-> Size(0, 0),
                     windowedContent |-> Size(0, 0), frame |-> NoFrame, resume |-> NoFrame,
                     rect |-> [x |-> 0, y |-> 0, w |-> 0, h |-> 0]]
        /\ view = <<Turned(o, <<1, 0>>), Turned(o, <<0, 1>>)>>
  BY DEF ScreenInit
<1>2. /\ window = [fullscreen |-> FALSE, maximized |-> FALSE, minimized |-> FALSE,
                   size |-> Size(256, 256), chosen |-> FALSE]
      /\ display = [texture |-> NoTexture, pendingSize |-> Size(0, 0), pendingFrame |-> NoFrame,
                    flags |-> {}]
      /\ shown = [frame |-> NoFrame, orientation |-> 0, rect |-> screen.rect]
      /\ events = <<>> /\ status = "run" /\ ignored = FALSE
      /\ budget = [frames |-> Frames, moves |-> Moves, faults |-> Faults]
  BY DEF ScreenInit
<1>3. /\ Size(0, 0) \in Dims /\ Size(256, 256) \in Sizes
      /\ [x |-> 0, y |-> 0, w |-> 0, h |-> 0] \in Rects
  BY DEF Size, Dims, Sizes, Rects
<1>4. size \in Sizes /\ o \in 0 .. 7
  BY ScreenAssumption
<1>5. screen \in Screens
  BY <1>1, <1>3, <1>4, NoTextureType DEF Screens
<1>6. window \in Windows
  BY <1>2, <1>3 DEF Windows
<1>7. display \in Displays
  BY <1>2, <1>3, NoTextureType DEF Displays
<1>8. shown \in Shows
  BY <1>1, <1>2, <1>3, NoTextureType DEF Shows
<1>9. budget \in Budgets
  BY <1>2, ScreenAssumption DEF Budgets
<1>10. events \in Seq(WindowEvents) /\ \A e : ~Has(events, e)
  BY <1>2 DEF Has
<1>11. Typed
  BY <1>2, <1>5, <1>6, <1>7, <1>8, <1>9, <1>10 DEF Typed, Current, Contexts
<1>12. \A E : Lacks(events, E) /\ \A e : ~LastIs(events, E, e)
  BY <1>2 DEF Lacks, LastIs
<1>13. /\ ~screen.fullscreen /\ screen.maximized = FALSE /\ screen.minimized = FALSE
       /\ ~screen.resizePending /\ ~screen.hasFrame /\ ~screen.paused
       /\ screen.content = Size(0, 0) /\ screen.frame = NoFrame /\ screen.resume = NoFrame
       /\ screen.orientation = o
  BY <1>1
<1>14. /\ ~window.fullscreen /\ window.maximized = FALSE /\ window.minimized = FALSE
  BY <1>2
<1>15. Fit(screen, window, events, ignored)
  <2>1. Windowed(screen) /\ Windowed(window) /\ screen.fullscreen = window.fullscreen
    BY <1>1, <1>2 DEF Windowed
  <2>2. screen.maximized = window.maximized /\ screen.minimized = window.minimized
    BY <1>13, <1>14, Zenon
  <2>3. OneSize(events)
    BY <1>2 DEF OneSize
  <2> QED BY <1>12, <1>13, <2>1, <2>2, <2>3 DEF Fit, Follows
<1>16. Fresh
  BY <1>2, <1>13, <1>14 DEF Fresh, Windowed
<1>17. Centered(screen, window, events) /\ Tracked
  BY <1>1, <1>13 DEF Centered, Tracked
<1> QED BY <1>11, <1>13, <1>15, <1>16, <1>17 DEF ScreenInvariant

\* The inductive invariant: what the events still to handle say of the window
\* agrees with what the screen will have been told.
THEOREM ScreenInvariance == ScreenSpec => []ScreenInvariant
<1>1. ScreenInit => ScreenInvariant
  BY InitHolds
<1>2. ScreenInvariant /\ [ScreenNext]_screenVars => ScreenInvariant'
  <2> SUFFICES ASSUME ScreenInvariant, [ScreenNext]_screenVars
               PROVE  ScreenInvariant'
    OBVIOUS
  <2>1. CASE InitSize
    BY <2>1, InitSizeKeeps
  <2>2. CASE NewFrame
    BY <2>2, NewFrameKeeps
  <2>3. CASE HandleWindowEvent
    BY <2>3, HandleWindowEventKeeps
  <2>4. CASE Rotate
    BY <2>4, RotateKeeps
  <2>5. CASE Shortcut
    BY <2>5, ShortcutKeeps
  <2>6. CASE Manager
    BY <2>6, ManagerKeeps
  <2>7. CASE UNCHANGED screenVars
    BY <2>7 DEF screenVars, ScreenInvariant, Typed, Current, Fresh, Sized, Fit, Centered, Tracked,
                Painted, Loaded, Drawn, Timely, Latest
  <2> QED BY <2>1, <2>2, <2>3, <2>4, <2>5, <2>6, <2>7 DEF ScreenNext
<1> QED BY <1>1, <1>2, PTL DEF ScreenSpec

LEMMA EmptySays ==
  ASSUME NEW q, q = <<>>
  PROVE  (\A e : ~Has(q, e)) /\ (\A E : Lacks(q, E))
BY DEF Has, Lacks

\* Once its events are handled, and unless one was ignored in full screen, the
\* screen knows the state of the window; a window the program sized for the
\* content has no black borders, and no resize is forgotten: whatever the sizes,
\* the number of moves of the user and of library calls that fail.
THEOREM WindowFitsContent == ScreenSpec => []WindowFits
<1>1. ScreenInvariant => WindowFits
  <2> SUFFICES ASSUME ScreenInvariant, events = <<>>, screen.hasFrame, ~ignored
               PROVE  /\ screen.fullscreen = window.fullscreen
                      /\ screen.minimized = window.minimized
                      /\ screen.maximized = window.maximized
                      /\ Windowed(screen) =>
                           ~screen.resizePending
                           /\ (window.chosen \/ IsOptimal(window.size, screen.content))
    BY DEF WindowFits
  <2>1. Fit(screen, window, events, ignored)
    BY DEF ScreenInvariant
  <2>2. (\A e : ~Has(events, e)) /\ (\A E : Lacks(events, E))
    BY EmptySays
  <2>3. screen.maximized = window.maximized /\ screen.minimized = window.minimized
    BY <2>1, <2>2 DEF Fit, Follows
  <2>4. Windowed(screen) => ~screen.resizePending
    BY <2>1, <2>2 DEF Fit
  <2> QED BY <2>1, <2>3, <2>4 DEF Fit
<1> QED BY <1>1, ScreenInvariance, PTL

\* A texture turned by a quarter of a turn is centered on the content.
LEMMA DestinationCentered ==
  ASSUME NEW r \in Rects, NEW o
  PROVE  /\ Near(2 * Destination(r, o).x + Destination(r, o).w, 2 * r.x + r.w, 1)
         /\ Near(2 * Destination(r, o).y + Destination(r, o).h, 2 * r.y + r.h, 1)
<1> DEFINE a == (r.h - r.w) \div 2
           b == (r.w - r.h) \div 2
<1>1. r.x \in Int /\ r.y \in Int /\ r.w \in Nat /\ r.h \in Nat
  BY DEF Rects
<1>2. a \in Int /\ 2 * a <= r.h - r.w /\ r.h - r.w <= 2 * a + 1
  BY <1>1, HalfInt
<1>3. b \in Int /\ 2 * b <= r.w - r.h /\ r.w - r.h <= 2 * b + 1
  BY <1>1, HalfInt
<1>4. CASE Swap(o)
  <2>1. Destination(r, o) = [x |-> r.x + (IF r.w < r.h THEN -a ELSE b),
                             y |-> r.y + (IF r.h < r.w THEN -b ELSE a),
                             w |-> r.h, h |-> r.w]
    BY <1>4 DEF Destination
  <2> HIDE DEF a, b
  <2>2. CASE r.w < r.h
    BY <1>1, <1>2, <1>3, <2>1, <2>2 DEF Near
  <2>3. CASE r.h < r.w
    BY <1>1, <1>2, <1>3, <2>1, <2>3 DEF Near
  <2>4. CASE r.h = r.w
    BY <1>1, <1>2, <1>3, <2>1, <2>4 DEF Near
  <2> QED BY <1>1, <2>2, <2>3, <2>4
<1>5. CASE ~Swap(o)
  BY <1>1, <1>5 DEF Destination, Near
<1> QED BY <1>4, <1>5

\* When no library call failed and no event is left, what is shown is the last
\* frame, or the last before the pause, as the user turned it, centered in the
\* window as it is now.
THEOREM PictureIsCurrent == ScreenSpec => []PictureCurrent
<1>1. ScreenInvariant => PictureCurrent
  <2> SUFFICES ASSUME ScreenInvariant, Settled
               PROVE  LET r == ContentRect(Drawable(window), screen.content) IN
                      /\ shown.frame.n = Frames - budget.frames \/ screen.paused
                      /\ <<Turned(shown.orientation, <<1, 0>>),
                           Turned(shown.orientation, <<0, 1>>)>> = view
                      /\ Near(2 * shown.rect.x + shown.rect.w, 2 * r.x + r.w, 1)
                      /\ Near(2 * shown.rect.y + shown.rect.h, 2 * r.y + r.h, 1)
    BY DEF PictureCurrent
  <2>1. screen.hasFrame /\ events = <<>> /\ budget.faults = Faults
    BY DEF Settled
  <2>2. screen.content # Size(0, 0)
    BY <2>1 DEF ScreenInvariant, Fresh
  <2>3. /\ shown.frame = screen.frame /\ shown.orientation = screen.orientation
        /\ shown.rect = Destination(screen.rect, screen.orientation)
    BY <2>1, <2>2, CurrentFacts DEF ScreenInvariant, Painted, Drawn
  <2>4. Timely(screen, Frames - budget.frames)
    BY <2>1, <2>2 DEF ScreenInvariant
  <2>5. screen.rect = ContentRect(Drawable(window), screen.content)
    BY <2>1, EmptySays DEF ScreenInvariant, Centered
  <2>6. screen.rect \in Rects
    BY CurrentFacts DEF Screens
  <2>7. shown.frame.n = Frames - budget.frames \/ screen.paused
    BY <2>3, <2>4 DEF Timely, Latest
  <2>8. <<Turned(shown.orientation, <<1, 0>>), Turned(shown.orientation, <<0, 1>>)>> = view
    BY <2>3 DEF ScreenInvariant, Tracked
  <2>9. /\ Near(2 * shown.rect.x + shown.rect.w, 2 * screen.rect.x + screen.rect.w, 1)
        /\ Near(2 * shown.rect.y + shown.rect.h, 2 * screen.rect.y + screen.rect.h, 1)
    BY <2>3, <2>6, DestinationCentered
  <2> QED BY <2>5, <2>7, <2>8, <2>9
<1> QED BY <1>1, ScreenInvariance, PTL

-----------------------------------------------------------------------------
(* Clicks.                                                                 *)

\* Along an axis of the content: a coordinate is rounded down, and may be one too far.
LEMMA NearAxis ==
  ASSUME NEW r \in Nat \ {0}, NEW w \in Nat, NEW x \in Nat, NEW u,
         LET q == (x * w) \div r IN u = 2 * q + 1 - w \/ u = 2 * q - 1 - w
  PROVE  Near(u * r, (2 * x + 1 - r) * w, 3 * r + w)
<1> DEFINE q == (x * w) \div r
<1>1. x * w \in Nat /\ r * w \in Nat
  BY ProductNat
<1>2. q \in Nat /\ r * q <= x * w /\ x * w < r * q + r
  BY <1>1, DivideNat
<1>3. u = 2 * q + 1 - w \/ u = 2 * q - 1 - w
  OBVIOUS
<1> HIDE DEF q
<1>4. r * q \in Nat
  BY <1>2, ProductNat
<1>5. (2 * x + 1 - r) * w = 2 * (x * w) + w - r * w
  BY <1>1
<1>6. u * r = 2 * (r * q) + r - r * w \/ u * r = 2 * (r * q) - r - r * w
  <2>1. CASE u = 2 * q + 1 - w
    BY <1>2, <2>1
  <2>2. CASE u = 2 * q - 1 - w
    BY <1>2, <2>2
  <2> QED BY <1>3, <2>1, <2>2
<1> DEFINE a == r * q
           b == x * w
           c == r * w
           m == u * r
           n == (2 * x + 1 - r) * w
<1>7. /\ a \in Nat /\ b \in Nat /\ c \in Nat /\ a <= b /\ b < a + r
      /\ n = 2 * b + w - c /\ (m = 2 * a + r - c \/ m = 2 * a - r - c)
  BY <1>1, <1>2, <1>4, <1>5, <1>6
<1> HIDE DEF a, b, c, m, n
<1>8. Near(m, n, 3 * r + w)
  BY <1>7 DEF Near
<1> QED BY <1>8 DEF m, n

\* The conversion to the coordinates of the frame undoes what the orientation
\* does to the directions, but for the coordinate that is one too far.
LEMMA CoordsTurned ==
  ASSUME NEW o \in 0 .. 7, NEW a \in Int, NEW b \in Int, NEW size \in Sizes
  PROVE  LET w == Oriented(size, o).w
             h == Oriented(size, o).h
             p == FrameCoords(a, b, w, h, o)
             u == 2 * p[1] + 1 - size.w
             v == 2 * p[2] + 1 - size.h
             e == Turned(o, <<1, 0>>)
             f == Turned(o, <<0, 1>>)
             i == u * e[1] + v * f[1]
             j == u * e[2] + v * f[2] IN
         /\ i = 2 * a + 1 - w \/ i = 2 * a - 1 - w
         /\ j = 2 * b + 1 - h \/ j = 2 * b - 1 - h
<1>1. size.w \in Nat /\ size.h \in Nat
  BY DEF Sizes
<1>2. /\ ~Swap(0) /\ Swap(1) /\ ~Swap(2) /\ Swap(3) /\ ~Swap(4) /\ Swap(5) /\ ~Swap(6) /\ Swap(7)
  BY DEF Swap
<1>3. 0 \in Int /\ 1 \in Int /\ -0 = 0
  <2>1. \A z \in Int : -z = 0 - z
    OBVIOUS
  <2>2. 0 \in Int /\ 1 \in Int /\ 0 - 0 = 0
    OBVIOUS
  <2> QED BY <2>1, <2>2, Zenon
<1>4. CASE o = 0
  BY <1>1, <1>2, <1>3, <1>4, TurnedIs DEF Oriented, Size, FrameCoords
<1>5. CASE o = 1
  BY <1>1, <1>2, <1>3, <1>5, TurnedIs DEF Oriented, Size, FrameCoords
<1>6. CASE o = 2
  BY <1>1, <1>2, <1>3, <1>6, TurnedIs DEF Oriented, Size, FrameCoords
<1>7. CASE o = 3
  BY <1>1, <1>2, <1>3, <1>7, TurnedIs DEF Oriented, Size, FrameCoords
<1>8. CASE o = 4
  BY <1>1, <1>2, <1>3, <1>8, TurnedIs DEF Oriented, Size, FrameCoords
<1>9. CASE o = 5
  BY <1>1, <1>2, <1>3, <1>9, TurnedIs DEF Oriented, Size, FrameCoords
<1>10. CASE o = 6
  BY <1>1, <1>2, <1>3, <1>10, TurnedIs DEF Oriented, Size, FrameCoords
<1>11. CASE o = 7
  BY <1>1, <1>2, <1>3, <1>11, TurnedIs DEF Oriented, Size, FrameCoords
<1> QED BY <1>4, <1>5, <1>6, <1>7, <1>8, <1>9, <1>10, <1>11

\* A click falls on the pixel under the pointer, or on the one beside it,
\* however the user turned and resized the window: for all sizes of the frame,
\* of the window and of the content, which the division by the size of the
\* content in the window rounds.
THEOREM ClicksHitPixels == ScreenSpec => []ClickHitsPixel
<1>1. ScreenInvariant => ClickHitsPixel
  <2> SUFFICES ASSUME ScreenInvariant, Settled,
                      NEW x \in screen.rect.x .. screen.rect.x + screen.rect.w - 1,
                      NEW y \in screen.rect.y .. screen.rect.y + screen.rect.h - 1
               PROVE  LET r == screen.rect
                          p == ConvertDrawable(x, y)
                          u == 2 * p[1] + 1 - screen.frameSize.w
                          v == 2 * p[2] + 1 - screen.frameSize.h
                          w == screen.content.w
                          h == screen.content.h IN
                      /\ Near((u * view[1][1] + v * view[2][1]) * r.w,
                              (2 * (x - r.x) + 1 - r.w) * w, 3 * r.w + w)
                      /\ Near((u * view[1][2] + v * view[2][2]) * r.h,
                              (2 * (y - r.y) + 1 - r.h) * h, 3 * r.h + h)
    BY DEF ClickHitsPixel
  <2> DEFINE r == screen.rect
             o == screen.orientation
             size == screen.frameSize
             w == screen.content.w
             h == screen.content.h
             a == ((x - r.x) * w) \div r.w
             b == ((y - r.y) * h) \div r.h
             p == FrameCoords(a, b, w, h, o)
             u == 2 * p[1] + 1 - size.w
             v == 2 * p[2] + 1 - size.h
             i == u * view[1][1] + v * view[2][1]
             j == u * view[1][2] + v * view[2][2]
  <2>1. screen.content # Size(0, 0)
    BY DEF ScreenInvariant, Fresh, Settled
  <2>2. screen.content = Oriented(size, o) /\ screen.content \in Sizes
    BY <2>1 DEF ScreenInvariant, Sized
  <2>3. size \in Sizes /\ o \in 0 .. 7 /\ r \in Rects
    BY CurrentFacts DEF Screens
  <2>4. view[1] = Turned(o, <<1, 0>>) /\ view[2] = Turned(o, <<0, 1>>)
    BY DEF ScreenInvariant, Tracked
  <2>5. p = ConvertDrawable(x, y)
    BY DEF ConvertDrawable
  <2>6. /\ r.x \in Int /\ r.y \in Int /\ r.w \in Nat \ {0} /\ r.h \in Nat \ {0}
        /\ x - r.x \in Nat /\ y - r.y \in Nat /\ w \in Nat /\ h \in Nat
    <3>1. /\ r.x \in Int /\ r.y \in Int /\ r.w \in Nat /\ r.h \in Nat
      BY <2>3 DEF Rects
    <3>2. w \in Nat /\ h \in Nat
      BY <2>2 DEF Sizes
    <3> QED BY <3>1, <3>2
  <2>7. a \in Int /\ b \in Int
    <3> DEFINE k == (x - r.x) * w
               l == (y - r.y) * h
    <3>1. k \in Nat /\ l \in Nat
      BY <2>6, ProductNat
    <3> HIDE DEF k, l
    <3>2. k \div r.w \in Nat /\ l \div r.h \in Nat
      BY <2>6, <3>1, DivideNat
    <3> QED BY <3>2 DEF k, l
  <2> HIDE DEF a, b
  <2>8. /\ i = 2 * a + 1 - w \/ i = 2 * a - 1 - w
        /\ j = 2 * b + 1 - h \/ j = 2 * b - 1 - h
    <3> DEFINE e == Turned(o, <<1, 0>>)
               f == Turned(o, <<0, 1>>)
    <3>1. w = Oriented(size, o).w /\ h = Oriented(size, o).h
      BY <2>2
    <3>2. i = u * e[1] + v * f[1] /\ j = u * e[2] + v * f[2]
      BY <2>4
    <3> HIDE DEF w, h, i, j
    <3>3. LET m == u * e[1] + v * f[1]
              n == u * e[2] + v * f[2] IN
          /\ m = 2 * a + 1 - w \/ m = 2 * a - 1 - w
          /\ n = 2 * b + 1 - h \/ n = 2 * b - 1 - h
      BY <2>3, <2>7, <3>1, CoordsTurned
    <3> QED BY <3>2, <3>3
  <2> HIDE DEF i, j
  <2>9. Near(i * r.w, (2 * (x - r.x) + 1 - r.w) * w, 3 * r.w + w)
    BY <2>6, <2>8, NearAxis DEF a
  <2>10. Near(j * r.h, (2 * (y - r.y) + 1 - r.h) * h, 3 * r.h + h)
    BY <2>6, <2>8, NearAxis DEF b
  <2> QED BY <2>5, <2>9, <2>10 DEF i, j
<1> QED BY <1>1, ScreenInvariance, PTL

=============================================================================
