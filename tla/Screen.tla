------------------------------- MODULE Screen -------------------------------
(***************************************************************************)
(* The window of the client (screen.c) and the texture it draws (display.c): *)
(* what the main thread does on a frame, an event of the window manager or a *)
(* shortcut, and where a click falls in the frame.                           *)
(*                                                                          *)
(* A handler is an operator on the record c of the state it may change, made *)
(* of the functions it calls; `failing` is the library call that fails       *)
(* during the handler, if any.  The window manager changes the window first, *)
(* and tells it later: events are handled in order, and SDL only keeps the   *)
(* last notice that the size changed.                                        *)
(***************************************************************************)
EXTENDS Integers, Sequences, FiniteSets

CONSTANTS
  FrameSizes,    \* sizes of the frames of the device
  UserSizes,     \* sizes the user gives to the window
  Orientations,  \* --display-orientation
  Requests,      \* --fullscreen, --window-width and --window-height
  Desktop,       \* size of the display of the computer
  Margins,       \* DISPLAY_MARGINS
  Scale,         \* HiDPI scale: drawable pixels per window unit
  Frames,        \* bound: frames received
  Moves,         \* bound: shortcuts, and changes by the window manager
  Faults         \* bound: library calls that fail

Sizes == [w : Nat \ {0}, h : Nat \ {0}]

\* sc_screen_frame_sink_open refuses an empty frame.
ASSUME ScreenAssumption ==
  /\ FrameSizes \subseteq Sizes /\ UserSizes \subseteq Sizes /\ Desktop \in Sizes
  /\ Orientations \subseteq 0 .. 7
  /\ Requests \subseteq [fullscreen : BOOLEAN, w : Nat, h : Nat]
  /\ Margins \in Nat /\ Scale \in Nat \ {0} /\ {Frames, Moves, Faults} \subseteq Nat

VARIABLES
  screen,   \* struct sc_screen
  window,   \* external: the SDL window, full-screen, maximized, minimized or not,
            \* its size, and whether this one was chosen: it is the user's, or
            \* SDL refused the one that the program computed for the content
  display,  \* struct sc_display: its texture, and what is pending
  shown,    \* what was last presented to the user
  events,   \* window events pushed and not handled yet
  status,   \* run, quit (a handler failed), aborted (an assertion failed)
  view,     \* the axes of a frame, turned as the user asked
  ignored,  \* a "restored" event was ignored, and none was handled since
  budget    \* what remains of the bounds, and the last frame received

screenVars == <<screen, window, display, shown, events, status, view, ignored, budget>>

Size(w, h) == [w |-> w, h |-> h]
Least(a, b) == IF a < b THEN a ELSE b
Most(a, b) == IF a < b THEN b ELSE a
NoFrame == [n |-> 0, size |-> Size(0, 0)]    \* no frame

-----------------------------------------------------------------------------
(* Sizes and orientations.                                                  *)

Mirror(o)   == o >= 4
Swap(o)     == o % 2 = 1
Rotation(o) == o % 4

\* Mutant: a flip after a quarter turn is not compensated.
OrientationApplyPlain(src, transform) ==
  (IF Mirror(src) # Mirror(transform) THEN 4 ELSE 0)
  + ((Rotation(src) + Rotation(transform)) % 4)

\* sc_orientation_apply: the flip is moved before the rotations.
OrientationApply(src, transform) ==
  (IF Mirror(src) # Mirror(transform) THEN 4 ELSE 0)
  + ((Rotation(src) + (IF Swap(src) /\ Mirror(transform) THEN 2 ELSE 0)
      + Rotation(transform)) % 4)

Oriented(size, o) == IF Swap(o) THEN Size(size.h, size.w) ELSE size

IsOptimal(current, content) ==
  \/ current.h = (current.w * content.h) \div content.w
  \/ current.w = (current.h * content.w) \div content.h

\* The black borders are cropped.
Cropped(current, content) ==
  IF IsOptimal(current, content) THEN current
  ELSE IF content.w * current.h > content.h * current.w
       THEN [current EXCEPT !.h = (content.h * current.w) \div content.w]
       ELSE [current EXCEPT !.w = (content.w * current.h) \div content.h]

Preferred == Size(Most(0, Desktop.w - Margins), Most(0, Desktop.h - Margins))

OptimalSize(current, content, within) ==
  Cropped(IF within THEN Size(Least(current.w, Preferred.w), Least(current.h, Preferred.h))
          ELSE current, content)

\* The size asked for, of which one dimension or both may be 0.
InitialSize(content, req) ==
  IF req.w = 0 /\ req.h = 0 THEN OptimalSize(content, content, TRUE)
  ELSE Size(IF req.w # 0 THEN req.w ELSE (req.h * content.w) \div content.h,
            IF req.h # 0 THEN req.h ELSE (req.w * content.h) \div content.w)

WindowSize(w) == IF w.fullscreen \/ w.maximized THEN Desktop ELSE w.size
Drawable(w)   == Size(WindowSize(w).w * Scale, WindowSize(w).h * Scale)

\* sc_screen_update_content_rect: the content is centered in the window.
ContentRect(drawable, content) ==
  LET size == Cropped(drawable, content) IN
  [x |-> (drawable.w - size.w) \div 2, y |-> (drawable.h - size.h) \div 2,
   w |-> size.w, h |-> size.h]

-----------------------------------------------------------------------------
(* The window, for the main thread.                                         *)

Windowed(s) == ~s.fullscreen /\ ~s.maximized /\ ~s.minimized

\* SDL removes the notice of a size that was not polled yet.
Notice(queue, e) ==
  LET i == CHOOSE i \in DOMAIN queue : queue[i] = "size" IN
  IF e = "size" /\ (\E j \in DOMAIN queue : queue[j] = "size")
  THEN Append(SubSeq(queue, 1, i - 1) \o SubSeq(queue, i + 1, Len(queue)), e)
  ELSE Append(queue, e)

\* SDL refuses an empty size.
SetWindowSize(c, size) ==
  IF size.w = 0 \/ size.h = 0 THEN [c EXCEPT !.window.chosen = TRUE]
  ELSE [c EXCEPT !.window.size = size, !.window.chosen = FALSE,
                 !.events = IF Drawable(c.window) # Drawable([c.window EXCEPT !.size = size])
                            THEN Notice(@, "size") ELSE @]

ResizeForContent(c, old, new) ==
  LET current == WindowSize(c.window) IN
  SetWindowSize(c, OptimalSize(Size((current.w * new.w) \div old.w,
                                    (current.h * new.h) \div old.h), new, TRUE))

\* Once a resize is pending, the content size of the window is remembered.
SetContentSize(c, new) ==
  LET s == c.screen
      resized == IF Windowed(s) THEN ResizeForContent(c, s.content, new)
                 ELSE IF s.resizePending THEN c
                 ELSE [c EXCEPT !.screen.resizePending = TRUE,
                                !.screen.windowedContent = s.content] IN
  [resized EXCEPT !.screen.content = new]

\* Mutant: the size the content had in the window is not used.
ApplyPendingResizeLate(c) == [c EXCEPT !.screen.resizePending = FALSE]

ApplyPendingResize(c) ==
  IF ~c.screen.resizePending THEN c
  ELSE [ResizeForContent(c, c.screen.windowedContent, c.screen.content)
        EXCEPT !.screen.resizePending = FALSE]

UpdateContentRect(c) ==
  [c EXCEPT !.screen.rect = ContentRect(Drawable(c.window), c.screen.content)]

-----------------------------------------------------------------------------
(* The display.  The texture holds a frame, or no frame yet; when it cannot *)
(* be created or updated, its size or the frame is left pending.             *)

NoTexture == [size |-> Size(0, 0), frame |-> NoFrame]
Texture(size) == [size |-> size, frame |-> NoFrame]

SetTextureSize(c, size, failing) ==
  IF failing = "create"
  THEN [c EXCEPT !.display.texture = NoTexture, !.display.pendingSize = size,
                 !.display.flags = @ \cup {"size"}, !.result = "pending"]
  ELSE [c EXCEPT !.display.texture = Texture(size), !.result = "ok"]

UpdateTexture(c, frame, failing) ==
  IF c.display.texture # NoTexture /\ failing \notin {"update", "alloc"}
  THEN [c EXCEPT !.display.texture.frame = frame, !.result = "ok"]
  ELSE IF failing = "alloc" THEN [c EXCEPT !.result = "error"]
  ELSE [c EXCEPT !.display.pendingFrame = frame,
                 !.display.flags = @ \cup {"frame"}, !.result = "pending"]

\* sc_display_apply_pending, its first part: the texture is created.
ApplyPendingSize(c, failing) ==
  IF "size" \notin c.display.flags THEN [c EXCEPT !.result = "ok"]
  ELSE IF c.display.texture # NoTexture THEN [c EXCEPT !.status = "aborted"]
  ELSE IF failing = "create" THEN [c EXCEPT !.result = "pending"]
  ELSE [c EXCEPT !.display.texture = Texture(c.display.pendingSize),
                 !.display.flags = @ \ {"size"}, !.result = "ok"]

\* Its second part takes the result of the update, of which 0 is the success,
\* for a boolean: the frame remains pending if the update succeeds.
ApplyPendingFrame(c, failing) ==
  LET updated == UpdateTexture(c, c.display.pendingFrame, failing) IN
  IF "frame" \notin c.display.flags THEN c
  ELSE IF updated.result = "ok" THEN [updated EXCEPT !.result = "pending"]
  ELSE [updated EXCEPT !.display.pendingFrame = NoFrame,
                       !.display.flags = @ \ {"frame"}, !.result = "ok"]

ApplyPending(c, failing) ==
  LET sized == ApplyPendingSize(c, failing) IN
  IF sized.status # "run" \/ sized.result # "ok" THEN sized
  ELSE ApplyPendingFrame(sized, failing)

\* A texture drawn at a quarter turn is centered on the content.
Destination(rect, o) ==
  IF Swap(o)
  THEN [x |-> rect.x + (IF rect.w < rect.h THEN -((rect.h - rect.w) \div 2)
                        ELSE (rect.w - rect.h) \div 2),
        y |-> rect.y + (IF rect.h < rect.w THEN -((rect.w - rect.h) \div 2)
                        ELSE (rect.h - rect.w) \div 2),
        w |-> rect.h, h |-> rect.w]
  ELSE rect

\* sc_screen_render, sc_display_render.
Present(c, failing) ==
  LET applied == ApplyPending(c, failing)
      texture == applied.display.texture IN
  IF applied.status # "run" \/ applied.result # "ok"
     \/ texture = NoTexture \/ failing = "copy"
  THEN applied
  ELSE [applied EXCEPT !.shown =
          [frame |-> texture.frame, orientation |-> applied.screen.orientation,
           rect |-> Destination(applied.screen.rect, applied.screen.orientation)]]

Render(c, failing) == Present(UpdateContentRect(c), failing)

-----------------------------------------------------------------------------
(* Shortcuts.                                                               *)

\* Mutant: the frame is not drawn again.
SetOrientationSilently(c, o, failing) ==
  IF o = c.screen.orientation THEN c
  ELSE [SetContentSize(c, Oriented(c.screen.frameSize, o)) EXCEPT !.screen.orientation = o]

SetOrientation(c, o, failing) ==
  IF o = c.screen.orientation THEN c
  ELSE Render([SetContentSize(c, Oriented(c.screen.frameSize, o))
               EXCEPT !.screen.orientation = o], failing)

ToggleFullscreen(c, failing) ==
  LET toggled == [c EXCEPT !.screen.fullscreen = ~@, !.window.fullscreen = ~@,
                           !.events = Notice(@, "size")] IN
  IF failing = "fullscreen" THEN c
  ELSE Render(IF Windowed(toggled.screen) THEN ApplyPendingResize(toggled) ELSE toggled,
              failing)

ResizeToFit(c) ==
  IF ~Windowed(c.screen) THEN c
  ELSE SetWindowSize(c, OptimalSize(WindowSize(c.window), c.screen.content, FALSE))

\* Leaves the maximized state at once, "restored" comes later.
ResizeToPixelPerfect(c) ==
  LET restored == IF ~c.screen.maximized THEN c
                  ELSE [c EXCEPT !.screen.maximized = FALSE, !.window.maximized = FALSE,
                                 !.events = IF c.window.maximized
                                            THEN Notice(Notice(@, "restored"), "size")
                                            ELSE @] IN
  IF c.screen.fullscreen \/ c.screen.minimized THEN c
  ELSE SetWindowSize(restored, c.screen.content)

-----------------------------------------------------------------------------
(* Frames.                                                                  *)

PrepareForFrame(c, size, failing) ==
  IF size = c.screen.frameSize THEN [c EXCEPT !.result = "ok"]
  ELSE SetTextureSize(
         UpdateContentRect(SetContentSize([c EXCEPT !.screen.frameSize = size],
                                          Oriented(size, c.screen.orientation))),
         size, failing)

\* The first frame: the window gets its size, and full screen if asked.
ShowInitialWindow(c, failing) ==
  LET req == c.screen.req
      sized == [SetWindowSize(c, InitialSize(c.screen.content, req))
                EXCEPT !.screen.hasFrame = TRUE,
                       !.window.chosen = @ \/ (req.w # 0 /\ req.h # 0)] IN
  UpdateContentRect(IF req.fullscreen THEN ToggleFullscreen(sized, failing)
                    ELSE sized)

ApplyFrame(c, failing) ==
  LET frame == c.screen.frame
      prepared == PrepareForFrame(c, frame.size, failing)
      updated == UpdateTexture(prepared, frame, failing) IN
  IF prepared.result = "pending" THEN prepared
  ELSE IF updated.result = "error" THEN [updated EXCEPT !.status = "quit"]
  ELSE IF updated.result = "pending" THEN updated
  ELSE Present(IF updated.screen.hasFrame THEN updated
               ELSE ShowInitialWindow(updated, failing), failing)

\* sc_screen_update_frame
UpdateFrame(c, frame, failing) ==
  IF c.screen.paused THEN [c EXCEPT !.screen.resume = frame]
  ELSE ApplyFrame([c EXCEPT !.screen.frame = frame], failing)

\* An error of the frame shown again is ignored.
SetPaused(c, pause, failing) ==
  LET resume == c.screen.resume
      resumed == IF c.screen.paused /\ resume # NoFrame
                 THEN [ApplyFrame([c EXCEPT !.screen.frame = resume, !.screen.resume = NoFrame],
                                  failing)
                       EXCEPT !.status = IF @ = "quit" THEN "run" ELSE @]
                 ELSE c IN
  IF ~pause /\ ~c.screen.paused THEN c ELSE [resumed EXCEPT !.screen.paused = pause]

-----------------------------------------------------------------------------
(* Window events.                                                           *)

Restored(c, failing) ==
  IF c.screen.fullscreen THEN c
  ELSE Render(ApplyPendingResize([c EXCEPT !.screen.maximized = FALSE,
                                           !.screen.minimized = FALSE]), failing)

WindowEvent(c, e, failing) ==
  IF ~c.screen.hasFrame THEN c
  ELSE CASE e = "size"      -> Render(c, failing)
         [] e = "maximized" -> [c EXCEPT !.screen.maximized = TRUE]
         [] e = "minimized" -> [c EXCEPT !.screen.minimized = TRUE]
         [] e = "restored"  -> Restored(c, failing)

-----------------------------------------------------------------------------
(* Steps.                                                                   *)

Current == [screen |-> screen, window |-> window, display |-> display, shown |-> shown,
            events |-> events, status |-> status, result |-> "ok"]

Do(c) ==
  /\ screen' = c.screen /\ window' = c.window /\ display' = c.display
  /\ shown' = c.shown /\ events' = c.events /\ status' = c.status

\* Library calls that may fail: to create a texture, to update it (and then to
\* keep the frame), to draw it, to switch to full screen.
Failing(f) ==
  \/ f = "none"
  \/ budget.faults > 0 /\ f \in {"create", "update", "alloc", "copy", "fullscreen"}

Spent(f, frames, moves) ==
  budget' = [budget EXCEPT !.faults = IF f = "none" THEN @ ELSE @ - 1,
                           !.frames = @ - frames, !.moves = @ - moves]

\* SC_EVENT_SCREEN_INIT_SIZE, before the first frame.
InitSize ==
  /\ status = "run" /\ screen.content = Size(0, 0)
  /\ \E f \in {"none", "create"} : Failing(f)
       /\ Do(SetTextureSize([Current EXCEPT !.screen.content =
                               Oriented(screen.frameSize, screen.orientation)],
                            screen.frameSize, f))
       /\ Spent(f, 0, 0)
  /\ UNCHANGED <<view, ignored>>

NewFrame ==
  /\ status = "run" /\ screen.content # Size(0, 0) /\ budget.frames > 0
  /\ \E size \in FrameSizes, f \in {"none", "create", "update", "alloc", "copy", "fullscreen"} :
       /\ Failing(f)
       /\ Do(UpdateFrame(Current, [n |-> Frames - budget.frames + 1, size |-> size], f))
       /\ Spent(f, 1, 0)
  /\ UNCHANGED <<view, ignored>>

HandleWindowEvent ==
  /\ status = "run" /\ events # <<>>
  /\ \E f \in {"none", "create", "update", "copy"} : Failing(f)
       /\ Do(WindowEvent([Current EXCEPT !.events = Tail(events)], Head(events), f))
       /\ Spent(f, 0, 0)
  /\ ignored' = IF Head(events) = "restored" THEN screen.fullscreen ELSE ignored
  /\ UNCHANGED view

\* The direction p, after the orientation o: flipped, then turned clockwise.
Turned(o, p) ==
  LET flipped == IF Mirror(o) THEN <<-p[1], p[2]>> ELSE p IN
  CASE Rotation(o) = 0 -> flipped
    [] Rotation(o) = 1 -> <<-flipped[2], flipped[1]>>
    [] Rotation(o) = 2 -> <<-flipped[1], -flipped[2]>>
    [] Rotation(o) = 3 -> <<flipped[2], -flipped[1]>>

Visible == screen.hasFrame /\ status = "run" /\ ~window.minimized

\* The shortcuts turn by 90 or 270 degrees, or flip either axis.
Rotate ==
  /\ Visible /\ budget.moves > 0
  /\ \E transform \in {1, 3, 4, 6}, f \in {"none", "create", "update", "copy"} :
       /\ Failing(f)
       /\ Do(SetOrientation(Current, OrientationApply(screen.orientation, transform), f))
       /\ view' = <<Turned(transform, view[1]), Turned(transform, view[2])>>
       /\ Spent(f, 0, 1)
  /\ UNCHANGED ignored

Shortcut ==
  /\ Visible /\ budget.moves > 0
  /\ \/ \E f \in {"none", "create", "update", "copy", "fullscreen"} :
          Failing(f) /\ Do(ToggleFullscreen(Current, f)) /\ Spent(f, 0, 1)
     \/ \E pause \in BOOLEAN, f \in {"none", "create", "update", "alloc", "copy"} :
          Failing(f) /\ Do(SetPaused(Current, pause, f)) /\ Spent(f, 0, 1)
     \/ (Do(ResizeToFit(Current)) \/ Do(ResizeToPixelPerfect(Current))) /\ Spent("none", 0, 1)
  /\ UNCHANGED <<view, ignored>>

\* The user, through the window manager.
Manage(w, e) ==
  /\ window' = w
  /\ events' = IF Drawable(w) # Drawable(window) THEN Notice(e, "size") ELSE e

Manager ==
  /\ screen.hasFrame /\ status = "run" /\ budget.moves > 0
  /\ \/ ~window.minimized /\ ~window.maximized /\ ~window.fullscreen
        /\ \/ Manage([window EXCEPT !.maximized = TRUE], Notice(events, "maximized"))
           \/ \E size \in UserSizes :
                Manage([window EXCEPT !.size = size, !.chosen = TRUE], events)
     \/ ~window.minimized
        /\ Manage([window EXCEPT !.minimized = TRUE], Notice(events, "minimized"))
     \/ window.minimized
        /\ Manage([window EXCEPT !.minimized = FALSE],
                  IF window.maximized THEN Notice(Notice(events, "restored"), "maximized")
                  ELSE Notice(events, "restored"))
     \/ window.maximized /\ ~window.minimized /\ ~window.fullscreen
        /\ Manage([window EXCEPT !.maximized = FALSE], Notice(events, "restored"))
  /\ Spent("none", 0, 1)
  /\ UNCHANGED <<screen, display, shown, status, view, ignored>>

ScreenInit ==
  /\ \E size \in FrameSizes, o \in Orientations, req \in Requests :
       /\ screen = [fullscreen |-> FALSE, maximized |-> FALSE, minimized |-> FALSE,
                    resizePending |-> FALSE, hasFrame |-> FALSE, paused |-> FALSE,
                    req |-> req, orientation |-> o,
                    frameSize |-> size, content |-> Size(0, 0),
                    windowedContent |-> Size(0, 0), frame |-> NoFrame, resume |-> NoFrame,
                    rect |-> [x |-> 0, y |-> 0, w |-> 0, h |-> 0]]
       /\ view = <<Turned(o, <<1, 0>>), Turned(o, <<0, 1>>)>>
  /\ window = [fullscreen |-> FALSE, maximized |-> FALSE, minimized |-> FALSE,
               size |-> Size(256, 256), chosen |-> FALSE]
  /\ display = [texture |-> NoTexture, pendingSize |-> Size(0, 0), pendingFrame |-> NoFrame,
                flags |-> {}]
  /\ shown = [frame |-> NoFrame, orientation |-> 0, rect |-> screen.rect]
  /\ events = <<>> /\ status = "run" /\ ignored = FALSE
  /\ budget = [frames |-> Frames, moves |-> Moves, faults |-> Faults]

ScreenNext == InitSize \/ NewFrame \/ HandleWindowEvent \/ Rotate \/ Shortcut \/ Manager

ScreenSpec == ScreenInit /\ [][ScreenNext]_screenVars

-----------------------------------------------------------------------------
\* The switch of sc_screen_convert_drawable_to_frame_coords.
FrameCoords(x, y, w, h, o) ==
  CASE o = 0 -> <<x, y>>         [] o = 1 -> <<y, w - x>>
    [] o = 2 -> <<w - x, h - y>> [] o = 3 -> <<h - y, x>>
    [] o = 4 -> <<w - x, y>>     [] o = 5 -> <<h - y, w - x>>
    [] o = 6 -> <<x, h - y>>     [] o = 7 -> <<y, x>>

ConvertDrawable(x, y) ==
  LET w == screen.content.w
      h == screen.content.h IN
  FrameCoords(((x - screen.rect.x) * w) \div screen.rect.w,
              ((y - screen.rect.y) * h) \div screen.rect.h, w, h, screen.orientation)

\* Nothing is left to handle, and no library call failed.
Settled ==
  events = <<>> /\ screen.hasFrame /\ status = "run" /\ budget.faults = Faults

\* A click designates the pixel that is under the pointer, or the one beside it
\* (a coordinate that is mirrored is one too far: w - x, not w - 1 - x), however
\* the user rotated and flipped the display since the start: the orientation
\* composed, the size of the content and the conversion back agree.
Near(a, b, tolerance) == a - b <= tolerance /\ b - a <= tolerance

ClickHitsPixel ==
  Settled =>
    LET r == screen.rect IN
    \A x \in r.x .. r.x + r.w - 1, y \in r.y .. r.y + r.h - 1 :
      LET p == ConvertDrawable(x, y)
          u == 2 * p[1] + 1 - screen.frameSize.w   \* from the center, in half pixels
          v == 2 * p[2] + 1 - screen.frameSize.h
          w == screen.content.w
          h == screen.content.h IN
      /\ Near((u * view[1][1] + v * view[2][1]) * r.w, (2 * (x - r.x) + 1 - r.w) * w,
              3 * r.w + w)
      /\ Near((u * view[1][2] + v * view[2][2]) * r.h, (2 * (y - r.y) + 1 - r.h) * h,
              3 * r.h + h)

\* Once its events are handled, the screen knows the state of the window, a
\* window with the size the program gave it has no black borders, and no
\* resize is left pending unless the window is full-screen, maximized or
\* minimized.  An event "restored" that was ignored, because the window was
\* full-screen, is not made up for when it leaves full screen.
WindowFits ==
  events = <<>> /\ screen.hasFrame /\ status = "run" /\ ~ignored =>
    /\ screen.fullscreen = window.fullscreen
    /\ screen.minimized = window.minimized
    /\ screen.maximized = window.maximized
    /\ Windowed(screen) =>
         ~screen.resizePending
         /\ (window.chosen \/ IsOptimal(window.size, screen.content))

\* What is presented is the last frame, or the last one before a pause, with
\* the orientation the user chose, centered in the window as it is now.
PictureCurrent ==
  Settled =>
    LET r == ContentRect(Drawable(window), screen.content) IN
    /\ shown.frame.n = Frames - budget.frames \/ screen.paused
    /\ <<Turned(shown.orientation, <<1, 0>>), Turned(shown.orientation, <<0, 1>>)>> = view
    /\ Near(2 * shown.rect.x + shown.rect.w, 2 * r.x + r.w, 1)
    /\ Near(2 * shown.rect.y + shown.rect.h, 2 * r.y + r.h, 1)

\* assert(screen->rect.w && screen->rect.h): screen.c:885, which a click reaches.
\* The content is drawn somewhere, whatever the size of the window.
RectNotEmpty ==
  screen.hasFrame /\ status = "run" => screen.rect.w # 0 /\ screen.rect.h # 0

\* assert(!display->texture): display.c:187.
PendingSizeHasNoTexture == status # "aborted"

=============================================================================
