--------------------------- MODULE SurfaceEncoder ---------------------------
(***************************************************************************)
(* The server's video encoder: the "video" thread (SurfaceEncoder) captures *)
(* the screen (ScreenCapture) into a MediaCodec, and starts over whenever   *)
(* the capture is invalidated (CaptureReset): by the display listener when  *)
(* the size changes (DisplaySizeMonitor), by the control thread on a        *)
(* RESET_VIDEO message, by the main thread to stop it.  With a filter the   *)
(* frames go through the thread of OpenGLRunner.                            *)
(*                                                                          *)
(* A synchronized section, an atomic access, or a piece of a thread that no *)
(* other thread can observe is one action.                                  *)
(***************************************************************************)
EXTENDS Naturals, FiniteSets

CONSTANTS
  Sizes,       \* sizes of the display, each stands for its larger dimension
  NoSize,      \* null: display information not available
  Fallback,    \* MAX_SIZE_FALLBACK
  MaxErrors,   \* MAX_CONSECUTIVE_ERRORS
  Downsize,    \* the option downsizeOnError
  MaxChanges,  \* bound: changes of the display
  MaxRequests  \* bound: RESET_VIDEO messages

ASSUME SizesAssumption == Sizes \subseteq Nat \ {0} /\ Fallback \subseteq Nat \ {0}
ASSUME NoSizeAssumption == NoSize \notin Nat
ASSUME MaxErrorsAssumption == MaxErrors \in Nat \ {0}
ASSUME OptionAssumption == Downsize \in BOOLEAN

VARIABLES
  display,     \* the size of the display
  changes,     \* number of its changes, bounded
  events,      \* onDisplayChanged calls not made yet
  looked,      \* the sizes a call of checkDisplaySizeChanged works on (0 or 1)
  monitor,     \* the listener's thread: idle, looked, differs
  session,     \* DisplaySizeMonitor.sessionDisplaySize
  requests,    \* number of RESET_VIDEO messages, bounded
  control,     \* the control thread: running, dead
  main,        \* the main thread: running, stopping, quitting, joining, exited
  stopped,     \* SurfaceEncoder.stopped
  asking,      \* threads that call CaptureReset.reset
  inside,      \* the one inside its synchronized section, a set of 0 or 1
  reset,       \* CaptureReset.reset
  running,     \* whether CaptureReset.runningMediaCodec is set
  pc,          \* where the encoder's thread stands in streamCapture
  alive,       \* its local variable, FALSE also when an exception is thrown
  info,        \* ScreenCapture.displayInfo
  maxSize,     \* ScreenCapture.maxSize
  framed,      \* firstFrameSent
  errors,      \* consecutiveErrors
  codec,       \* none, created, started, released
  leak,        \* history: what threw past the release of the codec: no, create, init
  eos,         \* an end of stream was signalled to the started codec
  registered,  \* the display listener is registered
  captured,    \* captureStarted
  runner,      \* ScreenCapture.glRunner: null, started, failed
  glThread,    \* OpenGLRunner.handlerThread is started
  glQuit,      \* OpenGLRunner.quit
  owed         \* history: a reset the display was not read again for

deviceVars  == <<display, changes>>
monitorVars == <<events, looked, monitor>>
controlVars == <<requests, control>>
mainVars    == <<main, stopped, glQuit>>
resetVars   == <<asking, inside, reset, running, eos, owed>>
retryVars   == <<alive, maxSize, framed, errors>>
codecVars   == <<codec, leak>>
captureVars == <<info, registered, captured, runner, glThread>>
vars == <<deviceVars, monitorVars, session, controlVars, mainVars, resetVars, pc,
          retryVars, codecVars, captureVars>>

Displays == Sizes \cup {NoSize}

-----------------------------------------------------------------------------
Init ==
  /\ display \in Sizes /\ changes = 0
  /\ events = 0 /\ looked = {} /\ monitor = "idle" /\ session = NoSize
  /\ requests = 0 /\ control = "running"
  /\ main = "running" /\ stopped = FALSE /\ glQuit = FALSE
  /\ asking = {} /\ inside = {} /\ reset = FALSE /\ running = FALSE
  /\ eos = FALSE /\ owed = FALSE
  /\ pc = "create" /\ alive = TRUE
  /\ maxSize = 0 /\ framed = FALSE /\ errors = 0
  /\ codec = "none" /\ leak = "no"
  /\ info = NoSize /\ registered = FALSE /\ captured = FALSE
  /\ runner = "null" /\ glThread = FALSE

-----------------------------------------------------------------------------
(* CaptureReset.reset, called by three threads                             *)

Busy(thread) == thread \in asking \cup inside

EnterReset(thread) ==
  /\ thread \in asking /\ inside = {}
  /\ asking' = asking \ {thread} /\ inside' = {thread}
  /\ reset' = TRUE /\ owed' = TRUE
  /\ UNCHANGED <<running, eos, deviceVars, monitorVars, session, controlVars, mainVars,
                 pc, retryVars, codecVars, captureVars>>

\* Mutant: the flag alone.
LeaveResetSilent ==
  /\ inside # {}
  /\ inside' = {}
  /\ UNCHANGED <<eos, asking, reset, running, owed, deviceVars, monitorVars, session,
                 controlVars, mainVars, pc, retryVars, codecVars, captureVars>>

\* signalEndOfInputStream, on the codec registered; IllegalStateException is
\* ignored.
LeaveReset ==
  /\ inside # {}
  /\ inside' = {}
  /\ eos' = (eos \/ (running /\ codec = "started"))
  /\ UNCHANGED <<asking, reset, running, owed, deviceVars, monitorVars, session,
                 controlVars, mainVars, pc, retryVars, codecVars, captureVars>>

-----------------------------------------------------------------------------
(* The device, the display listener, the control thread                    *)

ChangeDisplay ==
  /\ changes < MaxChanges
  /\ changes' = changes + 1
  /\ display' \in Displays \ {display}
  /\ events' = IF registered THEN events + 1 ELSE events
  /\ UNCHANGED <<looked, monitor, session, controlVars, mainVars, resetVars, pc,
                 retryVars, codecVars, captureVars>>

\* checkDisplaySizeChanged reads the display, ...
Look ==
  /\ monitor = "idle" /\ ~Busy("monitor") /\ events > 0
  /\ events' = events - 1
  /\ looked' = {display}
  /\ monitor' = "looked"
  /\ UNCHANGED <<session, deviceVars, controlVars, mainVars, resetVars, pc, retryVars,
                 codecVars, captureVars>>

\* ... compares it with the size of the session, ...
Compare ==
  /\ monitor = "looked"
  /\ monitor' = IF looked = {session} /\ session # NoSize THEN "idle" ELSE "differs"
  /\ UNCHANGED <<events, looked, session, deviceVars, controlVars, mainVars, resetVars, pc,
                 retryVars, codecVars, captureVars>>

\* ... and, when it is another one, records it and invalidates the capture.
Record ==
  /\ monitor = "differs"
  /\ monitor' = "idle"
  /\ session' \in looked
  /\ asking' = asking \cup {"monitor"}
  /\ UNCHANGED <<inside, reset, running, eos, owed, events, looked, deviceVars, controlVars,
                 mainVars, pc, retryVars, codecVars, captureVars>>

\* capture.init was not called.
NoListener ==
  pc \in {"create", "init"} \/ (pc = "done" /\ (codec = "none" \/ leak = "create"))

\* RESET_VIDEO: before init the capture has no listener, and the control
\* thread dies of a NullPointerException.
RequestInvalidate ==
  /\ control = "running" /\ ~Busy("control") /\ requests < MaxRequests
  /\ requests' = requests + 1
  /\ IF NoListener
     THEN control' = "dead" /\ UNCHANGED asking
     ELSE asking' = asking \cup {"control"} /\ UNCHANGED control
  /\ UNCHANGED <<inside, reset, running, eos, owed, deviceVars, monitorVars, session, mainVars,
                 pc, retryVars, codecVars, captureVars>>

-----------------------------------------------------------------------------
(* The main thread, once its looper has quit (Server.scrcpy)                *)

StopEncoder ==
  /\ main = "running"
  /\ main' = "stopping"
  /\ stopped' = TRUE
  /\ asking' = asking \cup {"main"}
  /\ UNCHANGED <<glQuit, inside, reset, running, eos, owed, deviceVars, monitorVars, session,
                 controlVars, pc, retryVars, codecVars, captureVars>>

QuitGl ==
  /\ main = "stopping" /\ ~Busy("main")
  /\ main' = "joining"
  /\ glQuit' = TRUE
  /\ UNCHANGED <<stopped, deviceVars, monitorVars, session, controlVars, resetVars, pc,
                 retryVars, codecVars, captureVars>>

Exit ==
  /\ main = "joining" /\ pc = "done"
  /\ main' = "exited"
  /\ UNCHANGED <<stopped, glQuit, deviceVars, monitorVars, session, controlVars, resetVars, pc,
                 retryVars, codecVars, captureVars>>

-----------------------------------------------------------------------------
(* The encoder's thread: streamCapture                                     *)

others == <<deviceVars, monitorVars, controlVars, mainVars, asking, inside>>

\* createMediaCodec: without a codec the thread ends.  One of another type than
\* the stream's is not released.
Create ==
  /\ pc = "create"
  /\ \/ codec' = "created" /\ pc' = "init" /\ UNCHANGED leak
     \/ codec' = "created" /\ pc' = "done" /\ leak' = "create"
     \/ pc' = "done" /\ UNCHANGED codecVars
  /\ UNCHANGED <<others, session, reset, running, eos, owed, retryVars, captureVars>>

\* capture.init.  A display listener that cannot be registered is "not a fatal
\* error"; a camera that is not found or not opened is one, thrown before the try
\* whose finally releases the codec and the capture.
InitCapture ==
  /\ pc = "init"
  /\ \/ pc' = "top" /\ registered' \in BOOLEAN /\ UNCHANGED leak
     \/ pc' = "done" /\ leak' = "init" /\ UNCHANGED registered
  /\ UNCHANGED <<others, session, reset, running, eos, owed, retryVars, codec, info, captured,
                 runner, glThread>>

\* "If a capture reset was requested, it is implicitly fulfilled"
Top ==
  /\ pc = "top"
  /\ pc' = "prepare"
  /\ reset' = FALSE
  /\ UNCHANGED <<others, session, running, eos, owed, retryVars, codecVars, captureVars>>

\* Mutant: a display that is gone ends the thread at once.
PrepareDone ==
  /\ pc = "prepare"
  /\ info' = display
  /\ pc' = IF display = NoSize THEN "done" ELSE "session"
  /\ owed' = FALSE
  /\ UNCHANGED <<others, session, reset, running, eos, retryVars, codecVars, registered, captured,
                 runner, glThread>>

\* capture.prepare reads the display; a display that is gone ends the capture.
Prepare ==
  /\ pc = "prepare"
  /\ info' = display
  /\ pc' = IF display = NoSize THEN "release" ELSE "session"
  /\ owed' = FALSE
  /\ UNCHANGED <<others, session, reset, running, eos, retryVars, codecVars, registered, captured,
                 runner, glThread>>

\* It records the size; then the header of the stream may fail to be written.
SetSession ==
  /\ pc = "session"
  /\ session' = info
  /\ pc' \in {"configure", "release"}
  /\ UNCHANGED <<others, reset, running, eos, owed, retryVars, codecVars, captureVars>>

\* getSize
VideoSize == IF maxSize = 0 \/ info <= maxSize THEN info ELSE maxSize

Smaller == {v \in Fallback : v < VideoSize}

\* Mutant: one error too many.
MayRetryLate(n) == n <= MaxErrors

MayRetry(n) == n < MaxErrors

\* Mutant: the errors are not added up.
CountErrorOnce(n) == 1

CountError(n) == n + 1

\* After the first frame the capture is tried again as it is, a few times;
\* before, with the next smaller size.
PrepareRetry ==
  \/ /\ framed
     /\ errors' = CountError(errors)
     /\ alive' = MayRetry(errors')
     /\ UNCHANGED maxSize
  \/ /\ ~framed /\ Downsize /\ Smaller # {}
     /\ maxSize' \in {v \in Smaller : \A u \in Smaller : u <= v}
     /\ alive' = TRUE
     /\ UNCHANGED errors
  \/ /\ ~framed /\ (~Downsize \/ Smaller = {})
     /\ alive' = FALSE
     /\ UNCHANGED <<errors, maxSize>>

\* ScreenCapture.start with a filter: "assert glRunner == null".  OpenGLRunner
\* posts to its thread and waits; once that thread was asked to quit nothing
\* posted is executed, and without a thread IllegalStateException is thrown.
StartRunner(result) ==
  /\ glThread' = (glThread \/ ~glQuit)
  /\ \/ result = "ok" /\ ~glQuit /\ runner' = "started"
     \/ result = "exception" /\ (glQuit => ~glThread) /\ runner' = "failed"
     \/ result = "stuck" /\ glQuit /\ glThread /\ runner' = "started"

NoFilter == UNCHANGED <<runner, glThread>>

\* mediaCodec.configure, capture.start, mediaCodec.start
Configure ==
  /\ pc = "configure"
  /\ NoFilter \/ StartRunner("ok")
  /\ captured' = TRUE /\ codec' = "started"
  /\ pc' = "register"
  /\ UNCHANGED <<others, session, reset, running, eos, owed, retryVars, leak, info, registered>>

\* The codec or the runner fails before, or the codec after, the capture starts.
ConfigureFails ==
  /\ pc = "configure"
  /\ \/ NoFilter /\ captured' \in BOOLEAN
     \/ StartRunner("exception") /\ UNCHANGED captured
     \/ StartRunner("ok") /\ captured' = TRUE
  /\ PrepareRetry
  /\ pc' = "unregister"
  /\ UNCHANGED <<others, session, reset, running, eos, owed, framed, codecVars, info, registered>>

\* No virtual display: AssertionError, which nothing catches.
ConfigureDies ==
  /\ pc = "configure"
  /\ NoFilter \/ StartRunner("ok")
  /\ alive' = FALSE
  /\ pc' = "unregister"
  /\ UNCHANGED <<others, session, reset, running, eos, owed, maxSize, framed, errors, codecVars,
                 info, registered, captured>>

ConfigureStuck ==
  /\ pc = "configure"
  /\ StartRunner("stuck")
  /\ pc' = "stuck"
  /\ UNCHANGED <<others, session, reset, running, eos, owed, retryVars, codecVars, info,
                 registered, captured>>

\* reset.setRunningMediaCodec(mediaCodec)
Register ==
  /\ pc = "register" /\ inside = {}
  /\ running' = TRUE
  /\ pc' = "check"
  /\ UNCHANGED <<others, session, reset, eos, owed, retryVars, codecVars, captureVars>>

\* Mutant: the stop is looked at after the encoding only.
CheckIgnored ==
  /\ pc = "check"
  /\ pc' = "consume"
  /\ UNCHANGED <<alive, others, session, reset, running, eos, owed, maxSize, framed, errors,
                 codecVars, captureVars>>

Check ==
  /\ pc = "check"
  /\ IF stopped THEN alive' = FALSE /\ pc' = "unregister"
                ELSE pc' = "consume" /\ UNCHANGED alive
  /\ UNCHANGED <<others, session, reset, running, eos, owed, maxSize, framed, errors, codecVars,
                 captureVars>>

\* Mutant: a reset requested in the meantime is forgotten.
ConsumeEncodes ==
  /\ pc = "consume"
  /\ reset' = FALSE
  /\ pc' = "encode"
  /\ UNCHANGED <<others, session, running, eos, owed, retryVars, codecVars, captureVars>>

Consume ==
  /\ pc = "consume"
  /\ reset' = FALSE
  /\ pc' = IF reset THEN "after" ELSE "encode"
  /\ UNCHANGED <<others, session, running, eos, owed, retryVars, codecVars, captureVars>>

\* encode: a frame is written, ...
Frame ==
  /\ pc = "encode"
  /\ framed' = TRUE /\ errors' = 0
  /\ UNCHANGED <<others, session, reset, running, eos, owed, pc, alive, maxSize, codecVars,
                 captureVars>>

\* ... the end of the stream is reached, with or without a last frame, ...
EndOfStream ==
  /\ pc = "encode" /\ eos
  /\ \/ framed' = TRUE /\ errors' = 0
     \/ UNCHANGED <<framed, errors>>
  /\ pc' = "after"
  /\ UNCHANGED <<others, session, reset, running, eos, owed, alive, maxSize, codecVars,
                 captureVars>>

\* ... or it fails, for good when the client has closed the socket.
EncodeFails ==
  /\ pc = "encode"
  /\ \/ PrepareRetry
     \/ alive' = FALSE /\ UNCHANGED <<errors, maxSize>>
  /\ pc' = "unregister"
  /\ UNCHANGED <<others, session, reset, running, eos, owed, framed, codecVars, captureVars>>

\* Screen captures are never closed internally.
After ==
  /\ pc = "after"
  /\ alive' = ~stopped
  /\ pc' = "unregister"
  /\ UNCHANGED <<others, session, reset, running, eos, owed, maxSize, framed, errors, codecVars,
                 captureVars>>

\* Mutant: the codec stays registered.
UnregisterNothing ==
  /\ pc = "unregister" /\ inside = {}
  /\ pc' = "halt"
  /\ UNCHANGED <<running, others, session, reset, eos, owed, retryVars, codecVars, captureVars>>

\* reset.setRunningMediaCodec(null)
Unregister ==
  /\ pc = "unregister" /\ inside = {}
  /\ running' = FALSE
  /\ pc' = "halt"
  /\ UNCHANGED <<others, session, reset, eos, owed, retryVars, codecVars, captureVars>>

\* capture.stop, mediaCodec.stop and reset.  stopAndRelease waits for the thread
\* of OpenGLRunner, which may have quit, or die of a runner that never started.
Halt ==
  /\ pc = "halt"
  /\ \/ /\ captured => runner = "null" \/ ~glQuit
        /\ runner' = IF captured THEN "null" ELSE runner
        /\ captured' = FALSE
        /\ codec' = "created" /\ eos' = FALSE
        /\ pc' = IF alive THEN "top" ELSE "release"
     \/ /\ captured
        /\ \/ runner # "null" /\ glQuit
           \/ runner = "failed"
        /\ pc' = "stuck"
        /\ UNCHANGED <<runner, captured, codec, eos>>
  /\ UNCHANGED <<others, session, reset, running, owed, retryVars, leak, info, registered,
                 glThread>>

\* mediaCodec.release and capture.release
Release ==
  /\ pc = "release"
  /\ codec' = "released"
  /\ registered' = FALSE
  /\ pc' = "done"
  /\ UNCHANGED <<others, session, reset, running, eos, owed, retryVars, leak, info, captured,
                 runner, glThread>>

-----------------------------------------------------------------------------
Monitor == Look \/ Compare \/ Record

Main == QuitGl \/ Exit

Steps ==
  \/ Create \/ InitCapture
  \/ Top \/ Prepare \/ SetSession
  \/ Configure \/ ConfigureFails \/ ConfigureDies \/ ConfigureStuck
  \/ Register \/ Check \/ Consume \/ After \/ EndOfStream
  \/ Unregister \/ Halt \/ Release

Resetters == {"monitor", "control", "main"}

Next ==
  \/ ChangeDisplay \/ Monitor \/ RequestInvalidate
  \/ StopEncoder \/ Main
  \/ \E thread \in Resetters : EnterReset(thread)
  \/ LeaveReset
  \/ Steps \/ Frame \/ EncodeFails

Spec == Init /\ [][Next]_vars

\* The threads are scheduled, and a codec told to end its stream does.  Frames,
\* failures, changes of the display, requests and the stop just happen.
Fairness ==
  /\ WF_vars(Steps) /\ WF_vars(Monitor) /\ WF_vars(Main) /\ WF_vars(LeaveReset)
  /\ \A thread \in Resetters : WF_vars(EnterReset(thread))

FairSpec == Spec /\ Fairness

-----------------------------------------------------------------------------
(* Properties.                                                             *)

Encoding == {"check", "consume", "encode", "after"}

Flags ==
  {stopped, glQuit, reset, running, eos, owed, alive, framed, registered, captured, glThread} \subseteq BOOLEAN

\* Types; the errors stay within their limit.
TypeOK ==
  /\ display \in Displays /\ changes \in Nat
  /\ events \in Nat /\ looked \subseteq Displays
  /\ monitor \in {"idle", "looked", "differs"} /\ session \in Displays
  /\ requests \in Nat /\ control \in {"running", "dead"}
  /\ main \in {"running", "stopping", "joining", "exited"}
  /\ asking \subseteq Resetters /\ inside \subseteq Resetters
  /\ pc \in {"create", "init", "top", "prepare", "session", "configure", "register",
             "unregister", "halt", "release", "done", "stuck"} \cup Encoding
  /\ maxSize \in Fallback \cup {0}
  /\ errors \in 0..MaxErrors
  /\ codec \in {"none", "created", "started", "released"} /\ leak \in {"no", "create", "init"}
  /\ info \in Displays
  /\ runner \in {"null", "started", "failed"}
  /\ Flags

\* No request is lost between two captures: when the thread waits for the
\* encoder's output and somebody asked for a reset since the display was last
\* read, the end of the stream is signalled, or about to be.
ResetHonoured == pc = "encode" /\ owed => eos \/ inside # {}

\* Another thread can only signal a codec that is started: it is unregistered
\* before it is stopped.
RegisteredIsStarted == running => codec = "started" /\ pc \in Encoding \cup {"unregister"}

\* Whatever made the thread end, the capture and the codec were released, except
\* a codec of the wrong type and that of a capture whose init throws.
ReleasedAtEnd ==
  pc = "done" =>
    /\ codec \in {"none", "released"} \/ leak # "no"
    /\ ~registered /\ ~captured /\ ~running

\* A reset requested makes the thread read the display again, or it has ended.
ResetHappens == owed ~> (~owed \/ pc \in {"done", "stuck"})

\* The main thread, once it stops the encoder, exits, unless the thread of the
\* encoder is stuck on the one of OpenGLRunner.
StopCompletes == main # "running" ~> (main = "exited" \/ pc = "stuck")

\* The capture is not retried for ever: failures without end need frames in
\* between.
RetriesGiveUp ==
  []<><<ConfigureFails \/ EncodeFails>>_vars => []<><<Frame \/ EndOfStream>>_vars

\* Resets, retries and the shutdown come to an end.
Progress == ResetHappens /\ StopCompletes /\ RetriesGiveUp

\* "a future onDisplayChanged() event called before the asynchronous prepare()
\* considers that the current size is the requested size": when no event and no
\* reset is pending, the size captured is the display's.  A statement of the
\* source that the model contradicts, like the next two: see the README.
SizeFollowed ==
  pc = "encode" /\ ~eos /\ events = 0 /\ monitor = "idle" /\ asking = {} /\ inside = {}
    => info = display

\* However streamCapture ends, "finally { mediaCodec.release();".
AlwaysReleased == pc = "done" => codec \in {"none", "released"}

\* "So force the process to exit explicitly": the server does exit once stopped.
StopAlwaysCompletes == main # "running" ~> main = "exited"

=============================================================================
