# cicy-agent-adr: TLA+ models, model checks and proofs

The repository holds two programs.

* **The agent app** (`app/src/main/java/com/cicy`, Kotlin): an Android service
  that answers JSON-RPC over HTTP, forwards requests to the WebView of its main
  activity, and talks to a websocket server.
* **A fork of scrcpy** (`scrcpy/`): the desktop client (`scrcpy/app`, C), which
  displays and controls a device, and the server it runs on the device
  (`scrcpy/server`, Java), to which the fork adds websocket servers for frames
  and commands.

The modules beside this file model the concurrent cores of both: what threads
share, in which order they may act, and what must hold whatever that order is.
TLC checks every module on small instances and TLAPS proves the main invariants
for every value of the constants. `PROJECT.json` relates each definition to the
lines of code it translates, each property to the hazards it is for, and each
property to a plausible bug ("mutant") that breaks it.

## 1. Inventory

| Part | State | Operations | Hard because | Correct when | Module |
|---|---|---|---|---|---|
| Agent RPC bridge: `LocalServer`, `MessageHandler`, `MainActivity` | pending callbacks, registered receivers, life cycles, the main looper's queue | `process`, broadcasts of requests and responses, `execJs`, `cleanup` | HTTP threads against the looper, several activities, a plain map shared without lock, no timeout | a call is resumed once, never forgotten silently | `RpcBridge` |
| Agent websocket client: `LocalWsServer` | connection and login flags, coroutines | connect, reconnect, ping, screenshots | check-then-act flags, loops that pile up | one connection, one ping loop | left for later |
| Agent recording and input services | MediaProjection, image reader, gesture state | start, stop, frames, gestures | life cycle against callbacks | nothing used after release | left for later |
| Client control queue: `controller.c` | bounded queue, `stopped`, thread | push, run, stop, join, destroy | condition variable, droppable against non-droppable messages | FIFO, no lost wake-up, nothing leaked | `Controller`, `ControlStream` |
| Client recorder: `recorder.c` | two packet queues, held packets, PTS origin | sinks open, push, close, disable; thread; stop | two producers, either may fail, config packets | increasing timestamps, success means complete | `Recorder` |
| Client paste synchronisation: `aoa_hid.c`, `acksync.c`, `receiver.c`, with the server's `Controller.setClipboard`, `DeviceMessageSender` | event queue, acknowledged sequence, HID devices | push, open, close, wait, ack, stop | two programs, timed wait, dropped messages | a paste never uses an old clipboard | `PasteSync` |
| Client launcher: `server.c`, `adb.c`, `adb_tunnel.c`, `intr.c`, `process.c` | adb process, tunnel, sockets, server process and its observer, `intr`, `stopped` | adb commands, tunnel open and close, execute, connect, watchdog, stop, join, destroy | every call blocks and may be interrupted by two other threads, any step may fail | a stop or a death always ends the wait, what is killed exists, nothing is left | `Launcher`, `Connection` |
| Client session: `main.c`, `scrcpy.c`, `scrcpy_otg.c` | which components are initialised, started and stopped | start, event loop, shutdown, with a failure at any step | order of stop, join and destroy among a dozen threads | nothing used after destroy, shutdown ends | `Session` |
| Client video pipeline: demuxer, packet merger, decoder, sinks, frame and delay buffers, `v4l2_sink.c`; `screen.c`, `display.c` | packet and frame in flight, mailboxes, window, texture, what is pending | push, consume, open, close; window events, shortcuts, drawing | latest-frame buffer with events, failing sinks, window changes told late | no frame lost for ever, sinks closed, a click hits the pixel | `Pipeline`, `Screen` |
| Client audio: `audio_player.c`, `audio_regulator.c`, `audiobuf.c` | ring with two cursors, `played`, `received`, `underflow` | push, pull | producer and consumer without lock, old samples dropped under one | FIFO, no sample overwritten, bounded latency | `AudioPlayer`, `SampleQueue`, composed in `Pipeline` |
| Client input: input manager, mouse capture, SDK, HID keyboard, mouse, gamepad, OTG screen | buttons known, virtual finger, HID keys, locks, slots | events of keyboard, mouse, touchscreen, gamepads; reports of the device | sequences of events, dropped messages, late lock reports | the device sees what is held down | `Input` |
| Client USB and OTG, file pusher, fps counter, timeout | worker threads | start, stop, request | threads with deadline or queue | stop always ends | partly (`Session`, `Pipeline`, `Input`); listing of devices and the queue of files left for later |
| Client command line: `cli.c` | options | parse, complete, refuse | none: sequential, but the checks of dozens of options interact | what other modules assert of the options holds | `CommandLine`; the icon is not modelled |
| Server surface encoder: `SurfaceEncoder`, `CaptureReset`, `DisplaySizeMonitor`, `ScreenCapture`, `OpenGLRunner`, `Server` | codec, capture, reset flag, display size | stream loop, reset, rotation, failures, shutdown | three threads reset, retries, asynchronous size | a reset is never lost, everything is released | `SurfaceEncoder` |
| Server websocket fork: `ControllerFrame`, `RecordingServer`, `SurfaceFrameEncoder`, `BaseWsServer` | client sets, image reader, loopers | connect, command, frame, stop | client sets shared by threads, loops that are never quit | stop ends, frames only to live clients | left for later |
| Server controller and pointers | pointers, UHID descriptors | touch, scroll, UHID | pointer identity across events | ACTION_UP for each DOWN | partly (`PasteSync`); pointers left for later |
| Server audio encoder | three threads, task queues | input, output, end | end of threads in any order | `waitEnded` returns | left for later |
| Server clean-up, options, device, other captures | | | mostly parsing and reflection on Android services | | not modelled |

The components interact as follows. In the agent, HTTP threads and the activity
only meet through broadcasts delivered by the main looper and through the
callback map. In the client, every worker thread owns a queue guarded by one
mutex and condition; the session starts them, waits in the SDL event loop, then
stops, joins and destroys them. The demuxers push packets to the recorder and
the decoder; user input is pushed to the controller or to the AOA queue; the
receiver reads what the device sends and releases the AOA thread through
`acksync`. On the device, the control thread calls `CaptureReset` and the device
message queue; the encoder thread reads the display through `ScreenCapture`.

## 2. Plan

Modules in the order in which they are written, the most important behaviour
first. Every module is written to be proved about: constants with named
assumptions, one action per operation, invariants as conjunctions of named
parts, no RECURSIVE operator.

1. `RpcBridge`: runs and proofs.
2. `Controller`, implementing the abstract `ControlStream`: runs, proofs, refinement proved.
3. `Recorder`: runs and proofs.
4. `PasteSync`: runs and proofs.
5. `SurfaceEncoder`: runs and proofs.
6. `Launcher`, implementing the abstract `Connection`: runs, proofs, refinement proved.
7. `CommandLine` and `Session`, which takes `Connection` as its environment: runs and proofs.
8. `AudioPlayer`, implementing the abstract `SampleQueue`, and `Pipeline`, which
   puts it beside the video threads: runs, proofs, refinement proved for `AudioPlayer`
   and, through it, for the audio of `Pipeline`.
9. `Screen`: runs and proofs.
10. `Input`: runs and proofs.

Left, in this order: `FrameServer`, the websocket fork of the server; `AgentClient` (LocalWsServer and RecordingService); the pointers of
the server's controller; the server's AudioEncoder; pure algorithms (size limits,
HID descriptors) against reference definitions.

## 3. Modules and code

### RpcBridge

`RpcBridge.tla` models HTTP threads (one per `Request`) and the main looper. The
looper is a FIFO of tasks; `LocalBroadcastManager` is modelled as the app uses
it: the receivers are fixed when a broadcast is sent, delivery happens from the
looper and skips receivers that were unregistered. `call` is where the HTTP
thread stands in `MessageHandler.process`: *putting* (inside the unsynchronised
`put`), *put*, *waiting*, *returned*. Putting and removing are two-phase, because
`pendingCallbacks` is a plain mutable map: an access that overlaps another one
may lose an entry, which `lost` records, or leave one that was taken, which `kept`
records (a `remove` or a `clear` while a `put` moves the entries to a larger table).
A second answer then finds the kept entry and resumes its call again: `resumeWith`
throws on the main looper and the app ends (`Crashed`). Activities and services are created and
destroyed at any time, `execJs` results return late or never (its activity may be
destroyed meanwhile), `cleanup` clears the map while calls wait.

### Controller and ControlStream

`Controller.tla` is `sc_controller`: push with its limit for droppable messages
and its reserve for the others, the thread that waits on the condition, sends and
destroys messages, stop, join and destroy. Push is one atomic action because the
code holds the mutex throughout; the send is outside the lock and is a state of
its own (*sending*). A wait is a state the thread leaves when signalled;
spurious wake-ups are an action. The controller owns the receiver: its thread ends
when its socket does, `sc_controller_stop` does not wake it, and `Join` waits for
both threads; `InterruptSocket` is what the server thread does to the control socket
once the session has stopped it too. `ControlStream.tla` is the abstract promise:
what was sent is a prefix of what was accepted. `StreamSpec` instantiates it.

### Recorder

`Recorder.tla` has the two demuxer threads (`PushPacket`, `CloseSink`, opening
and failing of a sink, `DisableSink`) and the recorder thread: header wait,
`TakePackets`, one action per branch of `sc_recorder_process_packets`, ending.
Packets are config packets or media packets with a PTS; `written` is the file.
`FixedPts` is the rescaling and the correction of timestamps, with a `Tick` that
makes different timestamps collide after rounding. `accepted` is history, and so is
`trailer`: writing it may fail, without which the file cannot be read, and the code
then clears the error and reports a success.

### PasteSync

`PasteSync.tla` follows one thing, the paste shortcut with `--keyboard=aoa`,
across the two programs: the event queue and thread of `aoa_hid.c`, the sequence
of `acksync.c`, the set-clipboard messages on the control channel, the server's
clipboard and its bounded device message queue, the receiver, the 500 ms timeout
and the stop. Clipboard contents are the sequence number of the set-clipboard
message they came with. The device acknowledges a clipboard also when it could not
set it, which `unset` records. An opening or a closing is pushed above the limit, but
above the `Reserve` of the queue there may be no memory for it: a gamepad then takes or
leaves its slot all the same, and `unannounced` records the openings that were lost;
an input carries whether its device had been announced when it was pushed. `opened`, `registered`, `unready` and `orphans` follow
the HID devices, with USB transfers that may fail.

### SurfaceEncoder

`SurfaceEncoder.tla` has the encoder thread (`pc` follows `streamCapture` and
`encode`), the display listener, the control thread that asks for a reset, the
main thread that stops all of them, `CaptureReset` with its synchronised section
(`asking`, `inside`), and the thread of `OpenGLRunner`. The display changes at
any time; `ScreenCapture.prepare` reads it and records it in two steps, as the
code does. The retry logic with its smaller sizes and its error count is modelled
whole; sizes are small numbers, `Fallback` the sizes the code falls back to. The codec
may be of another type than the stream's and the capture's `init` may throw, both before
the `try` whose `finally` releases: `leak` records which. A display listener that cannot
be registered leaves the encoder without notice of rotations, which is not fatal.

### Launcher and Connection

`Launcher.tla` is the thread that runs `run_server`, with the main thread that may
stop it and the observer thread that waits for the server's process. `step` is the
call the thread is at and `phase` where it stands in that call: created,
registered in `intr`, blocked, returned, unregistered, closed. The phases are the
same for all adb commands (with a pipe to read first for some) and for all
sockets, so one action each stands for them; what follows a call is one action per
branch of the code. `Follow` holds the branches that only depend on the result and
on data left open (which devices there are, whether TCP/IP mode is on). `Interrupt`
is `sc_intr_interrupt`, called by `Stop` and by `OnTerminated`. The parameters
(`--list-*`, TCP/IP address, forced forward, kill on close, streams) are chosen at
the start. An adb command that finds `intr` interrupted is neither awaited nor
reaped: its process leaves the model. `Connection.tla` is what the session may rely
on: one report, and an end after a failure, a listing or a stop. It does not
constrain `on_disconnected`, which comes as soon as the server's process ends, even
before the connection has succeeded or failed.

### CommandLine and Session

`CommandLine.tla` is `cli.c` as a function from arguments to options or a refusal:
one effect per argument, in the order of the switch of `parse_args_with_getopt`,
then the completion of the options, one group after the other (`Streams` to
`Sources`), and the combinations that are refused. An option is a field whose values are those that some check tells apart.

`Session.tla` is `main.c`, `scrcpy.c` and `scrcpy_otg.c`. The main thread follows a
table of steps <<verb, object>> (initialise, start, stop, join, destroy), one table
for mirroring and one for OTG; `at` is where it is in the table, and `Seek` skips the
steps that the options do not call for (`Needed`) or that undo nothing (`Due`, the
flags of the code). Any step may fail. The
other threads (server, controller, demuxers, recorder, AOA, USB events, timeout,
...) run, see the end of their stream, an unplugged device or a stop, post an event
or a runnable to the main thread, and end. The server thread reports once, as
`Connection` promises. `deadline` is the field the timeout thread reads, and
`asleep` the value it read.

### AudioPlayer and SampleQueue

`AudioPlayer.tla` has the thread of the audio decoder, which resamples a frame and
writes it, and SDL's audio thread, which pulls. Every step is a load of a cursor, a
copy, a publication of a cursor or a section under the mutex; the ring is an array
of sample numbers, so that a sample overwritten before it is read is seen. The
ring's size, the target and the sample rate are constants; the resampler returns
one sample more or less than it was given. `SampleQueue.tla` is the promise: the
samples come out in order, silence between them, none twice, and old ones are
dropped only while more than the target remains. `PlaysInOrder` in `Pipeline` is
that refinement.

### Pipeline

`Pipeline.tla` follows one stream through a graph of sinks (screen and V4L2, each
behind a delay buffer or not; the recorder as a sink that may fail; or the audio
player). Its threads are the demuxer (with the packet merger and the decoder), one
per delay buffer, the V4L2 thread, the FPS counter and the main thread, which
opens, shows, pauses, resumes and quits. `job` is the loop of
`sc_frame_source_sinks_push` of each thread that delivers frames, one sink at a
time; `mailbox` is `sc_frame_buffer`, a frame and whether it was consumed. Frames
are numbers. Calls of FFmpeg, SDL and the allocator may fail.

### Screen

`Screen.tla` is what `screen.c` and `display.c` do in the main thread. A handler is
an operator on the record `c` of the state it may change, composed of the functions
it calls, with the library call that fails during it, if any, in `failing`. The SDL
window is external: the user and the window manager resize, maximise, minimise or
leave full-screen it at any time, and the event that tells so comes later; SDL
refuses an empty size. `shown` is what was last presented: the frame, its orientation
and where it lies. `ScreenAssumption` says that frames, sizes given by the user and the
desktop are not empty (sc_screen_frame_sink_open refuses an empty frame). A click is
any pixel of the drawable inside the content.

### Input

`Input.tla` relates `host`, what the user holds, to `dev`, what the device was
told, through the input manager, the mouse capture, the SDK and HID processors, or
the OTG screen. A setting is a combination of modes together with the keys,
buttons and gamepads at hand. An event is an action; its circumstances (paused,
which modifiers, captured, inside the content or on a border) are remembered with
what is pressed. The device reports its locks over `outputs`, late. A message that
may be dropped is dropped when the queue is full. `excuses` records that a release
met other circumstances than its press, or that the queue was full: the code does
not promise a balanced state then, and the properties say which of them do not need
the excuse. `settled` follows the locks of a UHID keyboard: "yes" once a key that is
no lock was pressed when all reports were processed, "doubt" once a lock key is
released that the last report did not hold, because too many keys were pressed.

## 4. Runs

| Run | Instance | Distinct states | Shows |
|---|---|---|---|
| `RpcBridge` | 2 calls, 2 services, 2 activities, symmetric | 1.9 M | at most one resume unless a race kept the callback, no silent loss |
| `RpcBridgeLive` | 1 call, 2 services, 2 activities | 43 k | calls are answered or stranded in a named way; the home page is loaded |
| `Controller` | 3 droppable and 2 other messages, limit 2 | 96 k | FIFO refinement, nothing leaked, the queue drains, a stop ends with both threads joined |
| `Recorder` | 3 packets per stream, PTS up to 2, ticks of 2 | 660 k | `FileCorrect`: increasing timestamps, complete on success and the trailer attempted; `QueuesServed`: no lost wake-up, nothing left; the thread ends |
| `PasteSync` | 1 HID, 2 pastes, 3 events, AOA limit 1 and reserve 1, device queue 2 | 785 k | fresh pastes; `DevicesPaired`: an input finds its device, every device is unregistered; waits and stop end |
| `SurfaceEncoder` | 1 size and its fallback, 2 changes, 1 request, 2 errors | 699 k | resets honoured, release on every path but two that are named, retries give up, stop completes unless stuck in the OpenGL runner |
| `Launcher` | 2 ports, 2 attempts, every choice of parameters | 338 k | what is interrupted exists, nothing is left, one report, a stop or a death ends every wait |
| `Session` | every command line of at most 3 of 49 arguments; 9 of them followed | 29 k | options keep what is asserted of them; nothing used after destroy, nothing leaked, shutdown ends except during a listing, a lost device or stream is noticed |
| `Input` | 20 settings of up to 6 keys, 2 buttons, 3 gamepads; HID reports of 2 keys, 2 slots; one full queue | 282 k | what is released is released on the device, the input manager and the slots know what the device has, text is typed once, locks catch up |
| `Pipeline` | 6 graphs, of up to 3 frames, 1 configuration, 1 failing call, 2 commands; audio with a target of 2, a rate of 2 | 298 k | frames in order, the last one shown, no event without a frame, no push to a closed sink; samples in order with bounded latency; a stop ends |
| `Screen` | frames of 8x4 and 4x8, 4 of the orientations, HiDPI scale 2, 2 frames, 4 moves, 1 failing call | 2.1 M | a click hits its pixel, the window fits, the picture is current |
| `ScreenPending` | 3 frames, 1 move, 1 failing call | | violated, see below |

`Progress`, in each module that has one, is the conjunction of the module's
liveness properties, each stated and commented there.

`ScreenPending` expects a violation: display.c asserts that a size still pending has
no texture, but creating a texture later does not clear the pending size.
`findings` in `PROJECT.json` quotes the lines and tells the run.

Eleven more statements of the source are contradicted by the models. They are defined
in the modules, and no run of the list checks them; to see a counterexample, put the
statement in place of the properties of the module's `.cfg` (the two liveness
statements as a `PROPERTY`, the others as an `INVARIANT`):

* `RpcBridge!CleanupReleases`: `cleanup()` (MessageHandler.kt:139) promises to
  release resources, and leaves the receiver registered, since it unregisters
  another object.
* `RpcBridge!ResumedOnceAlways`: a continuation is resumed at most once, and a second
  `resumeWith` throws; the removal of a callback (MessageHandler.kt:53) that overlaps the
  put of another call (:81) on the unsynchronised map may leave it there for the answer
  of a second activity.
* `Recorder!SuccessReadable`: "Recording complete" is logged for a file whose trailer
  could not be written, because the failure sets `error = false` (recorder.c:447).
* `PasteSync!AcknowledgedIsSet`: "This allows to ensure that the device clipboard is set
  before injecting Ctrl+v on the device" (trait/key_processor.h:40-45) does not hold if
  the clipboard cannot be set (Device.java:113-117): the acknowledgement is sent all the
  same (Controller.java:595-610), and Ctrl+v pastes what was there before.
* `SurfaceEncoder!AlwaysReleased`: "finally { mediaCodec.release(); ..." does not cover
  `capture.init` (SurfaceEncoder.java:70), called before the `try`, nor a codec of the
  wrong type (:230).
* `Recorder!NoAssertFails`: `assert(video_pkt)` (recorder.c:366) fails when a config
  packet takes the place of the video packet while audio is awaited.
* `SurfaceEncoder!SizeFollowed` (with `Sizes = {2, 3}`): the size of
  the display is read and recorded in two steps (ScreenCapture.java:80); a rotation
  between them can leave the capture at the old size.
* `SurfaceEncoder!StopAlwaysCompletes`: the shutdown quits the OpenGL looper first,
  and the encoder may then wait for it for ever (OpenGLRunner.java:226), so the
  process never exits.
* `Session!TimeLimitEnds` (with `Launched <- MCTimed`): the timeout
  thread is created before its deadline is set (timeout.c:46). If it reads the
  deadline first, it reads the filling of a debug build and waits for ever, or the
  zero of a release build and ends the session at once.
* `Screen!RectNotEmpty` (with `Requests <- MCThin`): `assert(screen->rect.w &&
  screen->rect.h)` (screen.c:885) precedes a division by the size of the content's
  rectangle, but the quotient that gives this size is truncated (screen.c:187): a content
  wider than high has no height in a window that is too thin (`--window-width=1
  --window-height=4` for a frame of 8x4). No pixel is inside the content then, and
  `ClickHitsPixel` says nothing of it.
* `Input!FingerUntilRelease` (with `Settings <- MCPinch`): "until the left-click
  button is released" (input_manager.c:844) does not hold of the virtual finger
  once the display is paused between press and release (input_manager.c:802).

**Bounds.** Queue limits of 1 or 2 are reached and exceeded within the number of
messages allowed, so that empty, full and overfull queues all occur. Two actors
of each kind are enough for every pairwise race, and three droppable messages
for a queue at its limit while one is being sent. Two pastes are enough for the
late answer to the first to meet the wait for the second; a display changed
twice for a change that is overtaken by the next. The error limit of 2 lets a
retry succeed and fail. Two ports and two attempts are the first, the last and the
retry between them. `PasteSync`: with a limit of 1 and a reserve of 1, three events
fill the queue with an input, then an opening above the limit, and leave one that finds no
memory. `Session`: three arguments are enough for a pair of options that
conflict and one that changes which of them is completed; the sessions followed
differ in their components, and between them start all of them. `Input`: a report of
two keys overflows with three, two slots with three gamepads; the twenty settings
pair each mode with the keys that it treats differently. `Pipeline`: with three
frames one is being delivered, one waits in the mailbox or the delay buffer, and one
is shown; a ring of four samples wraps around, is full and is empty with frames of
one sample and requests of two, and sample numbers modulo 7 are more than it ever
holds. `Screen`: two frames of different sizes are a rotation of the device; the
desktop holds one of them only after a reduction; four moves leave full-screen while
maximised with a resize in flight; one failing call per behaviour. Every action of
each next-state relation is taken in some run. Deadlock checking is off where the
system ends: after stop, join and destroy nothing is left to do.

**Fairness.** `RpcBridgeLive`: the looper delivers its tasks, HTTP threads run,
and an `execJs` result of an activity alive arrives; life cycles are not fair.
`Controller`, `Recorder`: the worker thread is scheduled and its I/O returns
(closing the socket interrupts it); the receiver ends for certain only once its socket is
shut, and the socket is shut after a stop because the end of the session stops the
server before it joins anything (scrcpy.c:984-1043), and the server thread then
interrupts the sockets (server.c:1107-1122); join and destroy follow a stop. `PasteSync`:
the thread and the stop are fair; the deadline of a wait is a date that spurious
wake-ups do not postpone, hence strong fairness for it; nothing is assumed of the
server. `SurfaceEncoder`: threads are scheduled and a codec told to end its stream
delivers it; frames, failures, display changes, requests and the stop are not fair.
`Launcher`: the thread and the observer are scheduled, a call on a socket that was
shut down returns, and main joins the thread it stopped; adb, the server and the
other end of the sockets may stay silent for ever, so `StopEnds` and `DeathNoticed`
rest on the interruption alone. `Session`: the main thread and the threads told to
stop are scheduled, a stream whose device is gone ends, time passes, and a stopped
server ends, which is what `Connection` promises, unless it waits for the process of a
`--list-*` option: nothing interrupts that wait (server.c:1043), and `ShutdownEnds`
excepts it as `StopEnds` of `Launcher` does; a device may stay alive and a user
idle for ever. `Pipeline`: the threads are scheduled, a socket that was shut down
ends its stream, which is strongly fair because main may be between two calls, SDL
calls the audio thread while it plays, and the mutex of the audio regulator does not
starve the producer; the device, the user and the libraries that fail are not fair.
`Input` and `Screen` have safety properties only. The user never has to do anything
in any of them.

## 5. Proofs

All theorems are of the form `Spec => []P`, or the refinement, for every value of
the constants under the assumptions stated in the modules.

* `BridgeAndSessionProofs`, on the RPC bridge (any number of calls, services and activities; assumes
  `None` is not a call). `ResumedAtMostOnce` alone is not inductive: the
  strengthening `OneResumption` counts the resume tasks in the looper together
  with the entry in the map, for the calls whose callback no race kept, while
  `KeptAnswered` says that the others were answered at least once, `Receivers` says what broadcasts in the looper may
  name, and `Traced` says what is owed for each waiting call and each activity
  it was sent to: a request task, an evaluation, a response task or a resume
  task. `NotForgotten` follows from `Traced`.
* `ControllerProofs` (any set of messages, any limit). `Lifetime` relates the
  states of the two threads, and `Backlog` says that `accepted` is `sent`, then
  the message being sent, then the queue. The refinement to `ControlStream`
  follows from `Backlog`. For `FreedOnce`, `Custody` gives each accepted message
  one owner: the queue, the thread, or nobody once it was destroyed.
* `RecorderProofs` (any timestamps, any number of packets, any positive time base).
  `Increasing` is inductive given the types, because `FixedPts` looks at the last
  timestamp written. A success is complete because of `Balance`: what a stream
  accepted is what is written, the video frame whose duration is awaited, the frame
  held and the frames queued, counted; config packets count for nothing (lemmas on
  the frames of a sequence under `Tail` and `Append`). `Finished` says that the
  thread finishes with nothing held or queued, once stopped, so that nothing is
  accepted after it; `Ended` that a recorder that ended is stopped.
* `PasteSyncProofs` (any set of HIDs and any bounds). `Handled` is the last
  set-clipboard request that the device has handled. `Requests` says that those on the
  control channel follow it one by one, and that for each request up to it the clipboard
  is that one or a later one, or could not be set; `Acks` orders what travels back: the
  acknowledgements queued and received are at most `Handled`, ascending, and above the
  last one acknowledged. `FreshPaste` then follows from the comparison in
  `sc_acksync_wait`; lemmas on ascending sequences under `Tail` and `Append` carry the
  argument. For `DevicesPaired`, `InputsKnown` says that an announced input, or one that
  may still be pushed for an announced device, comes after the opening of its device with
  no closing between them, and `Tracked` that the thread knows what is registered, except
  what a failed USB transfer made it forget.
* `SurfaceEncoderProofs` (any sizes, any positive error limit). `Owed` says where
  an unread reset request can be (flag set, thread inside `reset`, or codec
  already signalled), `Holds` which resources are held at each place of the
  loop, `ErrorsLeft` that the loop goes on only below the limit.
* `LauncherProofs` (any port range, any positive number of attempts). The
  properties speak of the last place or of what is registered; the strengthening
  says for each place of the thread which of the process, the observer, the tunnel,
  the sockets and the report exist there (`Children`, `Tunnel`, `Streams`,
  `Reported`), and `Registered` that what blocks is what was created for it.
  `SubjectCreated` is the key lemma: a call never registers a socket that is gone.
  The refinement to `Connection` follows from `Reported`.
* `PipelineProofs`, on the audio player (any target, sample rate, frame and request
  sizes; assumes that a frame is shorter than a second and that there are enough labels
  to tell the samples in flight apart). The lemmas on cursors (`HeadMoves`, `TailMoves`,
  `Beyond`, `Apart`) turn the arithmetic modulo the size into a distance; `Publish`
  and `Discard` say that moving the writer's cursor appends to the queue what was
  copied, and moving the reader's takes samples out. `Room` says that what the
  producer copied lies in free slots, `Numbered` that what it holds continues the
  samples published, `Locked` that the samples the consumer is copying stay where
  they are until it moves its cursor, because only a holder of the mutex moves it
  otherwise. `LatencyBounded` follows from `Room` and `Bounded`, the refinement to
  `SampleQueue` from the effect of each action on the queue.
* `PipelineProofs`, on the pipeline (any graphs of sinks and limits; `GraphsAssumption`
  gives the fields of a graph their types and says that a video is decoded for the
  screen or for V4L2, as `scrcpy.c` builds the pipelines). None of the three properties is inductive. For
  `ConsumeFindsFrame`, the invariant counts the announcements of a mailbox: its event
  or its wake-up, and the thread that filled the mailbox and has yet to tell, are
  together as many as the frame that is not consumed, although the mailbox is filled
  under its own mutex and the consumer told outside of it. For
  `NothingPushedAfterClose`, it says which thread delivers to which sink (the demuxer
  until the delay buffer has a frame, then the thread of the buffer), and that a sink
  is closed only by the thread that delivers to it, or after that one was joined. For
  `FramesInOrder`, the frames on their way to a sink are in ascending order along the
  path decoder, delay buffer, mailbox, frame kept during a pause, frame shown.
  `PipelinePlaysAudio` is composition: every step of a pipeline is a step of
  `AudioPlayer` or leaves its variables alone, so that `LatencyBounded` and
  `PlaysInOrder` hold of a pipeline for every value of the constants.
* `InputProofs` (any options, shortcut modifiers, sizes of reports and of the pool of
  slots; `InputAssumption` says which options `cli.c` and the processors accept).
  `InjectedHeld` explains each key injected by a key or a button that the user holds,
  with the circumstances of its press; `ReportHeld` relates the keys that the HID
  keyboard knows, its last report and the keys pressed outside of shortcuts;
  `ButtonsHeld` says that a button known pressed was pressed where clicks are
  forwarded, and that the virtual finger comes with the left button alone. An event
  that meets the circumstances of the press then undoes what the press did, and any
  other one leaves an excuse; `NothingStuck` and `DeviceFollows` follow. `LocksFollowed`
  says where the locks of the device can be read: in its last report or, without one,
  in what the keyboard believes, unless a lock key is pressed or in doubt. `PadsMatch`
  is inductive with the fact that the first free slot is unique (`SlotFacts`), and
  `TypedOnce` because `convert_keycode` and `process_text` exclude each other
  (`KeyKeepsTyped`). Each invariant was first checked by TLC on the sessions of the
  run and on larger ones.

* `InputProofs`, on the screen (any sizes of frames, window and desktop, any margins
  and scale, any number of frames, moves and failing calls; `ScreenAssumption`). The
  handlers are operators on a record, so each function of the code has lemmas of its
  own: what it leaves alone, and which part of the invariant it restores. `Follows`, for
  the two states of the window that events tell, relates what the screen was told to the
  state of the window and the last event still queued: an event lost or overtaken would
  break it (`LastExists` takes that last event by the well-foundedness of the natural
  numbers). `Fit` adds when a resize may be pending and when the window keeps the aspect
  ratio of the content; it is inductive because an optimal size stays one when it is
  computed again, for any rounding (`DivideNat` turns a quotient into its bounds).
  `WindowFits` is `Fit` with an empty queue. `Centered` says that the rectangle of the
  content is computed for the window as it is, or that an event "size" will have it
  computed; `Painted` and `Timely` that, as long as no call fails, nothing stays pending
  and the texture, what is shown and what a pause holds back are the last frame;
  `PictureCurrent` follows. `Composed` proves that composing two of the eight orientations
  is turning by one and then by the other, so that the view is the one the user asked
  for (`Tracked`); with the bounds of the two divisions (`NearAxis`) this gives
  `ClickHitsPixel` for every pixel, orientation and size.

* `BridgeAndSessionProofs`, on a session (any arguments, any command lines of any length
  that are accepted, any step of the start that fails). The options are the value of a
  recursive function of the arguments: `AllFromZero` gives induction on the natural
  numbers from the existence of a least one (`LeastExists`), stated over sets and not over
  an operator, and `GivenRegular` follows it along the arguments. The completions, each
  with a lemma that says what it establishes and leaves, and the refusals then give
  `AcceptedOptions`, from which `AssertionsHold` follows. For the other two,
  `SessionInvariant` ties the state to the place in the table: while main starts or loops,
  a component is ready exactly if its step is past and called for (`Starting`); while it
  ends, what should be joined and destroyed before `at` is (`Finishing`), the four
  components of AOA being undone on the spot unless their thread was started.
  `InitAt`, `StartAt`, `JoinAt` and `DestroyAt` are the places, proved from the tables;
  `JoinedBeforeDestroyed` is the order the code relies on. The theorems of the two parts
  of this module share nothing but those of the library: one is proved without any
  assumption on the other's constants.

Two statements of `Screen` were corrected by the proof: an empty size was accepted by the
window, where SDL refuses it, and a click was tried at the corners of the content only,
where every pixel is now.

Reasoning about `Session` removed three accidents of the model: alternatives of the
event awaited from the server, of what undoes a failed step and of what is due at the
end overlapped, so that their meaning rested on the order in which TLC reads them; OTG
mode, whose code looks at neither `--list-displays` nor `--no-window`, obeyed both; and the
assertions of OTG mode were not claimed when a listing is asked for too.

Four claims about `Input` that the runs had let pass did not survive the proof, each
confirmed by a session of the run since:

* A HID report holds the modifiers of its own event. A modifier reported with another
  key, then released as part of a shortcut, stays pressed on the device until the next
  report: an excuse of its own (`KeyExcuse`, session `{a, lctrl, lalt}`).
* "will re-synchronize on next key press or HID output anyway" (keyboard_uhid.c:44)
  does not hold after a rollover: a lock key that is released when the report is the
  phantom state does not change the lock of the device, while `device_mod` is toggled.
  A further key does not repair it: only the next report of the device, or the next
  lock key, does. `LocksCatchUp` excepts that state (session `{a, h, caps}`).
* A lock key handled as a shortcut changes the locks of the computer: the model took
  the locks for settled (session `{a, lalt, caps}`).
* Pausing excused more than it explains: it now only matters to an event that would
  otherwise reach the device, which makes `NothingStuck` stronger.

Some theorems state invariants that no run lists any more, because a stronger
property or the proof itself covers them: the type invariants of seven of the modules,
`CallbacksAwaited`, `NonDroppableKept`, `NoLostWakeup` of `Controller` and of
`PasteSync`, `AckMonotonic` and `RegisteredIsStarted`. They hold for every value of
the constants, those of the runs included.

Only model-checked:

* liveness, and so the properties `Progress`, `StopEnds`, `LossNoticed`,
  `ShutdownEnds`, `LastFrameShown` and `PlaybackStarts`: it is out of the prover's
  reach, as is ENABLED.

The library's theorems of induction take an operator that the installed provers cannot
instantiate. For `Given`, the one recursive function of the models, `AllFromZero` does
without, over a set of numbers.

## 6. Not modelled

What RPC methods, gestures and captures do to Android; the layout of messages,
files and windows; what adb prints; USB and socket I/O except as failures that can
happen; the parsing of option values and the help text; key repetition, scroll
amounts and the axes of gamepads; the floating-point estimates of the audio clock
compensation and of `clock.c`, so that a delay buffer releases a frame at any time;
the icon and the OpenGL filters. The components that are listed as left for later
are in `PROJECT.json` with what they hold. Data races on plain flags are modelled
where they decide something (`RpcBridge`, `Session`), not as torn values.

Simplified, where the properties do not depend on it: `Pipeline` hands config packets to
the decoder's side only, not to the recorder (which `Recorder` models with its own
packets); the push of the audio regulator does not fail; `Screen` always keeps a frame
received during a pause, and `Input` always opens a gamepad that has a slot, without
failures of memory or USB; the target of `AudioPlayer` is positive, so that
`--audio-buffer=0` is left out; an `adb reverse` interrupted after it took effect is not
counted as a tunnel by `Launcher`, since the client does not know of it either.

Met while reading, and stated by no property: `display.c:199` returns an enumeration
where its caller takes a boolean; the video sink of the recorder may open after the
output file failed to open (`recorder.c:559`); `on_disconnected` may come before
`on_connected` (`server.c:754`, which `Connection` therefore allows); an interrupted
adb command is not reaped (`adb.c:186`); a reset that comes before the capture is
initialised has no listener to call (`SurfaceCapture.java:25`); a capture that fails
to start leaves its OpenGL runner (`ScreenCapture.java:127`); `acksync` is destroyed
before the AOA thread is joined (`scrcpy.c:980`).
