------------------------------ MODULE Session ------------------------------
(***************************************************************************)
(* A run of the client (main.c, scrcpy.c, usb/scrcpy_otg.c): its main       *)
(* thread initialises the components that the options call for, starts      *)
(* their threads, waits for the event that ends the session, then stops,    *)
(* joins and destroys them.  Any step of the start may fail; then only what *)
(* was done is undone.                                                      *)
(*                                                                          *)
(* The main thread follows a table of steps <<verb, object>>.  The other    *)
(* threads only run and end here; what each does is in its own module, and  *)
(* what the server thread promises is in Connection.                        *)
(***************************************************************************)
EXTENDS CommandLine

CONSTANTS
  Arguments,  \* arguments that may be typed
  MaxArgs,    \* how many of them
  Launched    \* command lines whose session is followed to its end

ASSUME SessionAssumption ==
  /\ MaxArgs \in Nat /\ Launched \subseteq Seq(Arguments)
  /\ \A args \in Launched : Accepted(args)

VARIABLES
  options,   \* the options, once parsed
  debug,     \* built without NDEBUG
  main,      \* parsed, refused, starting, looping, ending, done, crashed
  at,        \* where the main thread is in the table it follows to start or to end
  failed,    \* the step of the start that failed, or NoStep
  life,      \* of each component: none, ready, gone
  thread,    \* each thread: none, running, over, joined
  stopped,   \* components told to stop
  told,      \* what the server thread reported: nothing, connected, failed
  device,    \* alive, dead
  elapsed,   \* the time limit is past
  deadline,  \* of sc_timeout: unset, set
  asleep,    \* what the timeout thread waits for: nothing, unset, set
  events,    \* SDL events pushed and not polled yet
  runnables  \* new runnables: accepted, rejected

sharedVars == <<life, stopped, deadline>>
worldVars  == <<device, elapsed>>
sessionVars == <<options, debug, main, at, failed, sharedVars, thread, told, worldVars,
                 asleep, events, runnables>>

Components == {"server", "pusher", "recorder", "controller", "acksync", "usb", "handle",
               "aoa", "screen", "v4l2", "timeout"}
Threads == {"server", "video", "audio", "recorder", "controller", "receiver", "aoa",
            "timeout", "pusher", "fps", "usbev"}
NoStep == <<"none", "none">>
StreamThreads == {"video", "audio", "controller", "receiver"}

Server == INSTANCE Connection WITH
  lists <- options.list, stopped <- "server" \in stopped,
  ended <- thread["server"] \in {"over", "joined"}

-----------------------------------------------------------------------------
(* The tables                                                              *)

UsesAoa(o) == o.control /\ "aoa" \in {o.keyboard, o.mouse, o.gamepad}

\* What the options call for; the threads of a component go with it.  All that the
\* table of OTG mode does is called for.
Needed(object, o) ==
  \/ o.otg
  \/ CASE object = "sdl"        -> ~o.list
       [] object = "pusher"     -> o.videoPlayback /\ o.control /\ ~o.list
       [] object = "recorder"   -> o.record # "none" /\ ~o.list
       [] object = "controller" -> o.control /\ ~o.list
       [] object \in {"acksync", "usb", "handle", "aoa", "hid"} -> UsesAoa(o) /\ ~o.list
       [] object = "uhid"       -> "uhid" \in {o.keyboard, o.mouse} /\ o.control /\ ~o.list
       [] object = "screen"     -> o.window /\ ~o.list
       [] object = "v4l2"       -> o.v4l2 /\ ~o.list
       [] object = "video"      -> o.video /\ ~o.list
       [] object = "audio"      -> o.audio /\ ~o.list
       [] object = "timeout"    -> o.timeLimit /\ ~o.list
       [] OTHER                 -> TRUE

MirrorStart ==
  << <<"init", "server">>, <<"start", "server">>, <<"init", "sdl">>, <<"await", "server">>,
     <<"init", "pusher">>, <<"init", "recorder">>, <<"start", "recorder">>,
     <<"init", "controller">>, <<"init", "acksync">>, <<"init", "usb">>, <<"select", "usb">>,
     <<"init", "handle">>, <<"init", "aoa">>, <<"init", "hid">>, <<"start", "aoa">>,
     <<"init", "uhid">>, <<"start", "controller">>, <<"init", "screen">>, <<"init", "v4l2">>,
     <<"start", "video">>, <<"start", "audio">>,
     <<"init", "timeout">>, <<"start", "timeout">>, <<"set", "timeout">> >>

OtgStart ==
  << <<"init", "usb">>, <<"select", "usb">>, <<"init", "handle">>, <<"init", "aoa">>,
     <<"init", "hid">>, <<"start", "aoa">>, <<"init", "screen">> >>

StartTable(o) == IF o.otg THEN OtgStart ELSE MirrorStart

StepsOf(table) == {table[i] : i \in DOMAIN table}
CalledFor(o)   == {step \in StepsOf(StartTable(o)) : Needed(step[2], o)}

\* The first step to take from the i-th one on, or the end of the table.
Seek(table, i, taken) ==
  CHOOSE j \in i .. Len(table) + 1 :
    /\ j <= Len(table) => table[j] \in taken
    /\ \A k \in i .. j - 1 : table[k] \notin taken

\* Mutant: the AOA steps that fail undo nothing.
UndoNothing(step) == {}

\* What is destroyed on the spot when a step fails, before jumping to the end.
Undo(step) ==
  IF options.otg THEN {}
  ELSE CASE step = <<"init", "usb">>    -> {"acksync"}
         [] step = <<"select", "usb">>  -> {"usb"}
         [] step = <<"init", "handle">> -> {"usb", "acksync"}
         [] step = <<"init", "aoa">>    -> {"handle", "usb", "acksync"}
         [] step \in {<<"init", "hid">>, <<"start", "aoa">>} ->
              {"acksync", "handle", "usb", "aoa"}
         [] OTHER -> {}

MirrorTable ==
  << <<"stop", "timeout">>, <<"stop", "aoa">>, <<"stop", "usb">>, <<"destroy", "acksync">>,
     <<"stop", "controller">>, <<"stop", "pusher">>, <<"stop", "recorder">>,
     <<"stop", "screen">>, <<"stop", "server">>,
     <<"join", "timeout">>, <<"destroy", "timeout">>,
     <<"join", "video">>, <<"join", "audio">>, <<"destroy", "v4l2">>,
     <<"join", "aoa">>, <<"destroy", "aoa">>, <<"join", "usbev">>,
     <<"destroy", "handle">>, <<"destroy", "usb">>,
     <<"join", "fps">>, <<"destroy", "screen">>,
     <<"join", "controller">>, <<"join", "receiver">>, <<"destroy", "controller">>,
     <<"join", "recorder">>, <<"destroy", "recorder">>,
     <<"join", "pusher">>, <<"destroy", "pusher">>,
     <<"join", "server">>, <<"destroy", "server">> >>

\* Mutants: the video demuxer is not joined; the server is not stopped.
MirrorEndUnjoined  == SelectSeq(MirrorTable, LAMBDA s : s # <<"join", "video">>)
MirrorEndUnstopped == SelectSeq(MirrorTable, LAMBDA s : s # <<"stop", "server">>)
MirrorEnd == MirrorTable

\* The window of OTG mode (sc_screen_otg) is not destroyed.
OtgEnd ==
  << <<"stop", "aoa">>, <<"stop", "usb">>, <<"join", "aoa">>, <<"destroy", "aoa">>,
     <<"join", "usbev">>, <<"destroy", "handle">>, <<"destroy", "usb">> >>

\* The thread that a component runs, if it is not named after it.
ThreadOf(c) == CASE c = "screen" -> "fps" [] c = "usb" -> "usbev" [] OTHER -> c

\* The flags that guard the steps of the end: xxx_initialized or xxx_started.
Due(step, alive) ==
  \/ /\ step[1] = "stop"
     /\ IF step[2] \in {"screen", "recorder"} THEN alive[step[2]] = "ready"
        ELSE thread[ThreadOf(step[2])] # "none"
  \/ step[1] = "join" /\ thread[step[2]] # "none"
  \/ /\ step[1] = "destroy"
     /\ IF ~options.otg /\ step[2] \in {"acksync", "aoa", "handle", "usb"}
        THEN thread["aoa"] # "none" ELSE alive[step[2]] = "ready"

EndTable(o)     == IF o.otg THEN OtgEnd ELSE MirrorEnd
DueSteps(alive) == {step \in StepsOf(EndTable(options)) : Due(step, alive)}

\* The end is reached.
GoToEnd(alive) ==
  /\ at' = Seek(EndTable(options), 1, DueSteps(alive))
  /\ main' = IF at' > Len(EndTable(options)) THEN "done" ELSE "ending"

\* What a thread reads or writes as long as it runs.
Uses(t) ==
  CASE t = "video"    -> {c \in {"screen", "recorder", "v4l2"} : Needed(c, options)}
    [] t = "audio"    -> {c \in {"recorder"} : Needed(c, options)}
    [] t = "receiver" -> {"controller"} \cup {c \in {"acksync"} : Needed(c, options)}
    [] t = "aoa"      -> {"aoa", "usb", "handle"} \cup IF options.otg THEN {} ELSE {"acksync"}
    [] t = "fps"      -> {"screen"}
    [] t = "usbev"    -> {"usb", "handle"}
    [] OTHER          -> {t}

-----------------------------------------------------------------------------
SessionInit ==
  /\ \E n \in 0..MaxArgs : \E args \in [1..n -> Arguments] \cup Launched :
       /\ options = Parse(args)
       /\ main = IF ~Accepted(args) THEN "refused"
                 ELSE IF args \in Launched THEN "starting" ELSE "parsed"
       /\ at = IF args \in Launched THEN 1 ELSE 0
  /\ debug \in IF main = "starting" /\ options.timeLimit THEN BOOLEAN ELSE {TRUE}
  /\ failed = NoStep
  /\ life = [c \in Components |-> "none"] /\ thread = [t \in Threads |-> "none"]
  /\ stopped = {} /\ told = "nothing"
  /\ device = "alive" /\ elapsed = FALSE
  /\ deadline = "unset" /\ asleep = "nothing"
  /\ events = {} /\ runnables = "accepted"

\* sc_push_event: nothing polls the events once the event loop is left.
Pushed(S) == IF main \in {"starting", "looping"} THEN events \cup S ELSE events

-----------------------------------------------------------------------------
(* The main thread                                                         *)

Step   == IF main = "starting" THEN StartTable(options)[at] ELSE EndTable(options)[at]
Verb   == Step[1]
Object == Step[2]
mainFrame == UNCHANGED <<options, debug, told, worldVars, asleep, runnables>>

Advance ==
  /\ at' = Seek(StartTable(options), at + 1, CalledFor(options))
  /\ main' = IF at' > Len(StartTable(options)) THEN "looping" ELSE main
  /\ UNCHANGED failed

InitComponent ==
  /\ main = "starting" /\ Verb \in {"init", "select"}
  /\ life' = IF Object \in Components /\ Verb = "init"
             THEN [life EXCEPT ![Object] = "ready"] ELSE life
  \* sc_usb_connect runs a thread if there are callbacks and hotplug events.
  /\ thread' \in {thread} \cup IF Object = "handle" /\ options.otg
                               THEN {[thread EXCEPT !["usbev"] = "running"]} ELSE {}
  /\ Advance /\ mainFrame /\ UNCHANGED <<stopped, deadline, events>>

StartThread ==
  /\ main = "starting" /\ Verb = "start"
  /\ thread' = [t \in Threads |->
       IF t = Object \/ (t = "receiver" /\ Object = "controller") THEN "running" ELSE thread[t]]
  /\ Advance /\ mainFrame /\ UNCHANGED <<sharedVars, events>>

\* The end of sc_timeout_start: the thread already runs.
SetDeadline ==
  /\ main = "starting" /\ Verb = "set"
  /\ deadline' = "set"
  /\ Advance /\ mainFrame /\ UNCHANGED <<life, stopped, thread, events>>

\* await_for_server discards the other events; a listing ends there.
Await ==
  /\ main = "starting" /\ Verb = "await"
  /\ \E e \in events :
       /\ events' = events \ {e}
       /\ IF e \notin {"quit", "failed", "connected"} THEN UNCHANGED <<main, at, failed>>
          ELSE IF e = "connected" /\ ~options.list THEN Advance
          ELSE GoToEnd(life) /\ failed' = Step
  /\ mainFrame /\ UNCHANGED <<sharedVars, thread>>

\* goto end, or return when there is nothing to undo
StepFails ==
  /\ main = "starting" /\ Verb \in {"init", "select", "start"}
  /\ failed' = Step
  /\ life' = [c \in Components |->
       IF c \in Undo(Step) /\ life[c] = "ready" THEN "gone" ELSE life[c]]
  /\ GoToEnd(life')
  /\ mainFrame /\ UNCHANGED <<stopped, deadline, thread, events>>

Ending ==
  IF options.otg THEN {"usb disconnected", "aoa error", "quit"}
  ELSE {"disconnected", "demuxer error", "controller error", "recorder error", "aoa error",
        "time limit", "quit"}

\* Mutant: runnables are still accepted once the last ones have run.
LeaveLoopOpen ==
  /\ main = "looping" /\ events \cap Ending # {}
  /\ GoToEnd(life)
  /\ events' = {}
  /\ UNCHANGED <<options, debug, failed, sharedVars, thread, told, worldVars, asleep, runnables>>

\* event_loop, then terminate_event_loop: runnables are refused, those posted run.
LeaveLoop ==
  /\ main = "looping" /\ events \cap Ending # {}
  /\ GoToEnd(life)
  /\ runnables' = "rejected"
  /\ events' = {}
  /\ UNCHANGED <<options, debug, failed, sharedVars, thread, told, worldVars, asleep>>

RunRunnable ==
  /\ main = "looping" /\ "runnable" \in events
  /\ events' = events \ {"runnable"}
  /\ mainFrame /\ UNCHANGED <<main, at, failed, sharedVars, thread>>

\* A file is dropped on the window; the fps counter is turned on: the thread is
\* started the first time.
StartLazily(t) ==
  /\ main = "looping" /\ thread[t] = "none"
  /\ \/ t = "pusher" /\ life["pusher"] = "ready"
     \/ t = "fps" /\ options.videoPlayback /\ ~options.otg
  /\ thread' = [thread EXCEPT ![t] = "running"]
  /\ mainFrame /\ UNCHANGED <<main, at, failed, sharedVars, events>>

Finish ==
  /\ at' = Seek(EndTable(options), at + 1, DueSteps(life))
  /\ main' = IF at' > Len(EndTable(options)) THEN "done" ELSE main
  /\ mainFrame /\ UNCHANGED <<failed, deadline, events>>

StopComponent ==
  /\ main = "ending" /\ Verb = "stop"
  /\ stopped' = stopped \cup {Object}
  /\ Finish /\ UNCHANGED <<life, thread>>

JoinThread ==
  /\ main = "ending" /\ Verb = "join" /\ thread[Object] = "over"
  /\ thread' = [thread EXCEPT ![Object] = "joined"]
  /\ Finish /\ UNCHANGED <<life, stopped>>

DestroyComponent ==
  /\ main = "ending" /\ Verb = "destroy"
  /\ life' = [life EXCEPT ![Object] = "gone"]
  /\ Finish /\ UNCHANGED <<stopped, thread>>

MainStep ==
  \/ InitComponent \/ StartThread \/ SetDeadline \/ Await \/ LeaveLoop \/ RunRunnable
  \/ StopComponent \/ JoinThread \/ DestroyComponent

-----------------------------------------------------------------------------
(* The other threads                                                       *)

threadFrame == UNCHANGED <<options, debug, main, at, failed, sharedVars, worldVars, runnables>>

\* `t` returns after it has pushed the events S.
Return(t, S) ==
  /\ thread[t] = "running"
  /\ thread' = [thread EXCEPT ![t] = "over"]
  /\ events' = Pushed(S)
  /\ threadFrame

Connect ==
  /\ thread["server"] = "running" /\ device = "alive"
  /\ thread' = [thread EXCEPT !["server"] = IF options.list THEN "over" ELSE @]
  /\ told' = "connected" /\ events' = Pushed({"connected"})
  /\ threadFrame /\ UNCHANGED asleep
  /\ Server!Connect

Fail ==
  /\ told' = "failed" /\ Return("server", {"failed"}) /\ UNCHANGED asleep
  /\ Server!Fail

EndServer ==
  /\ UNCHANGED <<told, asleep>> /\ Return("server", {}) /\ Server!End

\* The sockets are shut down by the server thread, or by the device.
SocketsOver == device = "dead" \/ thread["server"] # "running"

\* Mutant: the end of a stream is not reported.
EndOfStreamSilent(t) ==
  t \in StreamThreads /\ SocketsOver /\ Return(t, {}) /\ UNCHANGED <<told, asleep>>

\* sc_demuxer_callbacks and sc_controller_callbacks
EndOfStream(t) ==
  /\ t \in StreamThreads /\ SocketsOver
  /\ \E e \in {"disconnected", IF t \in {"video", "audio"} THEN "demuxer error"
                               ELSE "controller error"} : Return(t, {e})
  /\ UNCHANGED <<told, asleep>>

StreamFails(t) ==
  /\ \/ t \in {"video", "audio"} /\ Return(t, {"demuxer error"})
     \/ t = "receiver" /\ Return(t, {"controller error"})
     \/ t = "recorder" /\ Return(t, {"recorder error"})
     \/ t = "aoa" /\ Return(t, {"aoa error"})
  /\ UNCHANGED <<told, asleep>>

\* The device has no audio to send.
AudioDisabled ==
  /\ Return("audio", IF options.requireAudio THEN {"demuxer error"} ELSE {})
  /\ UNCHANGED <<told, asleep>>

\* Threads that end when they are told to.
Obey(t) ==
  /\ \/ t \in {"recorder", "controller", "aoa", "pusher"} /\ t \in stopped
     \/ t = "fps" /\ "screen" \in stopped
     \/ t = "usbev" /\ "usb" \in stopped
  /\ Return(t, IF t = "controller" THEN {"disconnected"} ELSE {})
  /\ UNCHANGED <<told, asleep>>

\* The receiver posts a runnable, which the event filter may reject.
PostRunnable ==
  /\ thread["receiver"] = "running" /\ runnables = "accepted"
  /\ events' = events \cup {"runnable"}
  /\ threadFrame /\ UNCHANGED <<thread, told, asleep>>

\* run_timeout reads the deadline before it waits.
ReadDeadline ==
  /\ thread["timeout"] = "running" /\ asleep = "nothing"
  /\ asleep' = deadline
  /\ threadFrame /\ UNCHANGED <<thread, told, events>>

\* Without a deadline: a debug build has filled it with a distant value, a
\* release build with zero; a callback that is not set either is not a function.
TimeOut ==
  /\ \/ asleep = "set" /\ elapsed
     \/ asleep = "unset" /\ ~debug
     \/ asleep # "nothing" /\ "timeout" \in stopped
  /\ IF deadline = "set"
     THEN Return("timeout", {"time limit"})
     ELSE /\ thread["timeout"] = "running" /\ main' = "crashed"
          /\ UNCHANGED <<options, debug, at, failed, sharedVars, worldVars, runnables,
                         thread, events>>
  /\ UNCHANGED <<told, asleep>>

\* The OTG device is unplugged: the hotplug callback, or the AOA thread whose
\* transfer fails, notifies it once, if there are callbacks.
Unplugged(t) ==
  /\ device = "dead" /\ thread[t] = "running" /\ t \in {"usbev", "aoa"}
  /\ events' = IF options.otg THEN Pushed({"usb disconnected"}) ELSE events
  /\ thread' = IF t = "aoa" THEN [thread EXCEPT !["aoa"] = "over"] ELSE thread
  /\ threadFrame /\ UNCHANGED <<told, asleep>>

Thread ==
  \/ EndServer \/ ReadDeadline \/ TimeOut
  \/ \E t \in Threads : EndOfStream(t) \/ Obey(t) \/ Unplugged(t)

-----------------------------------------------------------------------------
(* The device, the user and time                                           *)

DeviceDies ==
  /\ device = "alive" /\ main \in {"starting", "looping"} /\ device' = "dead"
  /\ UNCHANGED <<options, debug, main, at, failed, sharedVars, thread, told, elapsed,
                 asleep, events, runnables>>

Quit ==
  /\ main \in {"starting", "looping"} /\ events' = events \cup {"quit"}
  /\ UNCHANGED <<options, debug, main, at, failed, sharedVars, thread, told, worldVars,
                 asleep, runnables>>

Elapse ==
  /\ deadline = "set" /\ elapsed' = TRUE
  /\ UNCHANGED <<options, debug, main, at, failed, sharedVars, thread, told, device,
                 asleep, events, runnables>>

Running == main \notin {"refused", "parsed", "done", "crashed"}

SessionNext ==
  /\ Running
  /\ \/ MainStep \/ StepFails
     \/ Connect \/ Fail \/ Thread
     \/ AudioDisabled \/ PostRunnable
     \/ DeviceDies \/ Quit \/ Elapse
     \/ \E t \in Threads : StartLazily(t) \/ StreamFails(t)

SessionSpec == SessionInit /\ [][SessionNext]_sessionVars

\* The scheduler runs every thread that can take a step.  The server may take
\* for ever to connect until it is stopped, the process of a --list-* option
\* even then (server.c:1043, Launcher!StopEnds), and nobody has to quit.  Events are polled in the order they are pushed: one that ends the
\* session is not overtaken for ever.
SessionFairSpec ==
  /\ SessionSpec
  /\ WF_sessionVars(Running /\ MainStep) /\ WF_sessionVars(Running /\ LeaveLoop)
  /\ WF_sessionVars(Running /\ EndServer)
  /\ WF_sessionVars(Running /\ "server" \in stopped /\ ~options.list /\ Fail)
  /\ WF_sessionVars(Running /\ ReadDeadline)
  /\ WF_sessionVars(Running /\ TimeOut) /\ WF_sessionVars(Running /\ Elapse)
  /\ \A t \in Threads :
       /\ WF_sessionVars(Running /\ EndOfStream(t)) /\ WF_sessionVars(Running /\ Obey(t))
       /\ WF_sessionVars(Running /\ Unplugged(t))

-----------------------------------------------------------------------------
(* Properties                                                              *)

SessionTypeOK ==
  /\ main \in {"parsed", "refused", "starting", "looping", "ending", "done", "crashed"}
  /\ life \in [Components -> {"none", "ready", "gone"}]
  /\ thread \in [Threads -> {"none", "running", "over", "joined"}]
  /\ stopped \subseteq Components /\ told \in {"nothing", "connected", "failed"}
  /\ deadline \in {"unset", "set"} /\ asleep \in {"nothing", "unset", "set"}

\* What the other modules of the client assert of the options holds of every
\* command line that cli.c accepts (scrcpy.c:507, scrcpy_otg.c:145, server.c,
\* input_manager.c).
AssertionsHold ==
  main \in {"parsed", "starting", "looping", "ending"} =>
    IF options.otg THEN OtgAssertions(options)
    ELSE options.list \/ SessionAssertions(options)

\* acksync is destroyed before the threads that use it end (scrcpy.c:980).
KnownEarly == {<<"aoa", "acksync">>, <<"receiver", "acksync">>}

\* No component is destroyed while a thread may still use it, whatever step of
\* the start failed (the order of the end of scrcpy.c and scrcpy_otg.c).
NothingUsedAfterDestroy ==
  \A t \in Threads : thread[t] = "running" =>
    \A c \in Uses(t) : life[c] # "ready" => <<t, c>> \in KnownEarly

\* acksync is not destroyed if no USB device is found (scrcpy.c:676); the window
\* of OTG mode never is.
KnownLeaks ==
  IF options.otg THEN {"screen"} ELSE IF failed = <<"select", "usb">> THEN {"acksync"} ELSE {}

\* Whatever step of the start failed, once the client is done every component
\* that was initialised is destroyed and every thread that was started is joined.
AllReleased ==
  main = "done" =>
    /\ \A c \in Components \ KnownLeaks : life[c] # "ready"
    /\ \A t \in Threads : thread[t] \in {"none", "joined"}

\* A runnable that was accepted is run, so that what it holds is freed
\* (scrcpy.c:227): none is left once the event loop was entered and left.
NoRunnableLost == main \in {"ending", "done"} /\ failed = NoStep => "runnable" \notin events

\* Components, threads, runnables: nothing of a session outlives it.
NothingLeaks == AllReleased /\ NoRunnableLost

\* The server thread waits for the process of a --list-* option (server.c:1043).
Listing == options.list /\ thread["server"] = "running"

\* Once the client leaves its event loop, or a step of its start fails, it ends:
\* no join waits for a thread that nothing wakes up.  Only a listing is waited for
\* without a way out, even if the user quits (scrcpy.c:1062).
ShutdownEnds == main = "ending" /\ ~Listing ~> main = "done"

\* Once no thread streams anything, the event loop is left (scrcpy.c:296: the
\* client goes on without audio only if it has something else to do).
EndNoticed ==
  main = "looping" /\ ~options.otg /\ (\A t \in StreamThreads : thread[t] # "running")
    ~> main # "looping"

\* If the device goes away, the event loop is left, even without any stream, as
\* long as the platform reports it (usb.c:270, scrcpy_otg.c:34).
UnpluggedNoticed ==
  main = "looping" /\ device = "dead" /\ (options.otg => thread["usbev"] = "running")
    ~> main # "looping"

\* The loss of the streams, or of the device, is noticed.
LossNoticed == EndNoticed /\ UnpluggedNoticed

\* "Set the maximum mirroring time, in seconds" (cli.c): past the time limit,
\* the session ends.  A statement that the model contradicts: see the README.
TimeLimitEnds == main = "looping" /\ elapsed ~> main # "looping"

=============================================================================
