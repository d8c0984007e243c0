------------------------------ MODULE Pipeline ------------------------------
(***************************************************************************)
(* The path of a stream through the client: the demuxer's thread             *)
(* (demuxer.c) receives packets, decodes them (decoder.c) and pushes the     *)
(* frames to its sinks (trait/frame_source.c): the screen (screen.c), a      *)
(* V4L2 device (v4l2_sink.c), each behind a delay buffer (delay_buffer.c)    *)
(* or not, or the audio player (AudioPlayer).  A mailbox of one frame        *)
(* (frame_buffer.c) stands between a sink and the thread that shows frames.  *)
(*                                                                          *)
(* A frame is its number.  What a device sends is up to it: media packets,   *)
(* codec configurations, the end of the stream.  Calls of the libraries      *)
(* (FFmpeg, SDL, the allocator) fail at any point, as often as the limits of  *)
(* the graph say.                                                           *)
(***************************************************************************)
EXTENDS AudioPlayer, FiniteSets

CONSTANTS
  Graphs       \* the pipelines followed: stream, sinks, codec, and limits

\* A video is only decoded for the screen or for V4L2.
ASSUME GraphsAssumption == \A g \in Graphs :
  /\ g \in [stream : {"video", "audio"}, screen : {"none", "direct", "delayed"},
            v4l2 : {"none", "direct", "delayed"}, recorder : BOOLEAN, merge : BOOLEAN,
            fps : BOOLEAN,
            limits : [frames : Nat, configs : Nat, faults : Nat, inputs : Nat]]
  /\ g.stream = "video" => g.screen # "none" \/ g.v4l2 # "none"

VARIABLES
  graph,    \* the sinks and the codec of this stream
  demux,    \* the demuxer's thread: where it is, its merger, its progress
  job,      \* of each thread that delivers frames: where it is, sink and frame
  opened,   \* sinks that are open
  mailbox,  \* of each sink with a frame buffer: its frame, and if it is consumed
  delay,    \* of each such sink: its delay buffer
  events,   \* SDL's queue of the events of this stream
  ui,       \* the main thread: where it is, pause, frame shown, frame to resume
  v4l2,     \* the V4L2 thread
  fps,      \* the FPS counter and its thread
  budget    \* what remains of the limits of the graph: media and configuration
            \* packets of a video, library calls that fail, commands of the user

videoVars == <<graph, demux, job, opened, mailbox, delay, events, ui, v4l2, fps, budget>>
vars == <<audioVars, videoVars>>

Shown   == {"screen", "v4l2"}
Threads == {"demuxer"} \cup Shown
NoFrame == 0
Idle    == [pc |-> "idle", sink |-> "none", frame |-> NoFrame]
Buffer  == [screen |-> "screenBuffer", v4l2 |-> "v4l2Buffer"]

-----------------------------------------------------------------------------
(* The graph: which sinks are opened, in which order, and given the frames.  *)

Branch(s) == CASE graph[s] = "none"    -> <<>>
               [] graph[s] = "direct"  -> <<s>>
               [] graph[s] = "delayed" -> <<s, Buffer[s]>>

\* A delay buffer opens the sinks behind it first, and closes them last.
Opening ==
  (IF graph.stream = "audio" THEN <<"player">> ELSE Branch("screen") \o Branch("v4l2"))
  \o (IF graph.recorder THEN <<"recorder">> ELSE <<>>)

Decoded(s) == IF graph[s] = "none" THEN <<>> ELSE <<s>>

FrameSinks ==
  IF graph.stream = "audio" THEN <<"player">> ELSE Decoded("screen") \o Decoded("v4l2")

Recording == IF graph.recorder THEN "record" ELSE "recv"

Fault == budget.faults > 0 /\ budget' = [budget EXCEPT !.faults = @ - 1]
Fine  == UNCHANGED budget

Awake(pc) == IF pc = "wait" THEN "idle" ELSE pc

-----------------------------------------------------------------------------
(* run_demuxer.                                                             *)

\* The header of the stream: the connection breaks, the device could not
\* start it or disables it (the audio only), or the codec can be opened.
Start ==
  /\ demux.pc = "start"
  /\ \E outcome \in {"open", "error", "disabled"} :
       /\ outcome = "disabled" => graph.stream = "audio"
       /\ demux' = [demux EXCEPT !.pc = IF outcome = "open" THEN "open" ELSE "end",
                                 !.status = IF outcome = "open" THEN @ ELSE outcome]
  /\ UNCHANGED <<audioVars, graph, job, opened, mailbox, delay, events, ui, v4l2, fps, budget>>

Opened(s) ==
  /\ opened' = opened \cup {s}
  /\ demux' = IF demux.at = Len(Opening) THEN [demux EXCEPT !.pc = "recv"]
              ELSE [demux EXCEPT !.at = @ + 1]
  /\ events' = IF s = "screen" THEN Append(events, "initSize") ELSE events
  /\ v4l2' = IF s = "v4l2" THEN [v4l2 EXCEPT !.pc = "idle"] ELSE v4l2
  /\ delay' = [d \in Shown |-> IF s = Buffer[d] THEN [delay[d] EXCEPT !.pc = "idle"]
                               ELSE delay[d]]

OpenSink ==
  /\ demux.pc = "open"
  /\ Opened(Opening[demux.at]) /\ Fine
  /\ UNCHANGED <<audioVars, graph, job, mailbox, ui, fps>>

\* The sinks opened before are closed, in reverse.
OpenFails ==
  /\ demux.pc = "open" /\ Fault
  /\ demux' = [demux EXCEPT !.pc = "close", !.at = @ - 1]
  /\ UNCHANGED <<audioVars, graph, job, opened, mailbox, delay, events, ui, v4l2, fps>>

Ending(status) == [demux EXCEPT !.pc = "close", !.at = Len(Opening), !.status = status]

\* sc_packet_merger_merge keeps a configuration for the next media packet.
\* Only H.26x needs it; the decoder ignores a configuration packet.
Config ==
  /\ demux.pc = "recv" /\ graph.merge
  /\ budget.configs > 0 /\ budget' = [budget EXCEPT !.configs = @ - 1]
  /\ demux' = [demux EXCEPT !.config = TRUE, !.owed = TRUE]
  /\ UNCHANGED <<audioVars, graph, job, opened, mailbox, delay, events, ui, v4l2, fps>>

\* A media packet goes to the decoder, which makes a frame of it if it was
\* given the configuration that the device encodes with.
Media ==
  LET decodable == demux.config \/ ~demux.owed IN
  /\ demux.pc = "recv"
  /\ IF graph.stream = "audio" THEN Fine
     ELSE budget.frames > 0 /\ budget' = [budget EXCEPT !.frames = @ - 1]
  /\ demux' = [demux EXCEPT !.pc = IF decodable THEN "push" ELSE Recording,
                            !.at = 1,
                            !.frame = IF graph.stream = "audio" THEN @ ELSE @ + 1,
                            !.config = FALSE, !.owed = ~decodable]
  /\ UNCHANGED <<audioVars, graph, job, opened, mailbox, delay, events, ui, v4l2, fps>>

DecoderFails ==
  /\ demux.pc = "recv" /\ Fault
  /\ demux' = Ending("error")
  /\ UNCHANGED <<audioVars, graph, job, opened, mailbox, delay, events, ui, v4l2, fps>>

\* The device disconnects, or the session shut the socket down.
EndOfStream ==
  /\ demux.pc = "recv"
  /\ demux' = Ending("eos") /\ Fine
  /\ UNCHANGED <<audioVars, graph, job, opened, mailbox, delay, events, ui, v4l2, fps>>

-----------------------------------------------------------------------------
(* sc_frame_source_sinks_push, from the demuxer's thread or a delay buffer's. *)

Deliver(sink, frame) == [pc |-> "mailbox", sink |-> sink, frame |-> frame]
Step(t, pc) == job' = [job EXCEPT ![t].pc = pc]

\* Mutant: an event is posted for every frame.
PushFrameNotifying(t) ==
  LET s == job[t].sink IN
  /\ job[t].pc = "mailbox"
  /\ mailbox' = [mailbox EXCEPT ![s] = [frame |-> job[t].frame, consumed |-> FALSE]]
  /\ Step(t, "notify") /\ Fine
  /\ UNCHANGED <<audioVars, graph, demux, opened, delay, events, ui, v4l2, fps>>

\* sc_frame_buffer_push
PushFrame(t) ==
  LET s == job[t].sink IN
  /\ job[t].pc = "mailbox"
  /\ mailbox' = [mailbox EXCEPT ![s] = [frame |-> job[t].frame, consumed |-> FALSE]]
  /\ Step(t, IF mailbox[s].consumed THEN "notify" ELSE "done") /\ Fine
  /\ UNCHANGED <<audioVars, graph, demux, opened, delay, events, ui, v4l2, fps>>

Notify(t) ==
  /\ job[t].pc = "notify"
  /\ IF job[t].sink = "screen"
     THEN events' = Append(events, "newFrame") /\ UNCHANGED v4l2
     ELSE v4l2' = [v4l2 EXCEPT !.hasFrame = TRUE, !.pc = Awake(@)] /\ UNCHANGED events
  /\ Step(t, "done") /\ Fine
  /\ UNCHANGED <<audioVars, graph, demux, opened, mailbox, delay, ui, fps>>

\* av_frame_ref or SDL_PushEvent fails.
PushFails(t) ==
  /\ \/ job[t].pc = "mailbox"
     \/ job[t].pc = "notify" /\ job[t].sink = "screen"
  /\ Step(t, "failed") /\ Fault
  /\ UNCHANGED <<audioVars, graph, demux, opened, mailbox, delay, events, ui, v4l2, fps>>

\* Mutant: it is the second frame that is shown as soon as possible.
PushDelayedSecond(s) ==
  LET asap == demux.frame = 2 IN
  /\ delay' = [delay EXCEPT ![s].queue = IF asap THEN @ ELSE Append(@, demux.frame),
                            ![s].pc = IF asap THEN @ ELSE Awake(@)]
  /\ job' = [job EXCEPT !["demuxer"] = IF asap THEN Deliver(s, demux.frame)
                                       ELSE [Idle EXCEPT !.pc = "done"]]
  /\ Fine

\* sc_delay_buffer_frame_sink_push: once stopped it refuses, the first frame
\* is shown as soon as possible, the next ones wait in the queue.
PushDelayed(s) ==
  /\ delay' = [delay EXCEPT ![s].first = FALSE,
                            ![s].queue = IF delay[s].first THEN @ ELSE Append(@, demux.frame),
                            ![s].pc = IF delay[s].first THEN @ ELSE Awake(@)]
  /\ job' = [job EXCEPT !["demuxer"] = IF delay[s].first THEN Deliver(s, demux.frame)
                                       ELSE [Idle EXCEPT !.pc = "done"]]
  /\ Fine

RefusedByDelay(s) ==
  /\ (delay[s].stopped /\ Fine) \/ Fault
  /\ Step("demuxer", "failed") /\ UNCHANGED delay

PushToSink ==
  LET s == FrameSinks[demux.at] IN
  /\ demux.pc = "push" /\ job["demuxer"] = Idle
  /\ CASE graph.stream = "audio" ->
            PushStart /\ job' = [job EXCEPT !["demuxer"] = [Idle EXCEPT !.pc = "player"]]
            /\ UNCHANGED delay /\ Fine
       [] graph.stream = "video" /\ graph[s] = "direct" ->
            job' = [job EXCEPT !["demuxer"] = Deliver(s, demux.frame)]
            /\ UNCHANGED <<audioVars, delay>> /\ Fine
       [] graph.stream = "video" /\ graph[s] = "delayed" ->
            ((~delay[s].stopped /\ PushDelayed(s)) \/ RefusedByDelay(s))
            /\ UNCHANGED audioVars
  /\ UNCHANGED <<graph, demux, opened, mailbox, events, ui, v4l2, fps>>

\* The frame reached a sink: the next one, or the packet goes to the recorder.
Pushed ==
  /\ demux.pc = "push"
  /\ \/ job["demuxer"].pc = "done"
     \/ job["demuxer"].pc = "player" /\ push.pc = "idle"
  /\ job' = [job EXCEPT !["demuxer"] = Idle]
  /\ demux' = IF demux.at < Len(FrameSinks) THEN [demux EXCEPT !.at = @ + 1]
              ELSE [demux EXCEPT !.pc = Recording]
  /\ Fine
  /\ UNCHANGED <<audioVars, graph, opened, mailbox, delay, events, ui, v4l2, fps>>

Record ==
  /\ demux.pc = "record"
  /\ demux' = [demux EXCEPT !.pc = "recv"] /\ Fine
  /\ UNCHANGED <<audioVars, graph, job, opened, mailbox, delay, events, ui, v4l2, fps>>

\* A sink of frames, or the recorder, refuses: the stream ends.
Refused ==
  /\ \/ demux.pc = "push" /\ job["demuxer"].pc = "failed" /\ Fine
     \/ demux.pc = "record" /\ Fault
  /\ demux' = Ending("error")
  /\ job' = [job EXCEPT !["demuxer"] = Idle]
  /\ UNCHANGED <<audioVars, graph, opened, mailbox, delay, events, ui, v4l2, fps>>

-----------------------------------------------------------------------------
(* Closing, from the last sink opened to the first.                         *)

\* Mutant: the threads are not woken.
StoppingSilently(s) == [d \in Shown |->
  IF s = Buffer[d] THEN [delay[d] EXCEPT !.stopped = TRUE] ELSE delay[d]]

Stopping(s) == [d \in Shown |->
  IF s = Buffer[d] THEN [delay[d] EXCEPT !.stopped = TRUE, !.pc = Awake(@)] ELSE delay[d]]

\* The threads of a sink are told to stop, then joined (CloseSink).
StopSink ==
  LET s == Opening[demux.at] IN
  /\ demux.pc = "close" /\ demux.at > 0
  /\ delay' = Stopping(s)
  /\ v4l2' = IF s = "v4l2" THEN [v4l2 EXCEPT !.stopped = TRUE, !.pc = Awake(@)] ELSE v4l2
  /\ demux' = [demux EXCEPT !.pc = "join"] /\ Fine
  /\ UNCHANGED <<audioVars, graph, job, opened, mailbox, events, ui, fps>>

\* Mutant: the threads are not joined.
ThreadIgnored(s) == TRUE

ThreadEnded(s) ==
  /\ s = "v4l2" => v4l2.pc = "done"
  /\ \A d \in Shown : s = Buffer[d] => delay[d].pc = "done"
  /\ s = "player" => pull.pc = "idle"

CloseSink ==
  LET s == Opening[demux.at] IN
  /\ demux.pc = "join" /\ ThreadEnded(s)
  /\ opened' = opened \ {s}
  /\ demux' = [demux EXCEPT !.pc = "close", !.at = @ - 1] /\ Fine
  /\ UNCHANGED <<audioVars, graph, job, mailbox, delay, events, ui, v4l2, fps>>

\* on_ended: the session ends, unless the device disabled the audio.
Ended ==
  /\ demux.pc = "end" \/ (demux.pc = "close" /\ demux.at = 0)
  /\ demux' = [demux EXCEPT !.pc = "ended"]
  /\ events' = IF demux.status = "disabled" THEN events ELSE Append(events, "ended")
  /\ Fine
  /\ UNCHANGED <<audioVars, graph, job, opened, mailbox, delay, ui, v4l2, fps>>

Demuxer ==
  \/ Start \/ OpenSink \/ OpenFails \/ PushToSink \/ Pushed
  \/ PushFrame("demuxer") \/ Notify("demuxer") \/ PushFails("demuxer")
  \/ Record \/ Refused \/ StopSink \/ CloseSink \/ Ended

-----------------------------------------------------------------------------
(* run_buffering, the thread of a delay buffer.                             *)

Buffering(s) ==
  /\ delay[s].pc = "idle"
  /\ delay' = [delay EXCEPT ![s] =
       CASE @.stopped       -> [delay[s] EXCEPT !.pc = "done", !.queue = <<>>]
         [] @.queue = <<>> -> [delay[s] EXCEPT !.pc = "wait"]
         [] OTHER           -> [delay[s] EXCEPT !.pc = "timed", !.queue = Tail(@),
                                                !.held = Head(delay[s].queue)]]
  /\ Fine
  /\ UNCHANGED <<audioVars, graph, demux, job, opened, mailbox, events, ui, v4l2, fps>>

\* The deadline of the frame is reached, or the buffer is stopped.
Deadline(s) ==
  /\ delay[s].pc = "timed"
  /\ IF delay[s].stopped
     THEN delay' = [delay EXCEPT ![s].pc = "done", ![s].queue = <<>>] /\ UNCHANGED job
     ELSE delay' = [delay EXCEPT ![s].pc = "deliver"]
          /\ job' = [job EXCEPT ![s] = Deliver(s, delay[s].held)]
  /\ Fine
  /\ UNCHANGED <<audioVars, graph, demux, opened, mailbox, events, ui, v4l2, fps>>

Delivered(s) ==
  /\ delay[s].pc = "deliver"
  /\ \/ job[s].pc = "done" /\ delay' = [delay EXCEPT ![s].pc = "idle"]
     \/ job[s].pc = "failed"
        /\ delay' = [delay EXCEPT ![s].pc = "done", ![s].stopped = TRUE, ![s].queue = <<>>]
  /\ job' = [job EXCEPT ![s] = Idle]
  /\ Fine
  /\ UNCHANGED <<audioVars, graph, demux, opened, mailbox, events, ui, v4l2, fps>>

DelayBuffer(s) ==
  \/ Buffering(s) \/ Deadline(s) \/ Delivered(s)
  \/ PushFrame(s) \/ Notify(s) \/ PushFails(s)

-----------------------------------------------------------------------------
(* run_v4l2_sink.                                                           *)

V4l2Wait ==
  /\ v4l2.pc = "idle"
  /\ v4l2' = CASE v4l2.stopped  -> [v4l2 EXCEPT !.pc = "done"]
               [] v4l2.hasFrame -> [v4l2 EXCEPT !.pc = "consume", !.hasFrame = FALSE]
               [] OTHER         -> [v4l2 EXCEPT !.pc = "wait"]
  /\ Fine
  /\ UNCHANGED <<audioVars, graph, demux, job, opened, mailbox, delay, events, ui, fps>>

V4l2Consume ==
  /\ v4l2.pc = "consume"
  /\ v4l2' = [v4l2 EXCEPT !.pc = "encode", !.frame = mailbox["v4l2"].frame]
  /\ mailbox' = [mailbox EXCEPT !["v4l2"].consumed = TRUE]
  /\ Fine
  /\ UNCHANGED <<audioVars, graph, demux, job, opened, delay, events, ui, fps>>

\* The first packet is the header of the output: its frame is not shown.  A
\* failure of the encoder ends the thread, one to write a frame is ignored.
V4l2Encode ==
  /\ v4l2.pc = "encode"
  /\ \/ v4l2' = (IF v4l2.header = NoFrame THEN [v4l2 EXCEPT !.pc = "idle", !.header = v4l2.frame]
                 ELSE [v4l2 EXCEPT !.pc = "idle", !.shown = v4l2.frame]) /\ Fine
     \/ v4l2.header # NoFrame /\ v4l2' = [v4l2 EXCEPT !.pc = "idle"] /\ Fault
     \/ v4l2' = [v4l2 EXCEPT !.pc = "done"] /\ Fault
  /\ UNCHANGED <<audioVars, graph, demux, job, opened, mailbox, delay, events, ui, fps>>

V4l2 == V4l2Wait \/ V4l2Consume \/ V4l2Encode

-----------------------------------------------------------------------------
(* run_fps_counter.  The flag `started` is stored, and the condition          *)
(* signalled, without the mutex that the thread holds from "checked" on.     *)

FpsLocked == fps.pc = "checked"
FpsAwake(pc) == IF pc \in {"wait", "timed"} THEN "check" ELSE pc

FpsCheck ==
  /\ fps.pc = "check"
  /\ fps' = [fps EXCEPT !.pc = CASE fps.interrupted -> "done"
                                 [] fps.started     -> "timed"
                                 [] OTHER           -> "checked"]
  /\ Fine
  /\ UNCHANGED <<audioVars, graph, demux, job, opened, mailbox, delay, events, ui, v4l2>>

FpsWait ==
  /\ FpsLocked
  /\ fps' = [fps EXCEPT !.pc = "wait"] /\ Fine
  /\ UNCHANGED <<audioVars, graph, demux, job, opened, mailbox, delay, events, ui, v4l2>>

FpsTick ==
  /\ fps.pc = "timed"
  /\ fps' = [fps EXCEPT !.pc = "check"] /\ Fine
  /\ UNCHANGED <<audioVars, graph, demux, job, opened, mailbox, delay, events, ui, v4l2>>

Fps == FpsCheck \/ FpsWait \/ FpsTick

\* The thread is created the first time the counter starts.
FpsStarted == [fps EXCEPT !.started = TRUE, !.interrupted = FALSE,
                          !.pc = IF @ = "none" THEN "check" ELSE FpsAwake(@)]
FpsStopped == [fps EXCEPT !.started = FALSE, !.pc = FpsAwake(@)]

-----------------------------------------------------------------------------
(* The main thread.                                                         *)

\* sc_screen_apply_frame; the first frame shows the window and starts the FPS
\* counter if it was asked for.
Apply(frame) ==
  fps' = IF ui.shown = NoFrame /\ graph.fps THEN FpsStarted ELSE fps

Handled == events' = Tail(events) /\ Fine

\* Mutant: the frame kept during a pause is not marked consumed.
NewFramePausedKeeping ==
  LET frame == mailbox["screen"].frame IN
  /\ ui.pc = "loop" /\ events # <<>> /\ Head(events) = "newFrame" /\ Handled
  /\ mailbox' = [mailbox EXCEPT !["screen"].consumed = ~ui.paused]
  /\ IF ui.paused
     THEN ui' = [ui EXCEPT !.resume = frame] /\ UNCHANGED fps
     ELSE ui' = [ui EXCEPT !.shown = frame] /\ Apply(frame)
  /\ UNCHANGED <<audioVars, graph, demux, job, opened, delay, v4l2>>

\* SC_EVENT_NEW_FRAME: sc_screen_update_frame consumes the mailbox.
NewFrame ==
  LET frame == mailbox["screen"].frame IN
  /\ ui.pc = "loop" /\ events # <<>> /\ Head(events) = "newFrame" /\ Handled
  /\ mailbox' = [mailbox EXCEPT !["screen"].consumed = TRUE]
  /\ IF ui.paused
     THEN ui' = [ui EXCEPT !.resume = frame] /\ UNCHANGED fps
     ELSE ui' = [ui EXCEPT !.shown = frame] /\ Apply(frame)
  /\ UNCHANGED <<audioVars, graph, demux, job, opened, delay, v4l2>>

InitSize ==
  /\ ui.pc = "loop" /\ events # <<>> /\ Head(events) = "initSize" /\ Handled
  /\ UNCHANGED <<audioVars, graph, demux, job, opened, mailbox, delay, ui, v4l2, fps>>

Input == budget.inputs > 0 /\ budget' = [budget EXCEPT !.inputs = @ - 1]

\* sc_screen_set_paused: a frame kept while paused is shown, even to pause again.
SetPaused ==
  /\ ui.pc = "loop" /\ graph.screen # "none" /\ ui.shown # NoFrame /\ Input
  /\ \E paused \in BOOLEAN :
       /\ paused \/ ui.paused
       /\ ui' = [ui EXCEPT !.paused = paused, !.resume = NoFrame,
                           !.shown = IF ui.paused /\ ui.resume # NoFrame THEN ui.resume ELSE @]
  /\ UNCHANGED <<audioVars, graph, demux, job, opened, mailbox, delay, events, v4l2, fps>>

\* switch_fps_counter_state
SwitchFps ==
  /\ ui.pc = "loop" /\ graph.fps /\ ui.shown # NoFrame /\ Input
  /\ fps' = IF fps.started THEN FpsStopped ELSE FpsStarted
  /\ UNCHANGED <<audioVars, graph, demux, job, opened, mailbox, delay, events, ui, v4l2>>

\* The user quits, the stream ended, or a frame could not be displayed.  If the
\* FPS counter has a thread, sc_screen_interrupt needs its mutex; then the server
\* is stopped, which shuts the sockets down.
Quit ==
  /\ ui.pc = "loop"
  /\ \/ events # <<>> /\ Head(events) = "ended" /\ Fine
     \/ events # <<>> /\ Head(events) = "newFrame" /\ Fault
     \/ budget.inputs > 0 /\ budget' = [budget EXCEPT !.inputs = 0]
  /\ ui' = [ui EXCEPT !.pc = IF fps.pc = "none" THEN "join" ELSE "interrupt"]
  /\ UNCHANGED <<audioVars, graph, demux, job, opened, mailbox, delay, events, v4l2, fps>>

Interrupt ==
  /\ ui.pc = "interrupt" /\ ~FpsLocked
  /\ fps' = [fps EXCEPT !.interrupted = TRUE, !.pc = FpsAwake(@)]
  /\ ui' = [ui EXCEPT !.pc = "join"] /\ Fine
  /\ UNCHANGED <<audioVars, graph, demux, job, opened, mailbox, delay, events, v4l2>>

\* The demuxer and the FPS counter are joined, then the screen is destroyed.
Destroy ==
  /\ ui.pc = "join" /\ demux.pc = "ended" /\ fps.pc \in {"none", "done"}
  /\ ui' = [ui EXCEPT !.pc = "destroyed"] /\ Fine
  /\ UNCHANGED <<audioVars, graph, demux, job, opened, mailbox, delay, events, v4l2, fps>>

Main == NewFrame \/ InitSize \/ Interrupt \/ Destroy
        \/ (events # <<>> /\ Head(events) = "ended" /\ Quit)

\* SDL calls back while the device is open and not paused for its closing.
Playing == "player" \in opened /\ (demux.pc = "join" => pull.pc # "idle")

Audio ==
  /\ Producer \/ (Playing /\ Consumer)
  /\ UNCHANGED videoVars

Device == Config \/ Media \/ DecoderFails \/ EndOfStream
User   == SetPaused \/ SwitchFps \/ Quit

-----------------------------------------------------------------------------
Init ==
  /\ AudioInit
  /\ graph \in Graphs
  /\ demux = [pc |-> "start", at |-> 1, frame |-> NoFrame, config |-> FALSE,
              owed |-> FALSE, status |-> "error"]
  /\ job = [t \in Threads |-> Idle]
  /\ opened = {}
  /\ mailbox = [s \in Shown |-> [frame |-> NoFrame, consumed |-> TRUE]]
  /\ delay = [s \in Shown |-> [pc |-> "off", stopped |-> FALSE, first |-> TRUE,
                               queue |-> <<>>, held |-> NoFrame]]
  /\ events = <<>>
  /\ ui = [pc |-> "loop", paused |-> FALSE, shown |-> NoFrame, resume |-> NoFrame]
  /\ v4l2 = [pc |-> "off", stopped |-> FALSE, hasFrame |-> FALSE, header |-> NoFrame,
             frame |-> NoFrame, shown |-> NoFrame]
  /\ fps = [pc |-> "none", started |-> FALSE, interrupted |-> FALSE]
  /\ budget = graph.limits

Next ==
  \/ Demuxer \/ Device \/ Main \/ User \/ V4l2 \/ Fps \/ Audio
  \/ \E s \in Shown : DelayBuffer(s)

\* Every thread that can run runs, even if another often holds the mutex of
\* the audio; deadlines pass; and the stream ends some time after its socket is
\* shut down.  Nothing makes the device send or the user act.
Fairness ==
  /\ WF_vars(Demuxer) /\ WF_vars(Main) /\ WF_vars(V4l2) /\ WF_vars(Fps)
  /\ \A s \in Shown : WF_vars(DelayBuffer(s))
  /\ SF_vars(ui.pc = "join" /\ EndOfStream)
  /\ SF_vars(Producer /\ UNCHANGED videoVars)
  /\ WF_vars(Playing /\ Consumer /\ UNCHANGED videoVars)

Spec == Init /\ [][Next]_vars /\ Fairness

-----------------------------------------------------------------------------
\* Whoever is told of a frame finds one: an event, or has_frame, stands for a
\* frame that is in the mailbox and not consumed (assert, frame_buffer.c:80).
ConsumeFindsFrame ==
  /\ Cardinality({i \in DOMAIN events : events[i] = "newFrame"}) <= 1
  /\ "newFrame" \in {events[i] : i \in DOMAIN events} => ~mailbox["screen"].consumed
  /\ v4l2.hasFrame \/ v4l2.pc = "consume" => ~mailbox["v4l2"].consumed

\* Frames are shown in the order they were decoded, though the first one
\* overtakes the delay buffer and a pause keeps one aside.
FramesInOrder ==
  [][ui'.shown >= ui.shown /\ v4l2'.shown >= v4l2.shown]_vars

\* A sink is only given frames while it is open, no thread of a sink outlives
\* it, and the screen is destroyed last (assert(!screen->open), screen.c).
NothingPushedAfterClose ==
  /\ \A t \in Threads : job[t].sink # "none" => job[t].sink \in opened
  /\ \A s \in Shown : delay[s].pc \notin {"off", "done"} => Buffer[s] \in opened
  /\ v4l2.pc \notin {"off", "done"} => "v4l2" \in opened
  /\ ui.pc = "destroyed" => opened = {}

\* When no more frame comes, the last one decoded is on the screen and on the
\* V4L2 device, whichever frames were skipped: unless the display is paused,
\* the session ends, or a call failed.  The frame that V4L2 used as the header
\* is never shown there, even if no other one follows.
Interrupted == ui.pc # "loop" \/ demux.pc \in {"close", "join", "ended"}
               \/ budget.faults < graph.limits.faults

UpToDate ==
  /\ graph.screen # "none" => ui.shown = demux.frame \/ ui.paused
  /\ graph.v4l2 # "none" => demux.frame \in {NoFrame, v4l2.shown, v4l2.header}

LastFrameShown == []<>(demux.pc # "recv" \/ UpToDate \/ Interrupted)

\* Once the session stops, every thread of the stream ends and its sinks close.
StopEnds == []<>(ui.pc \in {"loop", "destroyed"})

\* While audio frames keep coming, playback starts.
PlaybackStarts ==
  (graph.stream = "audio" /\ []<>(demux.pc = "push")) => <>played

=============================================================================
