------------------------------ MODULE Recorder ------------------------------
(***************************************************************************)
(* The client's recorder (recorder.c): the two demuxer threads push packets *)
(* into its queues, the "scrcpy-recorder" thread muxes them into a file.    *)
(*                                                                          *)
(* A critical section of the mutex is one action, and so is the work the    *)
(* thread does between two of them.  A packet is its timestamp, or NoPts    *)
(* for a config packet.  Once `crash` is not "no" the process is gone.      *)
(***************************************************************************)
EXTENDS Integers, Sequences, FiniteSets

CONSTANTS
  NoPts,        \* AV_NOPTS_VALUE
  MaxPts,       \* bound: timestamps are 0..MaxPts
  MaxPackets,   \* bound: packets a demuxer receives
  Tick          \* microseconds per unit of the file's time base

ASSUME NoPtsAssumption == NoPts \notin Int
ASSUME TickAssumption == Tick \in Nat \ {0}
ASSUME BoundAssumption == MaxPts \in Nat /\ MaxPackets \in Nat

Streams == {"video", "audio"}
Packets == {NoPts} \cup 0..MaxPts

VARIABLES
  demux,      \* of each stream: none, starting, open, done
  received,   \* of each stream: number of packets received
  main,       \* of the main thread: running, stopping, joined
  thread,     \* of the recorder: open, header, headerWait, loop, loopWait,
              \* process, finish, close, end, done
  ctx,        \* recorder->ctx: null, open, freed
  enabled,    \* recorder->video and recorder->audio
  inited,     \* recorder->video_init and recorder->audio_init
  expects,    \* recorder->audio_expects_config_packet
  stopped,    \* recorder->stopped
  queue,      \* recorder->video_queue and recorder->audio_queue
  held,       \* video_pkt and audio_pkt, sequences of 0 or 1
  previous,   \* video_pkt_previous, a sequence of 0 or 1
  origin,     \* pts_origin
  success,    \* what the thread returns
  accepted,   \* history: timestamps of the media packets accepted
  written,    \* history: timestamps written to the file
  trailer,    \* history: the trailer, which makes the file readable: none,
              \* written, failed
  crash       \* no, assert, ctx

shared == <<enabled, inited, expects, stopped, queue>>
local  == <<held, previous, origin, success, written, trailer>>
vars   == <<demux, received, main, thread, ctx, shared, local, accepted, crash>>

-----------------------------------------------------------------------------
Wake(t) == CASE t = "headerWait" -> "header"
             [] t = "loopWait"   -> "loop"
             [] OTHER            -> t

Queued(s) == queue[s] # <<>>

\* What is left of at most one packet: "Ignore further config packets".
Media(packets) == IF packets = <<>> \/ packets[1] = NoPts THEN <<>> ELSE packets

Min2(a, b) == IF a < b THEN a ELSE b

\* av_packet_rescale_ts: to the nearest unit, halves away from zero.
Rescale(t) == IF t >= 0 THEN (t + Tick \div 2) \div Tick
                        ELSE -((-t + Tick \div 2) \div Tick)

\* last_pts
LastPts(s) == IF written[s] = <<>> THEN NoPts ELSE written[s][Len(written[s])]

\* Mutant: an equal timestamp passes.
FixedPtsEqual(s, t) ==
  LET r == Rescale(t) IN
  IF LastPts(s) # NoPts /\ r < LastPts(s) THEN LastPts(s) + 1 ELSE r

\* The timestamp sc_recorder_write_stream gives to a packet.
FixedPts(s, t) ==
  LET r == Rescale(t) IN
  IF LastPts(s) # NoPts /\ r <= LastPts(s) THEN LastPts(s) + 1 ELSE r

\* The same for at most one packet.
Fixed(s, packets) == IF packets = <<>> THEN <<>> ELSE <<FixedPts(s, packets[1])>>

-----------------------------------------------------------------------------
Init ==
  /\ enabled \in {e \in [Streams -> BOOLEAN] : e["video"] \/ e["audio"]}
  /\ demux = [s \in Streams |-> IF enabled[s] THEN "starting" ELSE "none"]
  /\ received = [s \in Streams |-> 0]
  /\ main = "running"
  /\ thread = "open"
  /\ ctx = "null"
  /\ inited = [s \in Streams |-> FALSE]
  /\ expects = FALSE
  /\ stopped = FALSE
  /\ queue = [s \in Streams |-> <<>>]
  /\ held = [s \in Streams |-> <<>>]
  /\ previous = <<>>
  /\ origin = NoPts
  /\ success = FALSE
  /\ accepted = [s \in Streams |-> <<>>]
  /\ written = [s \in Streams |-> <<>>]
  /\ trailer = "none"
  /\ crash = "no"

(***************************************************************************)
(* The demuxers' side                                                       *)
(***************************************************************************)

\* The stream is opened with a codec.  The video sink refuses when the recorder
\* is stopped, the audio sink does not look.  avformat_new_stream on a context
\* not allocated yet, or freed, is undefined behaviour.
OpenSink(s) ==
  /\ demux[s] = "starting"
  /\ IF s = "video" /\ stopped
     THEN /\ demux' = [demux EXCEPT ![s] = "done"]
          /\ UNCHANGED <<shared, thread, crash>>
     ELSE \/ /\ ctx # "open"
             /\ crash' = "ctx"
             /\ UNCHANGED <<demux, shared, thread>>
          \/ /\ ctx = "open"
             /\ demux' = [demux EXCEPT ![s] = "open"]
             /\ inited' = [inited EXCEPT ![s] = TRUE]
             /\ expects' \in IF s = "audio" THEN BOOLEAN ELSE {expects}
             /\ thread' = Wake(thread)
             /\ UNCHANGED <<enabled, stopped, queue, crash>>
  /\ UNCHANGED <<received, main, ctx, local, accepted>>

\* The demuxer fails before it opens its sinks, or a sink fails to open.
FailSink(s) ==
  /\ demux[s] = "starting"
  /\ demux' = [demux EXCEPT ![s] = "done"]
  /\ UNCHANGED <<received, main, thread, ctx, shared, local, accepted, crash>>

\* Mutant: the recorder is not woken.
DisableSinkSilent ==
  /\ demux["audio"] = "starting"
  /\ demux' = [demux EXCEPT !["audio"] = "done"]
  /\ enabled' = [enabled EXCEPT !["audio"] = FALSE]
  /\ inited' = [inited EXCEPT !["audio"] = TRUE]
  /\ UNCHANGED <<thread, expects, stopped, queue, received, main, ctx, local, accepted,
                 crash>>

\* The device disabled the audio, or its codec is unsupported.
DisableSink ==
  /\ demux["audio"] = "starting"
  /\ demux' = [demux EXCEPT !["audio"] = "done"]
  /\ enabled' = [enabled EXCEPT !["audio"] = FALSE]
  /\ inited' = [inited EXCEPT !["audio"] = TRUE]
  /\ thread' = Wake(thread)
  /\ UNCHANGED <<expects, stopped, queue, received, main, ctx, local, accepted,
                 crash>>

\* A packet for a recorder that is not stopped (else CloseSink follows).  Video
\* may be configured again at any time, on a change of orientation; audio only
\* at the start, and raw audio never.
PushPacket(s, p) ==
  /\ demux[s] = "open" /\ ~stopped
  /\ received[s] < MaxPackets
  /\ s = "audio" /\ p = NoPts => expects /\ received[s] = 0
  /\ received' = [received EXCEPT ![s] = @ + 1]
  /\ queue' = [queue EXCEPT ![s] = Append(@, p)]
  /\ accepted' = [accepted EXCEPT ![s] = @ \o Media(<<p>>)]
  /\ thread' = Wake(thread)
  /\ UNCHANGED <<demux, main, ctx, enabled, inited, expects, stopped, local, crash>>

\* Mutant: the end of the stream is not signalled.
CloseSinkSilent(s) ==
  /\ demux[s] = "open"
  /\ demux' = [demux EXCEPT ![s] = "done"]
  /\ stopped' = TRUE
  /\ UNCHANGED <<thread, received, main, ctx, enabled, inited, expects, queue, local,
                 accepted, crash>>

\* End of stream, a packet refused or no memory for it: the sink is closed.
CloseSink(s) ==
  /\ demux[s] = "open"
  /\ demux' = [demux EXCEPT ![s] = "done"]
  /\ stopped' = TRUE
  /\ thread' = Wake(thread)
  /\ UNCHANGED <<received, main, ctx, enabled, inited, expects, queue, local,
                 accepted, crash>>

\* sc_recorder_stop, by the main thread
Stop ==
  /\ main = "running"
  /\ main' = "stopping"
  /\ stopped' = TRUE
  /\ thread' = Wake(thread)
  /\ UNCHANGED <<demux, received, ctx, enabled, inited, expects, queue, local,
                 accepted, crash>>

\* The demuxers are joined first, then the recorder.
Join ==
  /\ main = "stopping"
  /\ thread = "done" /\ \A s \in Streams : demux[s] \in {"none", "done"}
  /\ main' = "joined"
  /\ UNCHANGED <<demux, received, thread, ctx, shared, local, accepted, crash>>

(***************************************************************************)
(* The recorder thread                                                      *)
(***************************************************************************)
Goto(t) == thread' = t /\ UNCHANGED <<demux, received, main, accepted>>

OpenOutput ==
  /\ thread = "open"
  /\ \/ Goto("header") /\ ctx' = "open"
     \/ Goto("end") /\ ctx' \in {"null", "freed"}
  /\ UNCHANGED <<shared, local, crash>>

HeaderReady ==
  /\ \A s \in Streams : enabled[s] => inited[s]
  /\ enabled["video"] => Queued("video")
  /\ enabled["audio"] /\ expects => Queued("audio")

AwaitHeader ==
  /\ thread = "header" /\ ~stopped /\ ~HeaderReady
  /\ Goto("headerWait")
  /\ UNCHANGED <<ctx, shared, local, crash>>

\* sc_recorder_process_header: the first packet of a stream that has config
\* packets must be one; writing the header may fail.
ProcessHeader ==
  /\ thread = "header" /\ (stopped \/ HeaderReady)
  /\ IF enabled["video"] /\ ~Queued("video")
     THEN Goto("close") /\ UNCHANGED queue
     ELSE LET first == {s \in Streams : Queued(s) /\ (s = "audio" => expects)} IN
          /\ queue' = [s \in Streams |->
                         IF s \in first THEN Tail(queue[s]) ELSE queue[s]]
          /\ \/ Goto("close")
             \/ (\A s \in first : Head(queue[s]) = NoPts) /\ Goto("loop")
  /\ UNCHANGED <<ctx, enabled, inited, expects, stopped, local, crash>>

Poppable(s) == held[s] = <<>> /\ Queued(s)

AwaitPacket ==
  /\ thread = "loop" /\ ~stopped
  /\ \A s \in Streams : ~(enabled[s] /\ Poppable(s))
  /\ Goto("loopWait")
  /\ UNCHANGED <<ctx, shared, local, crash>>

\* Mutant: a recorder stopped ends at once.
TakePacketsNow ==
  /\ thread = "loop"
  /\ stopped \/ \E s \in Streams : enabled[s] /\ Poppable(s)
  /\ held' = [s \in Streams |->
                IF Poppable(s) THEN <<Head(queue[s])>> ELSE held[s]]
  /\ queue' = [s \in Streams |->
                 IF Poppable(s) THEN Tail(queue[s]) ELSE queue[s]]
  /\ Goto(IF stopped THEN "finish" ELSE "process")
  /\ UNCHANGED <<ctx, enabled, inited, expects, stopped, previous, origin,
                 success, written, trailer, crash>>

\* Mutant: the packet is processed even when there is none.
TakePacketsAlways ==
  /\ thread = "loop"
  /\ stopped \/ \E s \in Streams : enabled[s] /\ Poppable(s)
  /\ held' = [s \in Streams |->
                IF Poppable(s) THEN <<Head(queue[s])>> ELSE held[s]]
  /\ queue' = [s \in Streams |->
                 IF Poppable(s) THEN Tail(queue[s]) ELSE queue[s]]
  /\ Goto("process")
  /\ UNCHANGED <<ctx, enabled, inited, expects, stopped, previous, origin,
                 success, written, trailer, crash>>

\* "continue to process the remaining events before actually stopping"
TakePackets ==
  /\ thread = "loop"
  /\ stopped \/ \E s \in Streams : enabled[s] /\ Poppable(s)
  /\ held' = [s \in Streams |->
                IF Poppable(s) THEN <<Head(queue[s])>> ELSE held[s]]
  /\ queue' = [s \in Streams |->
                 IF Poppable(s) THEN Tail(queue[s]) ELSE queue[s]]
  /\ Goto(IF \A s \in Streams : held'[s] = <<>> THEN "finish" ELSE "process")
  /\ UNCHANGED <<ctx, enabled, inited, expects, stopped, previous, origin,
                 success, written, trailer, crash>>

\* What is left of the held packets.
Frame(s) == Media(held[s])

\* The origin: the only stream's, the smaller of both, or the video's when the
\* recorder stops without audio.
Origin ==
  IF origin # NoPts THEN origin
  ELSE IF Frame("audio") = <<>> THEN Head(Frame("video"))
  ELSE IF Frame("video") = <<>> THEN Head(Frame("audio"))
  ELSE Min2(Head(Frame("video")), Head(Frame("audio")))

\* Both streams are wanted, and no origin can be chosen from what is held.
AwaitsOther ==
  /\ origin = NoPts
  /\ \A s \in Streams : enabled[s]
  /\ \E s \in Streams : Frame(s) = <<>>

\* assert(video_pkt), assert(audio_pkt)
ProcessAssert ==
  /\ thread = "process"
  /\ origin = NoPts
  /\ \E s \in Streams : ~enabled[s] /\ \A u \in Streams : Frame(u) = <<>>
  /\ crash' = "assert"
  /\ UNCHANGED <<demux, received, main, thread, ctx, shared, local, accepted>>

\* The frame is kept until the other stream has one.
ProcessLater ==
  /\ thread = "process" /\ AwaitsOther /\ ~stopped
  /\ held' = [s \in Streams |-> Frame(s)]
  /\ Goto("loop")
  /\ UNCHANGED <<ctx, shared, previous, origin, success, written, trailer, crash>>

\* "Fail if there is no video"
ProcessNoVideo ==
  /\ thread = "process" /\ AwaitsOther /\ stopped
  /\ Frame("video") = <<>>
  /\ held' = [s \in Streams |-> <<>>]
  /\ Goto("close")
  /\ UNCHANGED <<ctx, shared, previous, origin, success, written, trailer, crash>>

\* The timestamp of a stream's frame, in a sequence of 0 or 1
Since(s) == IF Frame(s) = <<>> THEN <<>> ELSE <<Head(Frame(s)) - Origin>>

\* What is written of each stream: the audio frame, and the video frame before
\* this one, whose duration is now known.
Out(s) ==
  IF s = "audio" THEN Since(s) ELSE IF Frame(s) # <<>> THEN previous ELSE <<>>

File(S) ==
  [s \in Streams |-> IF s \in S THEN written[s] \o Fixed(s, Out(s)) ELSE written[s]]

\* A video frame is written when the next one gives its duration, then the audio
\* frame; a write that fails ends the recording.
Process ==
  /\ thread = "process"
  /\ \/ origin # NoPts
     \/ /\ \E s \in Streams : Frame(s) # <<>>
        /\ AwaitsOther => stopped /\ Frame("video") # <<>>
  /\ origin' = Origin
  /\ held' = [s \in Streams |-> <<>>]
  /\ previous' = IF Frame("video") # <<>> THEN Since("video") ELSE previous
  /\ \/ written' = File(Streams) /\ Goto("loop")
     \/ Out("video") # <<>> /\ UNCHANGED written /\ Goto("close")
     \/ Out("audio") # <<>> /\ written' = File({"video"}) /\ Goto("close")
  /\ UNCHANGED <<ctx, shared, success, trailer, crash>>

\* The last video frame, which may be lost, and the trailer, which may fail:
\* neither makes the recording fail ("error = false" after a failed trailer).
Finish ==
  /\ thread = "finish"
  /\ written' \in {written, [written EXCEPT !["video"] = @ \o Fixed("video", previous)]}
  /\ previous' = <<>>
  /\ trailer' \in {"written", "failed"}
  /\ success' = TRUE
  /\ Goto("close")
  /\ UNCHANGED <<ctx, shared, held, origin, crash>>

CloseOutput ==
  /\ thread = "close"
  /\ ctx' = "freed"
  /\ Goto("end")
  /\ UNCHANGED <<shared, local, crash>>

\* Mutant: the producers are not told.
EndSilent ==
  /\ thread = "end"
  /\ queue' = [s \in Streams |-> <<>>]
  /\ Goto("done")
  /\ UNCHANGED <<stopped, ctx, enabled, inited, expects, local, crash>>

\* "Prevent the producer to push any new packet", "Discard pending packets"
End ==
  /\ thread = "end"
  /\ stopped' = TRUE
  /\ queue' = [s \in Streams |-> <<>>]
  /\ Goto("done")
  /\ UNCHANGED <<ctx, enabled, inited, expects, local, crash>>

SpuriousWakeup ==
  /\ thread # Wake(thread)
  /\ Goto(Wake(thread))
  /\ UNCHANGED <<ctx, shared, local, crash>>

Demuxers ==
  \/ \E s \in Streams : OpenSink(s) \/ FailSink(s) \/ CloseSink(s)
  \/ DisableSink
  \/ \E s \in Streams, p \in Packets : PushPacket(s, p)

Thread ==
  \/ OpenOutput
  \/ AwaitHeader \/ ProcessHeader
  \/ AwaitPacket \/ TakePackets
  \/ ProcessAssert \/ ProcessLater \/ ProcessNoVideo \/ Process
  \/ Finish \/ CloseOutput \/ End

Next == crash = "no" /\ (Demuxers \/ Stop \/ Join \/ Thread \/ SpuriousWakeup)

Spec == Init /\ [][Next]_vars

\* The recorder thread is scheduled; muxing a packet returns.
FairSpec == Spec /\ WF_vars(crash = "no" /\ Thread)

-----------------------------------------------------------------------------
(* Properties.                                                             *)

\* Types; what each thread state holds.
TypeOK ==
  /\ demux \in [Streams -> {"none", "starting", "open", "done"}]
  /\ received \in [Streams -> 0..MaxPackets]
  /\ main \in {"running", "stopping", "joined"}
  /\ thread \in {"open", "header", "headerWait", "loop", "loopWait", "process",
                 "finish", "close", "end", "done"}
  /\ ctx \in {"null", "open", "freed"}
  /\ enabled \in [Streams -> BOOLEAN] /\ inited \in [Streams -> BOOLEAN]
  /\ expects \in BOOLEAN /\ stopped \in BOOLEAN /\ success \in BOOLEAN
  /\ queue \in [Streams -> Seq(Packets)]
  /\ held \in [Streams -> Seq(Packets)] /\ \A s \in Streams : Len(held[s]) <= 1
  /\ accepted \in [Streams -> Seq(0..MaxPts)]
  /\ written \in [Streams -> Seq(Int)]
  /\ trailer \in {"none", "written", "failed"}
  /\ previous \in Seq(Int) /\ Len(previous) <= 1
  /\ origin = NoPts \/ origin \in 0..MaxPts
  /\ crash \in {"no", "assert", "ctx"}
  /\ thread = "process" => \E s \in Streams : held[s] # <<>>

\* Timestamps in the file strictly increase, whatever the device sends and
\* whatever the time base rounds: "Fixing PTS non monotonically increasing".
Increasing ==
  \A s \in Streams : \A i \in 1..Len(written[s]) - 1 :
    written[s][i] < written[s][i + 1]

\* A recording reported complete lost nothing that was accepted before the
\* stop, except perhaps the last video frame, and its trailer was attempted.
\* The report does not say that the trailer was written.
CompleteOnSuccess ==
  success =>
    /\ trailer # "none"
    /\ Len(written["audio"]) = Len(accepted["audio"])
    /\ Len(written["video"]) \in {Len(accepted["video"]) - 1, Len(accepted["video"])}

\* The recorder never sleeps on something it could do.
NoLostWakeup ==
  /\ thread = "headerWait" => ~stopped /\ ~HeaderReady
  /\ thread = "loopWait" =>
       ~stopped /\ \A s \in Streams : ~(enabled[s] /\ Poppable(s))

\* After the thread ended no packet is left in a queue nobody will empty.
NothingLeft == thread = "done" => \A s \in Streams : queue[s] = <<>>

\* What a player may rely on: timestamps that increase, and nothing missing from
\* a recording reported complete.
FileCorrect == Increasing /\ CompleteOnSuccess

\* The packets that the thread can take are taken, or freed at its end.
QueuesServed == NoLostWakeup /\ NothingLeft

\* Once stopped, by the user or by the end of a stream, the thread ends.
StopEnds == stopped ~> (thread = "done" \/ crash # "no")

\* "Recording complete to ..." is only said of a file that can be read.  The
\* model contradicts it: see the README.
SuccessReadable == success => trailer = "written"

\* recorder.c asserts that a frame is there when the origin is chosen (:366).
\* A statement of the source that the model contradicts: see the README.
NoAssertFails == crash # "assert"

=============================================================================
