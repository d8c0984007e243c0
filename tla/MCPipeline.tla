----------------------------- MODULE MCPipeline -----------------------------
(* The pipelines of the options --video-buffer, --v4l2-sink, --v4l2-buffer    *)
(* and --no-video-playback, a codec that needs its configurations merged and  *)
(* one that does not, and the audio stream.                                 *)
EXTENDS Pipeline

Limits(frames, configs, faults, inputs) ==
  [frames |-> frames, configs |-> configs, faults |-> faults, inputs |-> inputs]

Graph(stream, screen, v4l2Sink, recorder, merge, counter, limits) ==
  [stream |-> stream, screen |-> screen, v4l2 |-> v4l2Sink,
   recorder |-> recorder, merge |-> merge, fps |-> counter, limits |-> limits]

MCGraphs ==
  {Graph("video", "direct",  "none",    TRUE,  TRUE,  TRUE,  Limits(3, 1, 1, 2)),
   Graph("video", "delayed", "none",    TRUE,  TRUE,  FALSE, Limits(3, 1, 1, 2)),
   Graph("video", "none",    "delayed", FALSE, FALSE, FALSE, Limits(3, 0, 1, 1)),
   Graph("video", "direct",  "direct",  FALSE, FALSE, FALSE, Limits(2, 0, 1, 1)),
   Graph("video", "delayed", "direct",  FALSE, FALSE, FALSE, Limits(2, 0, 1, 1)),
   Graph("audio", "none",    "none",    FALSE, FALSE, FALSE, Limits(0, 0, 0, 1))}

=============================================================================
