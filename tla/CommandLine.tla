---------------------------- MODULE CommandLine ----------------------------
(***************************************************************************)
(* The command line of the client (cli.c): what each argument sets, how the *)
(* options are completed once all arguments are read, which combinations    *)
(* are refused, and what the rest of the client asserts of the options it   *)
(* is given.                                                                *)
(*                                                                          *)
(* An option is a field of a record; an option whose value does not matter  *)
(* to any check is a boolean (given or not).                                *)
(***************************************************************************)
EXTENDS Naturals, Sequences, FiniteSets

\* scrcpy_options_default
Default ==
  [window |-> TRUE, video |-> TRUE, audio |-> TRUE, control |-> TRUE,
   videoPlayback |-> TRUE, audioPlayback |-> TRUE, record |-> "none",
   mirrored |-> FALSE, audioCodec |-> "opus", requireAudio |-> FALSE,
   audioBuffer |-> "unset", v4l2 |-> FALSE, v4l2Buffer |-> FALSE,
   videoBuffer |-> FALSE, otg |-> FALSE, list |-> FALSE, timeLimit |-> FALSE,
   keyboard |-> "auto", mouse |-> "auto", gamepad |-> "disabled",
   inject |-> "mixed", keyRepeat |-> TRUE, mouseHover |-> TRUE, bindings |-> "auto",
   camera |-> FALSE, cameraOptions |-> FALSE, audioSource |-> "auto",
   audioDup |-> FALSE, newDisplay |-> FALSE, displayId |-> FALSE, ime |-> FALSE,
   serial |-> FALSE, usb |-> FALSE, network |-> FALSE, tcpip |-> FALSE, address |-> FALSE,
   tunnel |-> FALSE, forward |-> FALSE, deviceAction |-> FALSE, fps |-> FALSE,
   powerOn |-> TRUE, downsize |-> TRUE, error |-> FALSE]

\* Arguments in the order of the switch of parse_args_with_getopt.
DeviceEffect(a, o) ==
  CASE a = "-d"                    -> [o EXCEPT !.usb = TRUE]
    [] a = "-e"                    -> [o EXCEPT !.network = TRUE]
    [] a = "--record=x.mkv"        -> [o EXCEPT !.record = "mkv"]
    [] a = "--record=x.opus"       -> [o EXCEPT !.record = "opus"]
    [] a = "--record=x.mp4"        -> [o EXCEPT !.record = "mp4"]
    [] a = "--record=x"            -> [o EXCEPT !.record = "unknown"]
    [] a = "-K"                    -> [o EXCEPT !.keyboard = "uhid or aoa"]
    [] a = "--keyboard=aoa"        -> [o EXCEPT !.keyboard = "aoa"]
    [] a = "--keyboard=uhid"       -> [o EXCEPT !.keyboard = "uhid"]
    [] a = "--keyboard=disabled"   -> [o EXCEPT !.keyboard = "disabled"]
    [] a = "-M"                    -> [o EXCEPT !.mouse = "uhid or aoa"]
    [] a = "--mouse=sdk"           -> [o EXCEPT !.mouse = "sdk"]
    [] a = "--mouse=disabled"      -> [o EXCEPT !.mouse = "disabled"]
    [] a = "--mouse-bind=bhsn"     -> [o EXCEPT !.bindings = "custom"]
    [] a = "--no-mouse-hover"      -> [o EXCEPT !.mouseHover = FALSE]
    [] a = "--tunnel-port=1"       -> [o EXCEPT !.tunnel = TRUE]
    [] a = "--no-control"          -> [o EXCEPT !.control = FALSE]
    [] a = "--no-playback"         -> [o EXCEPT !.videoPlayback = FALSE,
                                                !.audioPlayback = FALSE]
    [] a = "--no-video-playback"   -> [o EXCEPT !.videoPlayback = FALSE]
    [] a = "--display-id=1"        -> [o EXCEPT !.displayId = TRUE]
    [] OTHER -> o

LaterEffect(a, o) ==
  CASE a = "--serial=x"            -> [o EXCEPT !.serial = TRUE]
    [] a = "--turn-screen-off"     -> [o EXCEPT !.deviceAction = TRUE]
    [] a \in {"--prefer-text", "--raw-key-events"} ->
         IF o.inject = "mixed" THEN [o EXCEPT !.inject = a] ELSE [o EXCEPT !.error = TRUE]
    [] a = "--record-orientation=flip0" -> [o EXCEPT !.mirrored = TRUE]
    [] a = "--no-key-repeat"       -> [o EXCEPT !.keyRepeat = FALSE]
    [] a = "--video-buffer=50"     -> [o EXCEPT !.videoBuffer = TRUE]
    [] a = "--tcpip"               -> [o EXCEPT !.tcpip = TRUE, !.address = FALSE]
    [] a = "--tcpip=x"             -> [o EXCEPT !.tcpip = TRUE, !.address = TRUE]
    [] a = "--no-video"            -> [o EXCEPT !.video = FALSE]
    [] a = "--no-audio"            -> [o EXCEPT !.audio = FALSE]
    [] a = "--print-fps"           -> [o EXCEPT !.fps = TRUE]
    [] a = "--audio-codec=raw"     -> [o EXCEPT !.audioCodec = "raw"]
    [] a = "--audio-codec=flac"    -> [o EXCEPT !.audioCodec = "flac"]
    [] OTHER -> o

LastEffect(a, o) ==
  CASE a = "--otg"                 -> [o EXCEPT !.otg = TRUE]
    [] a = "--v4l2-sink=x"         -> [o EXCEPT !.v4l2 = TRUE]
    [] a = "--v4l2-buffer=50"      -> [o EXCEPT !.v4l2Buffer = TRUE]
    [] a = "--list-displays"       -> [o EXCEPT !.list = TRUE]
    [] a = "--require-audio"       -> [o EXCEPT !.requireAudio = TRUE]
    [] a = "--audio-buffer=50"     -> [o EXCEPT !.audioBuffer = "50"]
    [] a = "--video-source=camera" -> [o EXCEPT !.camera = TRUE]
    [] a = "--audio-source=mic"    -> [o EXCEPT !.audioSource = "mic"]
    [] a = "--time-limit=60"       -> [o EXCEPT !.timeLimit = TRUE]
    [] a = "--camera-id=0"         -> [o EXCEPT !.cameraOptions = TRUE]
    [] a = "--no-window"           -> [o EXCEPT !.window = FALSE]
    [] a = "--audio-dup"           -> [o EXCEPT !.audioDup = TRUE]
    [] a = "-G"                    -> [o EXCEPT !.gamepad = "uhid or aoa"]
    [] a = "--new-display"         -> [o EXCEPT !.newDisplay = TRUE]
    [] a = "--display-ime-policy=local" -> [o EXCEPT !.ime = TRUE]
    [] OTHER -> o

\* An argument no case of the switch knows leaves the options as they are.
Effect(a, o) == LastEffect(a, LaterEffect(a, DeviceEffect(a, o)))

\* The options, once the arguments are read one after the other.
Given(args) ==
  LET after[n \in 0 .. Len(args)] ==
        IF n = 0 THEN Default ELSE Effect(args[n], after[n - 1])
  IN  after[Len(args)]

-----------------------------------------------------------------------------
(* What follows the loop over the arguments, in the order of the code.     *)

\* Mutant: the audio is still to be played when it is not captured.
StreamsHeard(o) ==
  [o EXCEPT !.video = @ /\ (o.videoPlayback \/ o.record # "none" \/ o.v4l2),
            !.audio = @ /\ (o.audioPlayback \/ o.record # "none")]

\* The streams that are of no use are not captured.
Streams(o) ==
  LET plays   == o.videoPlayback /\ o.window /\ o.video
      hears   == o.audioPlayback /\ o.audio
      records == o.record # "none"
  IN  [o EXCEPT !.videoPlayback = plays, !.audioPlayback = hears,
                !.video = @ /\ (plays \/ records \/ o.v4l2),
                !.audio = @ /\ (hears \/ records),
                !.powerOn = @ /\ o.video]

Idle(o) == ~o.video /\ ~o.audio /\ ~o.control /\ ~o.otg

\* Mutant: audio is not required even if there is nothing else.
BuffersLax(o) == [o EXCEPT !.audioBuffer = "50", !.downsize = @ /\ ~o.v4l2]

Buffers(o) ==
  [o EXCEPT !.requireAudio = @ \/ (~o.video /\ ~o.otg),
            !.audioBuffer = IF ~o.audioPlayback \/ @ # "unset" THEN @
                            ELSE IF o.audioCodec = "flac" THEN "120" ELSE "50",
            !.downsize = @ /\ ~o.v4l2]

\* "auto" and "uhid or aoa" are resolved only if there is a control stream.
Hid(o) == IF o.otg THEN "aoa" ELSE "uhid"
Modes(o) ==
  IF ~o.control THEN o
  ELSE [o EXCEPT
    !.keyboard = IF @ = "auto" THEN IF o.otg THEN "aoa" ELSE "sdk"
                 ELSE IF @ = "uhid or aoa" THEN Hid(o) ELSE @,
    !.mouse = IF @ = "auto"
              THEN IF o.otg THEN "aoa" ELSE IF o.videoPlayback THEN "sdk" ELSE "disabled"
              ELSE IF @ = "uhid or aoa" THEN Hid(o) ELSE @,
    !.gamepad = IF @ = "uhid or aoa" THEN Hid(o) ELSE @]

Bindings(o) ==
  [o EXCEPT !.bindings = IF @ # "auto" THEN @
                         ELSE IF o.mouse = "sdk" THEN "shortcuts" ELSE "forward"]

\* The camera has no control stream; the audio source follows the video source.
Sources(o) ==
  [o EXCEPT !.control = @ /\ ~o.camera,
            !.forward = @ \/ o.tunnel,
            !.audioSource = IF ~o.audio \/ @ # "auto" THEN @
                            ELSE IF o.camera THEN "mic"
                            ELSE IF o.audioDup THEN "playback" ELSE "output",
            !.fps = @ /\ o.videoPlayback]

\* The options after each group of completions.
Opened(args) == Streams(Given(args))
Typed(args)  == Bindings(Modes(Buffers(Opened(args))))
Parse(args)  == Sources(Typed(args))

\* Device selection, streams, V4L2: checked before the modes are known.
RefusedStreams(o, v4l2Device) ==
  \/ o.error
  \/ Cardinality({i \in 1 .. 4 : <<o.serial, o.address, o.network, o.usb>>[i]}) > 1
  \/ Idle(o)
  \/ v4l2Device /\ ~o.video
  \/ o.v4l2Buffer /\ ~v4l2Device

\* `given` has the mouse mode as it was typed.
RefusedModes(o, given) ==
  \/ o.control /\ given.mouse = "sdk" /\ ~o.videoPlayback
  \/ o.newDisplay /\ (o.camera \/ ~o.video)
  \/ o.otg /\ \/ ~o.control
              \/ \E mode \in {o.keyboard, o.mouse, o.gamepad} : mode \notin {"aoa", "disabled"}
              \/ o.keyboard = "disabled" /\ o.mouse = "disabled" /\ o.gamepad = "disabled"
  \/ o.keyboard # "sdk" /\ (o.inject # "mixed" \/ ~o.keyRepeat)
  \/ o.mouse # "sdk" /\ ~o.mouseHover

RefusedSources(o) ==
  \/ o.camera /\ (o.displayId \/ o.ime)
  \/ ~o.camera /\ o.cameraOptions
  \/ o.displayId /\ o.newDisplay
  \/ o.ime /\ ~o.displayId /\ ~o.newDisplay
  \/ o.audioDup /\ (~o.audio \/ o.audioSource # "playback")

RefusedRecording(o) ==
  /\ o.record # "none"
  /\ \/ ~o.video /\ ~o.audio
     \/ o.record = "unknown"
     \/ o.mirrored
     \/ o.video /\ o.record = "opus"
     \/ o.record = "opus" /\ o.audioCodec # "opus"
     \/ o.record = "mp4" /\ o.audioCodec = "raw"

RefusedActions(o) ==
  \/ ~o.control /\ o.deviceAction
  \/ o.otg /\ (o.record # "none" \/ o.deviceAction \/ o.displayId \/ o.v4l2)

Accepted(args) ==
  LET given == Given(args)
      o == Parse(args)
  IN  /\ ~RefusedStreams(Opened(args), given.v4l2)
      /\ ~RefusedModes(Typed(args), given)
      /\ ~RefusedSources(o) /\ ~RefusedRecording(o) /\ ~RefusedActions(o)

-----------------------------------------------------------------------------
(* What the client asserts of accepted options.                            *)

\* scrcpy.c, server.c, recorder.c, delay_buffer.c, input_manager.c
SessionAssertions(o) ==
  /\ (o.videoPlayback => o.video) /\ (o.audioPlayback => o.audio)
  /\ o.audio => o.audioSource # "auto"
  /\ o.address => o.tcpip /\ ~o.serial
  /\ ~(o.serial /\ o.usb)
  /\ o.record # "none" => (o.video \/ o.audio) /\ ~o.mirrored
  /\ o.v4l2 => o.video
  /\ o.control => {o.keyboard, o.mouse, o.gamepad} \cap {"auto", "uhid or aoa"} = {}
  /\ o.bindings # "auto"

\* scrcpy_otg.c
OtgAssertions(o) ==
  \A mode \in {o.keyboard, o.mouse, o.gamepad} : mode \in {"aoa", "disabled"}

=============================================================================
