----------------------------- MODULE MCSession -----------------------------
(* The command lines checked, and those whose session is followed.         *)
EXTENDS Session

\* every argument the module knows
MCArguments ==
  {"-d", "-e", "--record=x.mp4", "--record=x.mkv", "--record=x.opus", "--record=x", "-K", "--keyboard=aoa",
   "--keyboard=uhid", "--keyboard=disabled", "-M", "--mouse=sdk", "--mouse=disabled",
   "--mouse-bind=bhsn", "--no-mouse-hover", "--tunnel-port=1", "--no-control",
   "--no-playback", "--no-video-playback", "--display-id=1", "--serial=x",
   "--turn-screen-off", "--prefer-text", "--raw-key-events", "--record-orientation=flip0",
   "--no-key-repeat", "--video-buffer=50", "--tcpip", "--tcpip=x", "--no-video",
   "--no-audio", "--print-fps", "--audio-codec=raw", "--audio-codec=flac", "--otg",
   "--v4l2-sink=x", "--v4l2-buffer=50", "--list-displays", "--require-audio",
   "--audio-buffer=50", "--video-source=camera", "--audio-source=mic", "--time-limit=60",
   "--camera-id=0", "--no-window", "--audio-dup", "-G", "--new-display",
   "--display-ime-policy=local"}

MCLaunched ==
  {<<"--no-audio", "--print-fps">>, <<"--record=x.mkv", "--no-control", "--no-window">>,
   <<"--no-audio", "--no-control", "--record=x.mkv">>,
   <<"--no-video", "--no-control", "--no-window">>,
   <<"--no-video", "--no-audio", "--time-limit=60">>,
   <<"--no-video", "--no-audio", "--no-window", "--keyboard=aoa">>,
   <<"--no-control", "--no-audio", "--no-video-playback", "--no-window", "--v4l2-sink=x">>,
   <<"--list-displays">>, <<"--otg">>}

MCTimed == {<<"--no-video", "--no-audio", "--time-limit=60">>}
=============================================================================
