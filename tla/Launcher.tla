------------------------------ MODULE Launcher ------------------------------
(***************************************************************************)
(* The "scrcpy-server" thread of the client (server.c): it runs adb         *)
(* commands, opens an adb tunnel, starts the server on the device, connects *)
(* the sockets, and ends when it is stopped.                                *)
(*                                                                          *)
(* Three threads: this one, the main thread, which may stop it, and the     *)
(* observer (process.c), which waits for the process of the server.  Stop   *)
(* and the observer wake the blocking calls up through sc_intr (intr.c), in *)
(* which each call registers its socket or its process before it blocks.    *)
(*                                                                          *)
(* A blocking call goes through these phases: idle, opened (its socket is   *)
(* created), spawned (its process runs), reading (the process's output),    *)
(* read, blocked (registered), returned, closing (unregistered, but not     *)
(* reaped), and ended, with its result.                                     *)
(***************************************************************************)
EXTENDS Naturals

CONSTANTS
  MaxPort,     \* ports 0..MaxPort are tried
  MaxAttempts  \* attempts to connect, or to see adb in TCP/IP mode

ASSUME BoundsAssumption == MaxPort \in Nat /\ MaxAttempts \in Nat \ {0}

Media   == {"video", "audio", "control"}
Sockets == Media \cup {"listening"}

VARIABLES
  params,      \* server->params
  main,        \* the main thread: running, stopped, destroyed
  stopped,     \* server->stopped
  interrupted, \* intr.interrupted
  registered,  \* what intr holds: none, process, socket
  step,        \* the call, or the wait, the server thread is at
  phase,       \* where it stands in that call
  result,      \* the result of that call
  adb,         \* process of the adb command: none, running, ok, failed
  device,      \* process of the server: none, running, dead, reaped
  sock,        \* the sockets: none, open, down (interrupted)
  tunnel,      \* none (not enabled), reverse, forward
  port,        \* the port tried
  attempts,    \* attempts left
  observer,    \* none, waiting, seen (terminated is set), ended, joined
  told,        \* callback made: nothing, connected, failed
  disconnected \* on_disconnected was called

intrVars   == <<interrupted, registered>>
callVars   == <<phase, result, adb>>
tunnelVars == <<tunnel, port, attempts>>
childVars  == <<device, observer, disconnected>>
vars == <<params, main, stopped, intrVars, step, callVars, childVars, sock,
          tunnelVars, told>>

-----------------------------------------------------------------------------
(* The calls and their order.                                              *)

\* Commands whose output is read through a pipe.
Piped == {"devices", "ip", "getprop", "poll", "connect"}

\* close-tunnel, abandon and discard call sc_adb_tunnel_close.
Commands ==
  Piped \cup {"start-server", "tcpip", "disconnect", "push", "reverse", "unreverse",
              "forward", "close-tunnel", "abandon", "discard", "kill-server"}

\* Calls that block on a socket; the first ones create it.
Creating == {"listen", "dial", "join"}
SocketCalls == Creating \cup {"accept", "byte", "info"}

\* What may follow a call when only its result, and data the model leaves open,
\* decide.
Follow ==
  CASE step \in {"start-server", "devices", "ip", "tcpip", "connect", "push"} /\ ~result ->
         {"failed"}
    [] step = "start-server" ->
         IF params.address = "known" THEN {"disconnect", "connect"} ELSE {"devices"}
    [] step = "devices" ->
         {"failed", "push"} \cup IF params.address = "unknown" THEN {"ip"} ELSE {}
    [] step = "ip"         -> {"getprop", "failed"}
    [] step = "getprop"    -> {"tcpip"} \cup IF result THEN {"connect"} ELSE {}
    [] step = "tcpip"      -> {"poll"}
    [] step = "poll"       -> IF result THEN {"connect"} ELSE {}
    [] step = "disconnect" -> {"connect"}
    [] step = "connect"    -> {"push", "failed"}
    [] step = "push"       -> {IF params.lists THEN "list"
                               ELSE IF params.force THEN "forward" ELSE "reverse"}
    [] step = "reverse"    -> {IF result THEN "listen" ELSE "forward"}
    [] OTHER               -> {}

Missing == {m \in params.media : sock[m] = "none"}

\* video, then audio, then control
FirstOf(S) ==
  IF "video" \in S THEN "video" ELSE IF "audio" \in S THEN "audio" ELSE "control"
LastOf(S) ==
  IF "control" \in S THEN "control" ELSE IF "audio" \in S THEN "audio" ELSE "video"

\* The socket a call blocks on.
Subject ==
  CASE step \in {"listen", "accept"} -> "listening"
    [] step = "join" -> LastOf(params.media \ Missing)
    [] OTHER -> FirstOf(params.media)

-----------------------------------------------------------------------------
Init ==
  /\ params \in [lists : BOOLEAN, address : {"none", "known", "unknown"},
                 force : BOOLEAN, kill : BOOLEAN, media : (SUBSET Media) \ {{}}]
  /\ main = "running" /\ stopped = FALSE
  /\ interrupted = FALSE /\ registered = "none"
  /\ step = "start-server" /\ phase = "idle" /\ result = FALSE
  /\ adb = "none" /\ device = "none" /\ observer = "none"
  /\ sock = [s \in Sockets |-> "none"]
  /\ tunnel = "none" /\ port = 0 /\ attempts = MaxAttempts
  /\ told = "nothing" /\ disconnected = FALSE

-----------------------------------------------------------------------------
(* Blocking calls and their interruption                                   *)

\* sc_intr_interrupt: the socket is shut down, or the process is killed.
Interrupt ==
  /\ interrupted' = TRUE
  /\ registered' = "none"
  /\ sock' = IF registered = "socket" THEN [sock EXCEPT ![Subject] = "down"] ELSE sock
  /\ adb' = IF registered = "process" /\ adb = "running" THEN "failed" ELSE adb

EndCall(r) == phase' = "ended" /\ result' = r

InCommand == step \in Commands
CallFrame == UNCHANGED <<params, main, stopped, step, childVars, sock, tunnelVars, told>>

\* sc_adb_execute
Spawn ==
  /\ InCommand /\ phase = "idle"
  /\ \/ adb' = "running" /\ phase' = "spawned" /\ UNCHANGED result
     \/ EndCall(FALSE) /\ UNCHANGED adb
  /\ CallFrame /\ UNCHANGED intrVars

\* sc_intr_set_process, before the output is read and before the process is
\* waited for; once interrupted, the process is left to itself.
SetProcess ==
  /\ InCommand /\ phase \in {"spawned", "read"}
  /\ IF interrupted
     THEN EndCall(FALSE) /\ adb' = "none" /\ UNCHANGED intrVars
     ELSE /\ registered' = "process"
          /\ phase' = IF phase = "spawned" /\ step \in Piped THEN "reading" ELSE "blocked"
          /\ UNCHANGED <<interrupted, result, adb>>
  /\ CallFrame

\* sc_pipe_read_all_intr: the output ends with the process.
Read ==
  /\ phase = "reading" /\ adb # "running"
  /\ phase' = "read" /\ registered' = "none"
  /\ CallFrame /\ UNCHANGED <<interrupted, result, adb>>

\* Mutant: the process is reaped by the wait itself.
WaitProcessClosing ==
  /\ InCommand /\ phase = "blocked" /\ adb # "running"
  /\ phase' = "returned" /\ adb' = "none"
  /\ CallFrame /\ UNCHANGED <<intrVars, result>>

\* sc_process_wait without close
WaitProcess ==
  /\ InCommand /\ phase = "blocked" /\ adb # "running"
  /\ phase' = "returned"
  /\ CallFrame /\ UNCHANGED <<intrVars, result, adb>>

UnsetProcess ==
  /\ InCommand /\ phase = "returned"
  /\ phase' = "closing" /\ registered' = "none"
  /\ CallFrame /\ UNCHANGED <<interrupted, result, adb>>

\* sc_process_close
CloseProcess ==
  /\ phase = "closing"
  /\ EndCall(adb = "ok") /\ adb' = "none"
  /\ CallFrame /\ UNCHANGED intrVars

\* net_socket
CreateSocket ==
  /\ step \in Creating /\ phase = "idle"
  /\ \/ /\ sock' = [sock EXCEPT ![IF step = "listen" THEN "listening"
                                  ELSE FirstOf(Missing)] = "open"]
        /\ phase' = "opened" /\ UNCHANGED result
     \/ EndCall(FALSE) /\ UNCHANGED sock
  /\ UNCHANGED <<params, main, stopped, intrVars, step, adb, childVars, tunnelVars, told>>

\* Mutant: the socket is registered although nobody will interrupt it any more.
SetSocketAnyway ==
  /\ step \in SocketCalls
  /\ phase = IF step \in Creating THEN "opened" ELSE "idle"
  /\ registered' = "socket" /\ phase' = "blocked"
  /\ CallFrame /\ UNCHANGED <<interrupted, result, adb>>

\* sc_intr_set_socket
SetSocket ==
  /\ step \in SocketCalls
  /\ phase = IF step \in Creating THEN "opened" ELSE "idle"
  /\ IF interrupted
     THEN EndCall(FALSE) /\ UNCHANGED intrVars
     ELSE registered' = "socket" /\ phase' = "blocked" /\ UNCHANGED <<interrupted, result>>
  /\ CallFrame /\ UNCHANGED adb

\* net_listen, net_accept, net_connect, net_recv; once the socket is shut down
\* the call returns, with a failure unless it was answered before.
SocketReturns ==
  /\ step \in SocketCalls /\ phase = "blocked"
  /\ phase' = "returned" /\ result' \in BOOLEAN
  /\ CallFrame /\ UNCHANGED <<intrVars, adb>>

\* Mutant: the socket stays registered.
UnsetSocketNot ==
  /\ step \in SocketCalls /\ phase = "returned"
  /\ phase' = "ended"
  /\ CallFrame /\ UNCHANGED <<intrVars, result, adb>>

UnsetSocket ==
  /\ step \in SocketCalls /\ phase = "returned"
  /\ phase' = "ended" /\ registered' = "none"
  /\ CallFrame /\ UNCHANGED <<interrupted, result, adb>>

-----------------------------------------------------------------------------
(* run_server, from call to call                                           *)

Ended(s, r) == step = s /\ phase = "ended" /\ result = r

Go(next) == step' = next /\ phase' = "idle"

StepFrame == UNCHANGED <<params, main, stopped, intrVars, result, adb, told>>

\* The calls that only lead to the next one.
Proceed ==
  /\ phase = "ended"
  /\ \E next \in Follow : Go(next)
  /\ StepFrame /\ UNCHANGED <<childVars, sock, tunnelVars>>

\* wait_tcpip_mode_enabled
PollAgain ==
  /\ step = "poll" /\ phase = "ended"
  /\ Go(IF attempts = 0 THEN "failed" ELSE "nap")
  /\ StepFrame /\ UNCHANGED <<childVars, sock, tunnelVars>>

\* sc_server_sleep
Nap ==
  /\ step = "nap"
  /\ IF stopped
     THEN Go("failed") /\ UNCHANGED attempts
     ELSE Go("poll") /\ attempts' = attempts - 1
  /\ StepFrame /\ UNCHANGED <<childVars, sock, tunnel, port>>

\* enable_tunnel_reverse_any_port
Listen ==
  /\ Ended("listen", TRUE)
  /\ tunnel' = "reverse" /\ Go("execute")
  /\ StepFrame /\ UNCHANGED <<childVars, sock, port, attempts>>

ListenFails ==
  /\ Ended("listen", FALSE)
  /\ sock' = [sock EXCEPT !["listening"] = "none"]
  /\ IF interrupted
     THEN Go("forward") /\ port' = 0
     ELSE Go("unreverse") /\ UNCHANGED port
  /\ StepFrame /\ UNCHANGED <<childVars, tunnel, attempts>>

NextReverse ==
  /\ step = "unreverse" /\ phase = "ended"
  /\ IF port < MaxPort
     THEN Go("reverse") /\ port' = port + 1
     ELSE Go("forward") /\ port' = 0
  /\ StepFrame /\ UNCHANGED <<childVars, sock, tunnel, attempts>>

\* enable_tunnel_forward_any_port
Forward ==
  /\ Ended("forward", TRUE)
  /\ tunnel' = "forward" /\ Go("execute")
  /\ StepFrame /\ UNCHANGED <<childVars, sock, port, attempts>>

ForwardFails ==
  /\ Ended("forward", FALSE)
  /\ IF ~interrupted /\ port < MaxPort
     THEN Go("forward") /\ port' = port + 1
     ELSE Go("failed") /\ UNCHANGED port
  /\ StepFrame /\ UNCHANGED <<childVars, sock, tunnel, attempts>>

\* execute_server, then the next call or the way out.
Execute(next, failed) ==
  \/ device' = "running" /\ Go(next)
  \/ Go(failed) /\ UNCHANGED device

\* Mutant: the tunnel stays open when the server cannot be executed.
LaunchLeaky ==
  /\ step = "execute" /\ Execute("watch", "failed")
  /\ attempts' = MaxAttempts
  /\ StepFrame /\ UNCHANGED <<observer, disconnected, sock, tunnel, port>>

Launch ==
  /\ step = "execute" /\ Execute("watch", "discard")
  /\ attempts' = MaxAttempts
  /\ StepFrame /\ UNCHANGED <<observer, disconnected, sock, tunnel, port>>

\* sc_process_observer_init; a server that nobody can observe is killed and reaped.
Watch ==
  /\ step = "watch"
  /\ \/ /\ observer' = "waiting" /\ UNCHANGED device
        /\ Go(IF tunnel = "reverse" THEN "accept" ELSE "dial")
     \/ device' = "reaped" /\ Go("discard") /\ UNCHANGED observer
  /\ StepFrame /\ UNCHANGED <<disconnected, sock, tunnelVars>>

\* connect_to_server
Dial ==
  /\ Ended("dial", TRUE) /\ Go("byte")
  /\ StepFrame /\ UNCHANGED <<childVars, sock, tunnelVars>>

DialFails ==
  /\ Ended("dial", FALSE) \/ Ended("byte", FALSE)
  /\ sock' = [m \in Sockets |-> "none"]
  /\ Go(IF interrupted THEN "abandon" ELSE "pause")
  /\ StepFrame /\ UNCHANGED <<childVars, tunnelVars>>

Pause ==
  /\ step = "pause"
  /\ attempts' = attempts - 1
  /\ Go(IF stopped \/ attempts = 1 THEN "abandon" ELSE "dial")
  /\ StepFrame /\ UNCHANGED <<childVars, sock, tunnel, port>>

\* sc_server_connect_to, with the sockets in order
Accept ==
  /\ Ended("accept", TRUE)
  /\ sock' = [sock EXCEPT ![FirstOf(Missing)] = "open"]
  /\ Go(IF Missing = {FirstOf(Missing)} THEN "close-tunnel" ELSE "accept")
  /\ StepFrame /\ UNCHANGED <<childVars, tunnelVars>>

Join ==
  /\ Ended("byte", TRUE) \/ Ended("join", TRUE)
  /\ Go(IF Missing = {} THEN "close-tunnel" ELSE "join")
  /\ StepFrame /\ UNCHANGED <<childVars, sock, tunnelVars>>

CloseMedia == [s \in Sockets |-> IF s \in Media THEN "none" ELSE sock[s]]

\* fail: the sockets are closed, and the tunnel with them
Abandon ==
  /\ Ended("accept", FALSE) \/ Ended("join", FALSE)
  /\ sock' = CloseMedia
  /\ Go("abandon")
  /\ StepFrame /\ UNCHANGED <<childVars, tunnelVars>>

\* sc_adb_tunnel_close, whatever the command returned
CloseTunnel ==
  /\ step \in {"close-tunnel", "abandon", "discard"} /\ phase = "ended"
  /\ tunnel' = "none" /\ sock' = [sock EXCEPT !["listening"] = "none"]
  /\ Go(CASE step = "close-tunnel" -> "info"
          [] step = "abandon" -> "give-up"
          [] step = "discard" -> "failed")
  /\ StepFrame /\ UNCHANGED <<childVars, port, attempts>>

NoInfo ==
  /\ Ended("info", FALSE)
  /\ sock' = CloseMedia /\ Go("give-up")
  /\ StepFrame /\ UNCHANGED <<childVars, tunnelVars>>

\* The server is killed and reaped, the observer joined.
GiveUp ==
  /\ step = "give-up"
  /\ device' = "reaped" /\ Go("join-failed")
  /\ StepFrame /\ UNCHANGED <<observer, disconnected, sock, tunnelVars>>

JoinObserver ==
  /\ step \in {"join-failed", "join-observer"} /\ observer = "ended"
  /\ observer' = "joined"
  /\ Go(IF step = "join-failed" THEN "failed" ELSE "close")
  /\ StepFrame /\ UNCHANGED <<device, disconnected, sock, tunnelVars>>

\* Now connected: the sockets are handed over and on_connected is called.
Connected ==
  /\ Ended("info", TRUE)
  /\ told' = "connected" /\ Go("serve")
  /\ UNCHANGED <<params, main, stopped, intrVars, result, adb, childVars, sock, tunnelVars>>

\* Mutant: the end of the server is taken for a stop.
ServeUntilInterrupted ==
  /\ step = "serve" /\ interrupted
  /\ sock' = [m \in Sockets |-> IF sock[m] = "open" THEN "down" ELSE sock[m]]
  /\ Go("watchdog")
  /\ StepFrame /\ UNCHANGED <<childVars, tunnelVars>>

\* Wait for server_stop(), then interrupt the sockets.
Serve ==
  /\ step = "serve" /\ stopped
  /\ sock' = [m \in Sockets |-> IF sock[m] = "open" THEN "down" ELSE sock[m]]
  /\ Go("watchdog")
  /\ StepFrame /\ UNCHANGED <<childVars, tunnelVars>>

\* The server has terminated, or is killed after the delay.
Watchdog ==
  /\ step = "watchdog"
  /\ device' = IF observer = "waiting" /\ device = "running" THEN "dead" ELSE device
  /\ Go("join-observer")
  /\ StepFrame /\ UNCHANGED <<observer, disconnected, sock, tunnelVars>>

CloseServer ==
  /\ step = "close"
  /\ device' = "reaped"
  /\ Go(IF params.kill THEN "kill-server" ELSE "done")
  /\ StepFrame /\ UNCHANGED <<observer, disconnected, sock, tunnelVars>>

\* --list-*: the server prints what is asked for, and exits; only then ...
List ==
  /\ step = "list" /\ Execute("listing", "failed")
  /\ StepFrame /\ UNCHANGED <<observer, disconnected, sock, tunnelVars>>

\* ... is await_for_server woken up.
Listed ==
  /\ step = "listing" /\ device = "dead"
  /\ device' = "reaped" /\ told' = "connected" /\ Go("done")
  /\ UNCHANGED <<params, main, stopped, intrVars, result, adb, observer, disconnected,
                 sock, tunnelVars>>

\* error_connection_failed
Failed ==
  /\ step = "failed"
  /\ Go(IF params.kill THEN "kill-server" ELSE "report")
  /\ StepFrame /\ UNCHANGED <<childVars, sock, tunnelVars>>

AdbKilled ==
  /\ step = "kill-server" /\ phase = "ended"
  /\ Go(IF told = "connected" THEN "done" ELSE "report")
  /\ StepFrame /\ UNCHANGED <<childVars, sock, tunnelVars>>

Report ==
  /\ step = "report"
  /\ told' = "failed" /\ Go("done")
  /\ UNCHANGED <<params, main, stopped, intrVars, result, adb, childVars, sock, tunnelVars>>

-----------------------------------------------------------------------------
(* The other threads                                                       *)

\* sc_server_stop
Stop ==
  /\ main = "running"
  /\ main' = "stopped" /\ stopped' = TRUE
  /\ Interrupt
  /\ UNCHANGED <<params, step, phase, result, childVars, tunnelVars, told>>

\* sc_server_join and sc_server_destroy, which closes the sockets
Destroy ==
  /\ main = "stopped" /\ step = "done"
  /\ main' = "destroyed"
  /\ sock' = [s \in Sockets |-> "none"]
  /\ UNCHANGED <<params, stopped, intrVars, step, callVars, childVars, tunnelVars, told>>

\* run_observer: the process is dead, or was reaped by the server thread.
Observe ==
  /\ observer = "waiting" /\ device \in {"dead", "reaped"}
  /\ observer' = "seen"
  /\ UNCHANGED <<params, main, stopped, intrVars, step, callVars, device, disconnected,
                 sock, tunnelVars, told>>

\* Mutant: only the callback, as if nothing could be blocked.
OnTerminatedSilent ==
  /\ observer = "seen"
  /\ observer' = "ended" /\ disconnected' = TRUE
  /\ UNCHANGED <<params, main, stopped, intrVars, step, callVars, device, sock,
                 tunnelVars, told>>

\* sc_server_on_terminated
OnTerminated ==
  /\ observer = "seen"
  /\ observer' = "ended" /\ disconnected' = TRUE
  /\ Interrupt
  /\ UNCHANGED <<params, main, stopped, step, phase, result, device, tunnelVars, told>>

\* The processes end when they like.
AdbEnds ==
  /\ adb = "running" /\ adb' \in {"ok", "failed"}
  /\ UNCHANGED <<params, main, stopped, intrVars, step, phase, result, childVars, sock,
                 tunnelVars, told>>

DeviceDies ==
  /\ device = "running" /\ device' = "dead"
  /\ UNCHANGED <<params, main, stopped, intrVars, step, callVars, observer, disconnected,
                 sock, tunnelVars, told>>

Calls ==
  \/ Spawn \/ SetProcess \/ Read \/ WaitProcess \/ UnsetProcess \/ CloseProcess
  \/ CreateSocket \/ SetSocket \/ UnsetSocket

Steps ==
  \/ Proceed \/ PollAgain \/ Nap
  \/ Listen \/ ListenFails \/ NextReverse \/ Forward \/ ForwardFails
  \/ Launch \/ Watch \/ Dial \/ DialFails \/ Pause \/ Accept \/ Join \/ Abandon \/ CloseTunnel
  \/ NoInfo \/ GiveUp \/ JoinObserver \/ Connected \/ Serve \/ Watchdog \/ CloseServer
  \/ List \/ Listed \/ Failed \/ AdbKilled \/ Report

Next ==
  \/ Calls \/ SocketReturns \/ Steps
  \/ Stop \/ Destroy \/ Observe \/ OnTerminated
  \/ AdbEnds \/ DeviceDies

Spec == Init /\ [][Next]_vars

\* The threads are scheduled, and a call on a socket shut down returns.  Nothing
\* is assumed of adb, of the server, or of the other end of the sockets, except
\* that net_listen does not block; main joins the thread it has stopped.
Woken == SocketReturns /\ (step = "listen" \/ sock[Subject] = "down")
FairSpec ==
  Spec /\ WF_vars(Calls \/ Steps \/ Woken) /\ WF_vars(Observe) /\ WF_vars(OnTerminated)
       /\ WF_vars(Destroy)

-----------------------------------------------------------------------------
(* Properties                                                              *)

\* Types; a call that has not begun has nothing registered.
TypeOK ==
  /\ main \in {"running", "stopped", "destroyed"}
  /\ {stopped, interrupted, result, disconnected} \subseteq BOOLEAN
  /\ registered \in {"none", "process", "socket"}
  /\ phase \in {"idle", "opened", "spawned", "reading", "read", "blocked", "returned",
                "closing", "ended"}
  /\ adb \in {"none", "running", "ok", "failed"}
  /\ device \in {"none", "running", "dead", "reaped"}
  /\ sock \in [Sockets -> {"none", "open", "down"}]
  /\ tunnel \in {"none", "reverse", "forward"}
  /\ port \in 0..MaxPort /\ attempts \in 0..MaxAttempts
  /\ observer \in {"none", "waiting", "seen", "ended", "joined"}
  /\ told \in {"nothing", "connected", "failed"}
  /\ registered # "none" => phase \in {"reading", "blocked", "returned"}

\* What stop or the observer may interrupt still exists: "Always pass
\* close=false, interrupting would be racy otherwise", and a socket is closed
\* only once it is unregistered.
InterruptsTheLiving ==
  /\ registered = "process" => adb # "none"
  /\ registered = "socket" => sock[Subject] = "open"

\* However the thread ended, nothing it started is left: the server is reaped,
\* its observer joined, the tunnel closed, and after a failure the sockets.
NothingLeft ==
  step = "done" =>
    /\ device \in {"none", "reaped"} /\ observer \in {"none", "joined"}
    /\ tunnel = "none" /\ sock["listening"] = "none"
    /\ told = "failed" => \A m \in Media : sock[m] = "none"
    /\ registered = "none"

\* One report, then the end: what the session relies on.
Contract == INSTANCE Connection WITH lists <- params.lists, ended <- step = "done"
ConnectionSpec == Contract!Spec

\* A stop ends the thread, whatever blocks it: adb, the tunnel, or a server that
\* is asleep.  Only a --list-* command is awaited without a way out.
StopEnds == main = "stopped" ~> (main = "destroyed" \/ step = "listing")

\* "If the server process dies before connecting to the server socket, then the
\* client will be stuck forever on accept()": it is not, and the session hears of
\* both the death and the outcome of the connection.
DeathNoticed ==
  observer # "none" /\ device \in {"dead", "reaped"} ~> disconnected /\ told # "nothing"

\* Neither a stop nor the death of the server is waited out.
Progress == StopEnds /\ DeathNoticed

=============================================================================
