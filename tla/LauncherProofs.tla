--------------------------- MODULE LauncherProofs ---------------------------
(***************************************************************************)
(* The server thread for any range of ports and any number of attempts:     *)
(* types, what may be interrupted, what is left at the end, and the         *)
(* contract it implements.                                                  *)
(***************************************************************************)
EXTENDS Launcher, TLAPS

Params ==
  [lists : BOOLEAN, address : {"none", "known", "unknown"}, force : BOOLEAN,
   kill : BOOLEAN, media : (SUBSET Media) \ {{}}]

\* Where the thread may be.
Waits ==
  {"nap", "execute", "watch", "pause", "give-up", "join-failed", "join-observer",
   "serve", "watchdog", "close", "list", "listing", "failed", "report", "done"}
Places == Commands \cup SocketCalls \cup Waits

\* The tunnel is open from its creation to the calls that close it.
Tunnelled ==
  {"execute", "watch", "accept", "dial", "byte", "join", "pause", "close-tunnel",
   "abandon", "discard"}
Observed ==
  {"accept", "dial", "byte", "join", "pause", "close-tunnel", "abandon", "info",
   "give-up", "serve", "watchdog"}
Handed == {"serve", "watchdog", "join-observer", "close"}
Over == {"failed", "report", "kill-server", "done"}
Reachable == {"listing", "watch", "discard", "join-failed", "join-observer", "close"}

\* Places, and the phases of the calls made there.
Phased ==
  /\ params \in Params
  /\ step \in Places
  /\ phase \in {"spawned", "reading", "read", "closing"} => step \in Commands
  /\ phase = "opened" => step \in Creating
  /\ step \in Waits => phase = "idle"

\* Who holds what can be interrupted: an adb process exists from its creation to
\* its reaping, and a socket that blocks is the one registered.
Registered ==
  /\ adb # "none" <=>
       /\ phase \in {"spawned", "reading", "read", "blocked", "returned", "closing"}
       /\ step \in Commands
  /\ registered = "process" => step \in Commands
  /\ registered = "socket" => step \in SocketCalls /\ sock[Subject] = "open"
  /\ registered # "none" => ~interrupted
  /\ \A s \in Sockets : sock[s] = "down" => interrupted
  /\ stopped => interrupted

\* Attempts are left wherever one more may be made.
Attempting ==
  step \in {"nap", "watch", "dial", "byte", "pause"} => attempts > 0

\* The first socket, once it is created.
Created == phase \in {"opened", "blocked", "returned"} \/ (phase = "ended" /\ result)

\* The listening socket comes with a reverse tunnel.
Tunnel ==
  /\ tunnel # "none" <=> step \in Tunnelled
  /\ step = "accept" => tunnel = "reverse"
  /\ step \in {"dial", "byte", "join", "pause"} => tunnel = "forward"
  /\ tunnel = "reverse" => sock["listening"] # "none"
  /\ tunnel # "reverse" /\ step # "listen" => sock["listening"] = "none"
  /\ step = "listen" /\ Created => sock["listening"] # "none"
  /\ step = "listen" /\ phase = "idle" => sock["listening"] = "none"

\* The sockets of the streams, from the first to the last.
Streams ==
  /\ \A m \in Media : sock[m] # "none" => m \in params.media
  /\ step = "dial" =>
       \A m \in Media : sock[m] # "none" => m = FirstOf(params.media) /\ phase # "idle"
  /\ step = "dial" /\ Created => sock[FirstOf(params.media)] # "none"
  /\ step \in {"byte", "join"} => sock[FirstOf(params.media)] # "none"
  /\ step = "accept" \/ (step = "join" /\ phase = "idle") => Missing # {}
  /\ step \in {"close-tunnel", "info"} \cup Handed => Missing = {}
  /\ step \notin {"accept", "dial", "byte", "join", "close-tunnel", "info"} \cup Handed
       /\ told # "connected" => \A m \in Media : sock[m] = "none"

\* The server's process and its observer.
Children ==
  /\ step \in Places \ (Observed \cup Over \cup Reachable) =>
       device = "none" /\ observer = "none"
  /\ step \in Observed => device \in {"running", "dead"}
  /\ step \in Observed \cup {"join-failed", "join-observer"} =>
       observer \in {"waiting", "seen", "ended"}
  /\ step \in {"listing", "watch"} => device \in {"running", "dead"} /\ observer = "none"
  /\ step = "join-failed" => device = "reaped"
  /\ step = "join-observer" => device # "none"
  /\ step = "close" => device # "none" /\ observer = "joined"
  /\ step = "discard" => device \in {"none", "reaped"} /\ observer = "none"
  /\ step \in Over => device \in {"none", "reaped"} /\ observer \in {"none", "joined"}

\* What was reported.
Reported ==
  /\ told = "failed" => step = "done"
  /\ told = "connected" => step \in Handed \cup {"kill-server", "done"}
  /\ step \in Handed \cup {"done"} => told # "nothing"
  /\ step \in {"watchdog", "join-observer", "close"} => stopped
  /\ step = "kill-server" /\ told = "connected" => stopped
  /\ step \in {"list", "listing"} => params.lists
  /\ step \in Tunnelled \cup {"reverse", "listen", "unreverse", "forward", "info"} \cup Handed
       => ~params.lists
  /\ told = "connected" /\ step # "done" => ~params.lists
  /\ main = "destroyed" => step = "done"
  /\ main # "running" <=> stopped

IInv ==
  /\ TypeOK
  /\ Phased
  /\ Registered
  /\ Attempting
  /\ Tunnel
  /\ Streams
  /\ Children
  /\ Reported

-----------------------------------------------------------------------------
Preparing ==
  {"start-server", "devices", "ip", "getprop", "tcpip", "poll", "disconnect", "connect",
   "push"}

\* Where the calls of Follow lead.
LEMMA Hops ==
  ASSUME Proceed
  PROVE  /\ \/ step \in Preparing /\ step' \in Preparing \cup {"failed"}
            \/ step = "push" /\ params.lists /\ step' = "list"
            \/ step = "push" /\ ~params.lists /\ step' \in {"forward", "reverse"}
            \/ step = "reverse" /\ step' \in {"listen", "forward"}
         /\ phase = "ended" /\ phase' = "idle"
         /\ UNCHANGED <<params, main, stopped, intrVars, result, adb, told, childVars,
                        sock, tunnelVars>>
  BY DEF Proceed, Follow, StepFrame, Go, Preparing

\* The first and the last stream of a set belong to it.
LEMMA FirstIn ==
  ASSUME NEW S \in SUBSET Media, S # {}
  PROVE  FirstOf(S) \in S /\ LastOf(S) \in S
  BY DEF Media, FirstOf, LastOf

\* The streams, and those whose socket is still missing.
LEMMA StreamSets ==
  ASSUME IInv
  PROVE  /\ params.media \in SUBSET Media /\ params.media # {}
         /\ FirstOf(params.media) \in params.media
         /\ Missing \in SUBSET params.media
         /\ Missing # {} => FirstOf(Missing) \in Missing
         /\ \A m \in params.media : m \in Missing <=> sock[m] = "none"
<1>1. params.media \in SUBSET Media /\ params.media # {}
  BY DEF IInv, Phased, Params
<1>2. Missing \in SUBSET params.media /\ \A m \in params.media : m \in Missing <=> sock[m] = "none"
  BY DEF Missing
<1>3. FirstOf(params.media) \in params.media
  BY <1>1, FirstIn
<1>4. Missing # {} => FirstOf(Missing) \in Missing
  BY <1>1, <1>2, FirstIn
<1> QED BY <1>1, <1>2, <1>3, <1>4

\* What a call is about to block on exists.
LEMMA SubjectCreated ==
  ASSUME IInv, step \in SocketCalls, phase = IF step \in Creating THEN "opened" ELSE "idle"
  PROVE  Subject \in Sockets /\ sock[Subject] # "none"
<1>1. CASE step \in {"listen", "accept"}
  BY <1>1 DEF Subject, IInv, Tunnel, Created, Sockets, Creating
<1>2. CASE step = "join"
  <2>1. FirstOf(params.media) \in params.media \ Missing
    BY <1>2, StreamSets DEF IInv, Streams
  <2>2. LastOf(params.media \ Missing) \in params.media \ Missing
    BY <2>1, StreamSets, FirstIn
  <2> QED BY <1>2, <2>2, StreamSets DEF Subject, Sockets
<1>3. CASE step \in {"dial", "byte", "info"}
  <2>1. Subject = FirstOf(params.media)
    BY <1>3 DEF Subject
  <2>2. sock[FirstOf(params.media)] # "none"
    <3>1. step = "info" => FirstOf(params.media) \notin Missing
      BY DEF IInv, Streams
    <3> QED BY <1>3, <3>1, StreamSets DEF IInv, Streams, Created, Creating
  <2> QED BY <2>1, <2>2, StreamSets DEF Sockets
<1> QED BY <1>1, <1>2, <1>3 DEF SocketCalls, Creating

\* An interruption changes what is open, not what exists.
LEMMA Interrupted ==
  ASSUME IInv, Interrupt, UNCHANGED <<params, step>>
  PROVE  /\ sock' \in [Sockets -> {"none", "open", "down"}]
         /\ \A s \in Sockets : sock'[s] = "none" <=> sock[s] = "none"
         /\ Missing' = Missing
<1>1. CASE registered = "socket"
  <2>1. sock[Subject] = "open" /\ sock' = [sock EXCEPT ![Subject] = "down"]
    BY <1>1 DEF Interrupt, IInv, Registered
  <2>2. sock \in [Sockets -> {"none", "open", "down"}]
    BY DEF IInv, TypeOK
  <2>3. \A s \in Sockets : sock'[s] = IF s = Subject THEN "down" ELSE sock[s]
    BY <2>1, <2>2
  <2>4. sock' \in [Sockets -> {"none", "open", "down"}]
    BY <2>1, <2>2
  <2>5. \A s \in Sockets : sock'[s] = "none" <=> sock[s] = "none"
    BY <2>1, <2>3
  <2> QED BY <2>4, <2>5, StreamSets DEF Missing, Sockets
<1>2. CASE registered # "socket"
  BY <1>2 DEF Interrupt, IInv, TypeOK, Missing
<1> QED BY <1>1, <1>2

\* A socket is created for the subject of the call.
CreatedAt(s) ==
  /\ s = "listening" <=> step = "listen"
  /\ step # "listen" => s = FirstOf(Missing) /\ s \in Missing
  /\ \A t \in Sockets : sock'[t] = IF t = s THEN "open" ELSE sock[t]
  /\ sock' \in [Sockets -> {"none", "open", "down"}]
  /\ phase' = "opened" /\ UNCHANGED result

LEMMA Creation ==
  ASSUME IInv, CreateSocket
  PROVE  \/ UNCHANGED sock /\ phase' = "ended" /\ result' = FALSE
         \/ \E s \in Sockets : CreatedAt(s)
<1>1. CASE step = "join"
  <2>1. FirstOf(Missing) \in Missing /\ FirstOf(Missing) \in Media
    BY <1>1, StreamSets DEF IInv, Streams, CreateSocket
  <2> QED BY <1>1, <2>1 DEF CreateSocket, EndCall, CreatedAt, IInv, TypeOK, Sockets, Media
<1>2. CASE step = "dial"
  <2>1. FirstOf(params.media) \in Missing
    BY <1>2, StreamSets DEF IInv, Streams, CreateSocket
  <2>2. FirstOf(Missing) \in Missing /\ FirstOf(Missing) \in Media
    BY <2>1, StreamSets
  <2> QED BY <1>2, <2>2 DEF CreateSocket, EndCall, CreatedAt, IInv, TypeOK, Sockets, Media
<1>3. CASE step = "listen"
  BY <1>3 DEF CreateSocket, EndCall, CreatedAt, IInv, TypeOK, Sockets, Media
<1> QED BY <1>1, <1>2, <1>3 DEF CreateSocket, Creating

\* What blocks is told by the place and the sockets.
LEMMA SameSubject ==
  ASSUME UNCHANGED <<params, step, sock>>
  PROVE  Subject' = Subject
  BY DEF Subject, Missing, FirstOf, LastOf

-----------------------------------------------------------------------------
\* The variables keep their types.
LEMMA TypeStep == IInv /\ [Next]_vars => TypeOK'
<1> SUFFICES ASSUME IInv, [Next]_vars PROVE TypeOK'
  OBVIOUS
<1> USE DEF IInv, TypeOK, Attempting, Phased, Waits, Sockets, Media, Commands, Piped,
    SocketCalls, Creating
<1>1. CASE Spawn \/ SetProcess \/ Read \/ WaitProcess \/ UnsetProcess \/ CloseProcess
  BY <1>1 DEF Spawn, SetProcess, Read, WaitProcess, UnsetProcess, CloseProcess,
      CallFrame, intrVars, childVars, tunnelVars, EndCall, InCommand
<1>2. CASE SetSocket \/ UnsetSocket \/ SocketReturns
  BY <1>2 DEF SetSocket, UnsetSocket, SocketReturns, CallFrame, intrVars, childVars,
      tunnelVars, EndCall
<1>3. CASE CreateSocket
  <2>1. CASE UNCHANGED sock /\ phase' = "ended" /\ result' = FALSE
    BY <1>3, <2>1 DEF CreateSocket, intrVars, childVars, tunnelVars, EndCall
  <2>2. ASSUME NEW s \in Sockets, CreatedAt(s) PROVE TypeOK'
    BY <1>3, <2>2 DEF CreatedAt, CreateSocket, intrVars, childVars, tunnelVars, EndCall
  <2> QED BY <1>3, <2>1, <2>2, Creation
<1>4. CASE Proceed
  BY <1>4, Hops DEF Preparing, intrVars, childVars, tunnelVars
<1>5. CASE PollAgain \/ Nap \/ Pause
  BY <1>5, BoundsAssumption DEF PollAgain, Nap, Pause, StepFrame, intrVars, childVars,
      tunnelVars, Go
<1>6. CASE ListenFails \/ NextReverse \/ Forward \/ ForwardFails
  BY <1>6, BoundsAssumption DEF ListenFails, NextReverse, Forward, ForwardFails,
      StepFrame, intrVars, childVars, Go, Ended
<1>7. CASE Listen
  BY <1>7 DEF Listen, StepFrame, intrVars, childVars, Go, Ended
<1>8. CASE Launch \/ Watch
  BY <1>8, BoundsAssumption DEF Launch, Watch, StepFrame, intrVars, tunnelVars, Go,
      Execute
<1>9. CASE Dial \/ DialFails
  BY <1>9 DEF Dial, DialFails, StepFrame, intrVars, childVars, tunnelVars, Go, Ended
<1>10. CASE Accept \/ Join \/ Abandon
  BY <1>10 DEF Accept, Join, Abandon, StepFrame, intrVars, childVars, tunnelVars, Go,
      Ended, CloseMedia
<1>11. CASE CloseTunnel \/ NoInfo
  BY <1>11 DEF CloseTunnel, NoInfo, StepFrame, intrVars, childVars, tunnelVars, Go,
      Ended, CloseMedia
<1>12. CASE GiveUp \/ JoinObserver
  BY <1>12 DEF GiveUp, JoinObserver, StepFrame, intrVars, tunnelVars, Go
<1>13. CASE Connected \/ Serve \/ Watchdog \/ CloseServer
  BY <1>13 DEF Connected, Serve, Watchdog, CloseServer, StepFrame, intrVars, childVars,
      tunnelVars, Go, Ended
<1>14. CASE List \/ Listed
  BY <1>14 DEF List, Listed, StepFrame, intrVars, tunnelVars, Go, Execute
<1>15. CASE Failed \/ AdbKilled \/ Report
  BY <1>15 DEF Failed, AdbKilled, Report, StepFrame, intrVars, childVars, tunnelVars, Go
<1>16. CASE Stop \/ OnTerminated
  BY <1>16, Interrupted DEF Stop, OnTerminated, childVars, tunnelVars, Interrupt
<1>17. CASE Destroy \/ Observe
  BY <1>17 DEF Destroy, Observe, intrVars, callVars, childVars, tunnelVars
<1>18. CASE AdbEnds \/ DeviceDies
  BY <1>18 DEF AdbEnds, DeviceDies, intrVars, callVars, childVars, tunnelVars
<1>19. CASE UNCHANGED vars
  BY <1>19 DEF vars, intrVars, callVars, childVars, tunnelVars
<1> QED BY <1>1, <1>2, <1>3, <1>4, <1>5, <1>6, <1>7, <1>8, <1>9, <1>10, <1>11, <1>12,
    <1>13, <1>14, <1>15, <1>16, <1>17, <1>18, <1>19 DEF Next, Calls, Steps

\* Every step leads to a place, in a phase the place has.
LEMMA PhasedStep == IInv /\ [Next]_vars => Phased'
<1> SUFFICES ASSUME IInv, [Next]_vars PROVE Phased'
  OBVIOUS
<1> USE DEF IInv, Phased, TypeOK, Params, Places, Waits, Commands, Piped, SocketCalls,
    Creating
<1>1. CASE Spawn \/ SetProcess \/ Read \/ WaitProcess \/ UnsetProcess \/ CloseProcess
  BY <1>1 DEF Spawn, SetProcess, Read, WaitProcess, UnsetProcess, CloseProcess,
      CallFrame, intrVars, childVars, tunnelVars, EndCall, InCommand
<1>2. CASE SetSocket \/ UnsetSocket \/ SocketReturns
  BY <1>2 DEF SetSocket, UnsetSocket, SocketReturns, CallFrame, intrVars, childVars,
      tunnelVars, EndCall
<1>3. CASE CreateSocket
  BY <1>3 DEF CreateSocket, intrVars, childVars, tunnelVars, EndCall
<1>4. CASE Proceed
  BY <1>4, Hops DEF Preparing, intrVars, childVars, tunnelVars
<1>5. CASE PollAgain \/ Nap \/ Pause
  BY <1>5 DEF PollAgain, Nap, Pause, StepFrame, intrVars, childVars, tunnelVars, Go
<1>6. CASE Listen \/ ListenFails \/ NextReverse \/ Forward \/ ForwardFails
  BY <1>6 DEF Listen, ListenFails, NextReverse, Forward, ForwardFails, StepFrame,
      intrVars, childVars, Go, Ended
<1>7. CASE Launch \/ Watch
  BY <1>7 DEF Launch, Watch, StepFrame, intrVars, tunnelVars, Go, Execute
<1>8. CASE Dial \/ DialFails
  BY <1>8 DEF Dial, DialFails, StepFrame, intrVars, childVars, tunnelVars, Go, Ended
<1>9. CASE Accept \/ Join \/ Abandon
  BY <1>9 DEF Accept, Join, Abandon, StepFrame, intrVars, childVars, tunnelVars, Go,
      Ended, CloseMedia
<1>10. CASE CloseTunnel \/ NoInfo
  BY <1>10 DEF CloseTunnel, NoInfo, StepFrame, intrVars, childVars, tunnelVars, Go,
      Ended, CloseMedia
<1>11. CASE GiveUp \/ JoinObserver
  BY <1>11 DEF GiveUp, JoinObserver, StepFrame, intrVars, tunnelVars, Go
<1>12. CASE Connected \/ Serve \/ Watchdog \/ CloseServer
  BY <1>12 DEF Connected, Serve, Watchdog, CloseServer, StepFrame, intrVars, childVars,
      tunnelVars, Go, Ended
<1>13. CASE List \/ Listed
  BY <1>13 DEF List, Listed, StepFrame, intrVars, tunnelVars, Go, Execute
<1>14. CASE Failed \/ AdbKilled \/ Report
  BY <1>14 DEF Failed, AdbKilled, Report, StepFrame, intrVars, childVars, tunnelVars, Go
<1>15. CASE Stop \/ OnTerminated
  BY <1>15 DEF Stop, OnTerminated, childVars, tunnelVars, Interrupt
<1>16. CASE Destroy \/ Observe
  BY <1>16 DEF Destroy, Observe, intrVars, callVars, childVars, tunnelVars
<1>17. CASE AdbEnds \/ DeviceDies
  BY <1>17 DEF AdbEnds, DeviceDies, intrVars, callVars, childVars, tunnelVars
<1>18. CASE UNCHANGED vars
  BY <1>18 DEF vars, intrVars, callVars, childVars, tunnelVars
<1> QED BY <1>1, <1>2, <1>3, <1>4, <1>5, <1>6, <1>7, <1>8, <1>9, <1>10, <1>11, <1>12,
    <1>13, <1>14, <1>15, <1>16, <1>17, <1>18 DEF Next, Calls, Steps

\* What is registered exists.
LEMMA RegisteredStep == IInv /\ [Next]_vars => Registered'
<1> SUFFICES ASSUME IInv, [Next]_vars PROVE Registered'
  OBVIOUS
<1> USE DEF IInv, Registered, TypeOK, Sockets, Media, Phased, Tunnelled, Commands,
    Piped, SocketCalls, Creating
<1>1. CASE Spawn \/ SetProcess \/ Read \/ WaitProcess \/ UnsetProcess \/ CloseProcess
  BY <1>1, SameSubject DEF Spawn, SetProcess, Read, WaitProcess, UnsetProcess,
      CloseProcess, CallFrame, intrVars, childVars, tunnelVars, EndCall, InCommand
<1>2. CASE SetSocket \/ UnsetSocket \/ SocketReturns
  BY <1>2, SubjectCreated, SameSubject DEF SetSocket, UnsetSocket, SocketReturns,
      CallFrame, intrVars, childVars, tunnelVars, EndCall
<1>3. CASE CreateSocket
  BY <1>3 DEF CreateSocket, intrVars, childVars, tunnelVars, EndCall
<1>4. CASE Proceed
  BY <1>4, Hops DEF Preparing, intrVars, childVars, tunnelVars
<1>5. CASE PollAgain \/ Nap \/ Pause
  BY <1>5 DEF PollAgain, Nap, Pause, StepFrame, intrVars, childVars, tunnelVars, Go
<1>6. CASE Listen \/ ListenFails \/ NextReverse \/ Forward \/ ForwardFails
  BY <1>6 DEF Listen, ListenFails, NextReverse, Forward, ForwardFails, StepFrame,
      intrVars, childVars, Go, Ended
<1>7. CASE Launch \/ Watch
  BY <1>7 DEF Launch, Watch, StepFrame, intrVars, tunnelVars, Go, Execute
<1>8. CASE Dial \/ DialFails
  BY <1>8 DEF Dial, DialFails, StepFrame, intrVars, childVars, tunnelVars, Go, Ended
<1>9. CASE Accept \/ Join \/ Abandon
  BY <1>9 DEF Accept, Join, Abandon, StepFrame, intrVars, childVars, tunnelVars, Go,
      Ended, CloseMedia
<1>10. CASE CloseTunnel \/ NoInfo
  BY <1>10 DEF CloseTunnel, NoInfo, StepFrame, intrVars, childVars, tunnelVars, Go,
      Ended, CloseMedia
<1>11. CASE GiveUp \/ JoinObserver
  BY <1>11 DEF GiveUp, JoinObserver, StepFrame, intrVars, tunnelVars, Go
<1>12. CASE Connected \/ Serve \/ Watchdog \/ CloseServer
  BY <1>12 DEF Connected, Serve, Watchdog, CloseServer, StepFrame, intrVars, childVars,
      tunnelVars, Go, Ended
<1>13. CASE List \/ Listed
  BY <1>13 DEF List, Listed, StepFrame, intrVars, tunnelVars, Go, Execute
<1>14. CASE Failed \/ AdbKilled \/ Report
  BY <1>14 DEF Failed, AdbKilled, Report, StepFrame, intrVars, childVars, tunnelVars, Go
<1>15. CASE Stop \/ OnTerminated
  BY <1>15, Interrupted DEF Stop, OnTerminated, childVars, tunnelVars, Interrupt
<1>16. CASE Destroy \/ Observe
  BY <1>16, SameSubject DEF Destroy, Observe, intrVars, callVars, childVars, tunnelVars
<1>17. CASE AdbEnds \/ DeviceDies
  BY <1>17, SameSubject DEF AdbEnds, DeviceDies, intrVars, callVars, childVars,
      tunnelVars
<1>18. CASE UNCHANGED vars
  BY <1>18, SameSubject DEF vars, intrVars, callVars, childVars, tunnelVars
<1> QED BY <1>1, <1>2, <1>3, <1>4, <1>5, <1>6, <1>7, <1>8, <1>9, <1>10, <1>11, <1>12,
    <1>13, <1>14, <1>15, <1>16, <1>17, <1>18 DEF Next, Calls, Steps

\* Nobody waits for an attempt that is not left.
LEMMA AttemptingStep == IInv /\ [Next]_vars => Attempting'
<1> SUFFICES ASSUME IInv, [Next]_vars PROVE Attempting'
  OBVIOUS
<1> USE DEF IInv, Attempting, TypeOK, Commands, Piped, SocketCalls, Creating
<1>1. CASE Spawn \/ SetProcess \/ Read \/ WaitProcess \/ UnsetProcess \/ CloseProcess
  BY <1>1 DEF Spawn, SetProcess, Read, WaitProcess, UnsetProcess, CloseProcess,
      CallFrame, intrVars, childVars, tunnelVars, EndCall, InCommand
<1>2. CASE SetSocket \/ UnsetSocket \/ SocketReturns
  BY <1>2 DEF SetSocket, UnsetSocket, SocketReturns, CallFrame, intrVars, childVars,
      tunnelVars, EndCall
<1>3. CASE CreateSocket
  BY <1>3 DEF CreateSocket, intrVars, childVars, tunnelVars, EndCall
<1>4. CASE Proceed
  BY <1>4, Hops DEF Preparing, intrVars, childVars, tunnelVars
<1>5. CASE PollAgain \/ Nap \/ Pause
  BY <1>5, BoundsAssumption DEF PollAgain, Nap, Pause, StepFrame, intrVars, childVars,
      tunnelVars, Go
<1>6. CASE Listen \/ ListenFails \/ NextReverse \/ Forward \/ ForwardFails
  BY <1>6 DEF Listen, ListenFails, NextReverse, Forward, ForwardFails, StepFrame,
      intrVars, childVars, Go, Ended
<1>7. CASE Launch \/ Watch
  BY <1>7, BoundsAssumption DEF Launch, Watch, StepFrame, intrVars, tunnelVars, Go,
      Execute
<1>8. CASE Dial \/ DialFails
  BY <1>8 DEF Dial, DialFails, StepFrame, intrVars, childVars, tunnelVars, Go, Ended
<1>9. CASE Accept \/ Join \/ Abandon
  BY <1>9 DEF Accept, Join, Abandon, StepFrame, intrVars, childVars, tunnelVars, Go,
      Ended, CloseMedia
<1>10. CASE CloseTunnel \/ NoInfo
  BY <1>10 DEF CloseTunnel, NoInfo, StepFrame, intrVars, childVars, tunnelVars, Go,
      Ended, CloseMedia
<1>11. CASE GiveUp \/ JoinObserver
  BY <1>11 DEF GiveUp, JoinObserver, StepFrame, intrVars, tunnelVars, Go
<1>12. CASE Connected \/ Serve \/ Watchdog \/ CloseServer
  BY <1>12 DEF Connected, Serve, Watchdog, CloseServer, StepFrame, intrVars, childVars,
      tunnelVars, Go, Ended
<1>13. CASE List \/ Listed
  BY <1>13 DEF List, Listed, StepFrame, intrVars, tunnelVars, Go, Execute
<1>14. CASE Failed \/ AdbKilled \/ Report
  BY <1>14 DEF Failed, AdbKilled, Report, StepFrame, intrVars, childVars, tunnelVars, Go
<1>15. CASE Stop \/ OnTerminated
  BY <1>15 DEF Stop, OnTerminated, childVars, tunnelVars, Interrupt
<1>16. CASE Destroy \/ Observe
  BY <1>16 DEF Destroy, Observe, intrVars, callVars, childVars, tunnelVars
<1>17. CASE AdbEnds \/ DeviceDies
  BY <1>17 DEF AdbEnds, DeviceDies, intrVars, callVars, childVars, tunnelVars
<1>18. CASE UNCHANGED vars
  BY <1>18 DEF vars, intrVars, callVars, childVars, tunnelVars
<1> QED BY <1>1, <1>2, <1>3, <1>4, <1>5, <1>6, <1>7, <1>8, <1>9, <1>10, <1>11, <1>12,
    <1>13, <1>14, <1>15, <1>16, <1>17, <1>18 DEF Next, Calls, Steps

\* The tunnel and its socket are open together.
LEMMA TunnelStep == IInv /\ [Next]_vars => Tunnel'
<1> SUFFICES ASSUME IInv, [Next]_vars PROVE Tunnel'
  OBVIOUS
<1> USE DEF IInv, Tunnel, Created, TypeOK, Tunnelled, Registered, Sockets, Media,
    Commands, Piped, SocketCalls, Creating
<1>1. CASE Spawn \/ SetProcess \/ Read \/ WaitProcess \/ UnsetProcess \/ CloseProcess
  BY <1>1 DEF Spawn, SetProcess, Read, WaitProcess, UnsetProcess, CloseProcess,
      CallFrame, intrVars, childVars, tunnelVars, EndCall, InCommand
<1>2. CASE SetSocket \/ UnsetSocket \/ SocketReturns
  BY <1>2 DEF SetSocket, UnsetSocket, SocketReturns, CallFrame, intrVars, childVars,
      tunnelVars, EndCall
<1>3. CASE CreateSocket
  <2>1. CASE UNCHANGED sock /\ phase' = "ended" /\ result' = FALSE
    BY <1>3, <2>1 DEF CreateSocket, intrVars, childVars, tunnelVars, EndCall
  <2>2. ASSUME NEW s \in Sockets, CreatedAt(s) PROVE Tunnel'
    BY <1>3, <2>2 DEF CreatedAt, CreateSocket, intrVars, childVars, tunnelVars, EndCall
  <2> QED BY <1>3, <2>1, <2>2, Creation
<1>4. CASE Proceed
  BY <1>4, Hops DEF Preparing, intrVars, childVars, tunnelVars
<1>5. CASE PollAgain \/ Nap \/ Pause
  BY <1>5 DEF PollAgain, Nap, Pause, StepFrame, intrVars, childVars, tunnelVars, Go
<1>6. CASE Listen \/ ListenFails \/ NextReverse \/ Forward \/ ForwardFails
  BY <1>6 DEF Listen, ListenFails, NextReverse, Forward, ForwardFails, StepFrame,
      intrVars, childVars, Go, Ended
<1>7. CASE Launch \/ Watch
  BY <1>7 DEF Launch, Watch, StepFrame, intrVars, tunnelVars, Go, Execute
<1>8. CASE Dial \/ DialFails
  BY <1>8 DEF Dial, DialFails, StepFrame, intrVars, childVars, tunnelVars, Go, Ended
<1>9. CASE Accept \/ Join \/ Abandon
  BY <1>9 DEF Accept, Join, Abandon, StepFrame, intrVars, childVars, tunnelVars, Go,
      Ended, CloseMedia
<1>10. CASE CloseTunnel \/ NoInfo
  BY <1>10 DEF CloseTunnel, NoInfo, StepFrame, intrVars, childVars, tunnelVars, Go,
      Ended, CloseMedia
<1>11. CASE GiveUp \/ JoinObserver
  BY <1>11 DEF GiveUp, JoinObserver, StepFrame, intrVars, tunnelVars, Go
<1>12. CASE Connected \/ Serve \/ Watchdog \/ CloseServer
  BY <1>12 DEF Connected, Serve, Watchdog, CloseServer, StepFrame, intrVars, childVars,
      tunnelVars, Go, Ended
<1>13. CASE List \/ Listed
  BY <1>13 DEF List, Listed, StepFrame, intrVars, tunnelVars, Go, Execute
<1>14. CASE Failed \/ AdbKilled \/ Report
  BY <1>14 DEF Failed, AdbKilled, Report, StepFrame, intrVars, childVars, tunnelVars, Go
<1>15. CASE Stop \/ OnTerminated
  BY <1>15, Interrupted DEF Stop, OnTerminated, childVars, tunnelVars, Interrupt
<1>16. CASE Destroy \/ Observe
  BY <1>16 DEF Destroy, Observe, intrVars, callVars, childVars, tunnelVars
<1>17. CASE AdbEnds \/ DeviceDies
  BY <1>17 DEF AdbEnds, DeviceDies, intrVars, callVars, childVars, tunnelVars
<1>18. CASE UNCHANGED vars
  BY <1>18 DEF vars, intrVars, callVars, childVars, tunnelVars
<1> QED BY <1>1, <1>2, <1>3, <1>4, <1>5, <1>6, <1>7, <1>8, <1>9, <1>10, <1>11, <1>12,
    <1>13, <1>14, <1>15, <1>16, <1>17, <1>18 DEF Next, Calls, Steps

\* The sockets of the streams are opened in order, and closed together.
LEMMA StreamsStep == IInv /\ [Next]_vars => Streams'
<1> SUFFICES ASSUME IInv, [Next]_vars PROVE Streams'
  OBVIOUS
<1> USE DEF IInv, Streams, Handed, Reported, TypeOK, Created, Sockets, Media, Phased,
    Waits, Commands, Piped, SocketCalls, Creating
<1>1. CASE Spawn \/ SetProcess \/ Read \/ WaitProcess \/ UnsetProcess \/ CloseProcess
  BY <1>1 DEF Spawn, SetProcess, Read, WaitProcess, UnsetProcess, CloseProcess,
      CallFrame, intrVars, childVars, tunnelVars, EndCall, InCommand, Missing
<1>2. CASE SetSocket \/ UnsetSocket \/ SocketReturns
  BY <1>2 DEF SetSocket, UnsetSocket, SocketReturns, CallFrame, intrVars, childVars,
      tunnelVars, EndCall, Missing
<1>3. CASE CreateSocket
  <2>1. CASE UNCHANGED sock /\ phase' = "ended" /\ result' = FALSE
    BY <1>3, <2>1 DEF CreateSocket, intrVars, childVars, tunnelVars, EndCall, Missing
  <2>2. ASSUME NEW s \in Sockets, CreatedAt(s) PROVE Streams'
    <3>1. CASE step = "listen"
      BY <1>3, <2>2, <3>1
      DEF CreatedAt, CreateSocket, intrVars, childVars, tunnelVars, EndCall, Missing
    <3>2. CASE step # "listen"
      <4>1. s \in Missing /\ Missing' = Missing \ {s} /\ s \in Media
        BY <1>3, <2>2, <3>2, StreamSets DEF CreatedAt, CreateSocket, Missing
      <4>2. step = "dial" => Missing = params.media
        BY <1>3, StreamSets DEF CreateSocket
      <4>3. step \in {"dial", "join"} /\ UNCHANGED <<params, step, told>>
        BY <1>3, <3>2 DEF CreateSocket
      <4> QED BY <2>2, <3>2, <4>1, <4>2, <4>3, StreamSets DEF CreatedAt
    <3> QED BY <3>1, <3>2
  <2> QED BY <1>3, <2>1, <2>2, Creation
<1>4. CASE Proceed
  BY <1>4, Hops DEF Preparing, intrVars, childVars, tunnelVars, Missing
<1>5. CASE PollAgain \/ Nap \/ Pause
  BY <1>5 DEF PollAgain, Nap, Pause, StepFrame, intrVars, childVars, tunnelVars, Go,
      Missing
<1>6. CASE Listen \/ ListenFails \/ NextReverse \/ Forward \/ ForwardFails
  BY <1>6 DEF Listen, ListenFails, NextReverse, Forward, ForwardFails, StepFrame,
      intrVars, childVars, Go, Ended, Missing
<1>7. CASE Launch \/ Watch
  BY <1>7, StreamSets DEF Launch, Watch, StepFrame, intrVars, tunnelVars, Go, Execute,
      Missing
<1>8. CASE Dial \/ DialFails
  BY <1>8 DEF Dial, DialFails, StepFrame, intrVars, childVars, tunnelVars, Go, Ended,
      Missing
<1>9. CASE Accept \/ Join \/ Abandon
  BY <1>9, StreamSets DEF Accept, Join, Abandon, StepFrame, intrVars, childVars,
      tunnelVars, Go, Ended, CloseMedia, Missing
<1>10. CASE NoInfo
  BY <1>10 DEF NoInfo, StepFrame, intrVars, childVars, tunnelVars, Go, Ended,
      CloseMedia, Missing
<1>11. CASE CloseTunnel
  <2>1. \A m \in Media : sock'[m] = sock[m]
    BY <1>11 DEF CloseTunnel, StepFrame, intrVars, childVars, Go
  <2>2. Missing' = Missing
    BY <1>11, <2>1, StreamSets DEF CloseTunnel, StepFrame, intrVars, childVars, Go, Missing
  <2> QED BY <1>11, <2>1, <2>2, StreamSets DEF CloseTunnel, StepFrame, intrVars, childVars, Go
<1>12. CASE GiveUp \/ JoinObserver
  BY <1>12 DEF GiveUp, JoinObserver, StepFrame, intrVars, tunnelVars, Go, Missing
<1>13. CASE Connected \/ Watchdog \/ CloseServer
  BY <1>13 DEF Connected, Watchdog, CloseServer, StepFrame, intrVars, childVars,
      tunnelVars, Go, Ended, Missing
<1>14. CASE Serve
  <2>1. \A s \in Sockets : sock'[s] = "none" <=> sock[s] = "none"
    BY <1>14 DEF Serve, StepFrame, intrVars, childVars, tunnelVars, Go
  <2>2. Missing' = Missing
    BY <1>14, <2>1, StreamSets DEF Serve, StepFrame, intrVars, childVars, tunnelVars, Go, Missing
  <2> QED BY <1>14, <2>1, <2>2, StreamSets DEF Serve, StepFrame, intrVars, childVars, tunnelVars, Go
<1>15. CASE List \/ Listed
  BY <1>15 DEF List, Listed, StepFrame, intrVars, tunnelVars, Go, Execute, Missing
<1>16. CASE Failed \/ AdbKilled \/ Report
  BY <1>16 DEF Failed, AdbKilled, Report, StepFrame, intrVars, childVars, tunnelVars,
      Go, Missing
<1>17. CASE Stop \/ OnTerminated
  <2>1. Interrupt /\ UNCHANGED <<params, step, phase, result, told>>
    BY <1>17 DEF Stop, OnTerminated
  <2> QED BY <2>1, Interrupted, StreamSets
<1>18. CASE Destroy \/ Observe
  BY <1>18 DEF Destroy, Observe, intrVars, callVars, childVars, tunnelVars, Missing
<1>19. CASE AdbEnds \/ DeviceDies
  BY <1>19 DEF AdbEnds, DeviceDies, intrVars, callVars, childVars, tunnelVars, Missing
<1>20. CASE UNCHANGED vars
  BY <1>20 DEF vars, intrVars, callVars, childVars, tunnelVars, Missing
<1> QED BY <1>1, <1>2, <1>3, <1>4, <1>5, <1>6, <1>7, <1>8, <1>9, <1>10, <1>11, <1>12,
    <1>13, <1>14, <1>15, <1>16, <1>17, <1>18, <1>19, <1>20 DEF Next, Calls, Steps

\* The server is executed, observed, reaped and joined in this order.
LEMMA ChildrenStep == IInv /\ [Next]_vars => Children'
<1> SUFFICES ASSUME IInv, [Next]_vars PROVE Children'
  OBVIOUS
<1> USE DEF IInv, Children, TypeOK, Phased, Places, Waits, Observed, Over, Reachable,
    Commands, Piped, SocketCalls, Creating
<1>1. CASE Spawn \/ SetProcess \/ Read \/ WaitProcess \/ UnsetProcess \/ CloseProcess
  BY <1>1 DEF Spawn, SetProcess, Read, WaitProcess, UnsetProcess, CloseProcess,
      CallFrame, intrVars, childVars, tunnelVars, EndCall, InCommand
<1>2. CASE SetSocket \/ UnsetSocket \/ SocketReturns
  BY <1>2 DEF SetSocket, UnsetSocket, SocketReturns, CallFrame, intrVars, childVars,
      tunnelVars, EndCall
<1>3. CASE CreateSocket
  BY <1>3 DEF CreateSocket, intrVars, childVars, tunnelVars, EndCall
<1>4. CASE Proceed
  BY <1>4, Hops DEF Preparing, intrVars, childVars, tunnelVars
<1>5. CASE PollAgain \/ Nap \/ Pause
  BY <1>5 DEF PollAgain, Nap, Pause, StepFrame, intrVars, childVars, tunnelVars, Go
<1>6. CASE Listen \/ ListenFails \/ NextReverse \/ Forward \/ ForwardFails
  BY <1>6 DEF Listen, ListenFails, NextReverse, Forward, ForwardFails, StepFrame,
      intrVars, childVars, Go, Ended
<1>7. CASE Launch \/ Watch
  BY <1>7 DEF Launch, Watch, StepFrame, intrVars, tunnelVars, Go, Execute
<1>8. CASE Dial \/ DialFails
  BY <1>8 DEF Dial, DialFails, StepFrame, intrVars, childVars, tunnelVars, Go, Ended
<1>9. CASE Accept \/ Join \/ Abandon
  BY <1>9 DEF Accept, Join, Abandon, StepFrame, intrVars, childVars, tunnelVars, Go,
      Ended, CloseMedia
<1>10. CASE CloseTunnel \/ NoInfo
  BY <1>10 DEF CloseTunnel, NoInfo, StepFrame, intrVars, childVars, tunnelVars, Go,
      Ended, CloseMedia
<1>11. CASE GiveUp \/ JoinObserver
  BY <1>11 DEF GiveUp, JoinObserver, StepFrame, intrVars, tunnelVars, Go
<1>12. CASE Connected \/ Serve \/ Watchdog \/ CloseServer
  BY <1>12 DEF Connected, Serve, Watchdog, CloseServer, StepFrame, intrVars, childVars,
      tunnelVars, Go, Ended
<1>13. CASE List \/ Listed
  BY <1>13 DEF List, Listed, StepFrame, intrVars, tunnelVars, Go, Execute
<1>14. CASE Failed \/ AdbKilled \/ Report
  BY <1>14 DEF Failed, AdbKilled, Report, StepFrame, intrVars, childVars, tunnelVars, Go
<1>15. CASE Stop \/ OnTerminated
  BY <1>15 DEF Stop, OnTerminated, childVars, tunnelVars, Interrupt
<1>16. CASE Destroy \/ Observe
  BY <1>16 DEF Destroy, Observe, intrVars, callVars, childVars, tunnelVars
<1>17. CASE AdbEnds \/ DeviceDies
  BY <1>17 DEF AdbEnds, DeviceDies, intrVars, callVars, childVars, tunnelVars
<1>18. CASE UNCHANGED vars
  BY <1>18 DEF vars, intrVars, callVars, childVars, tunnelVars
<1> QED BY <1>1, <1>2, <1>3, <1>4, <1>5, <1>6, <1>7, <1>8, <1>9, <1>10, <1>11, <1>12,
    <1>13, <1>14, <1>15, <1>16, <1>17, <1>18 DEF Next, Calls, Steps

\* The outcome is reported once, at the right place.
LEMMA ReportedStep == IInv /\ [Next]_vars => Reported'
<1> SUFFICES ASSUME IInv, [Next]_vars PROVE Reported'
  OBVIOUS
<1> USE DEF IInv, Reported, TypeOK, Tunnelled, Handed, Commands, Piped, SocketCalls,
    Creating
<1>1. CASE Spawn \/ SetProcess \/ Read \/ WaitProcess \/ UnsetProcess \/ CloseProcess
  BY <1>1 DEF Spawn, SetProcess, Read, WaitProcess, UnsetProcess, CloseProcess,
      CallFrame, intrVars, childVars, tunnelVars, EndCall, InCommand
<1>2. CASE SetSocket \/ UnsetSocket \/ SocketReturns
  BY <1>2 DEF SetSocket, UnsetSocket, SocketReturns, CallFrame, intrVars, childVars,
      tunnelVars, EndCall
<1>3. CASE CreateSocket
  BY <1>3 DEF CreateSocket, intrVars, childVars, tunnelVars, EndCall
<1>4. CASE Proceed
  BY <1>4, Hops DEF Preparing, intrVars, childVars, tunnelVars
<1>5. CASE PollAgain \/ Nap \/ Pause
  BY <1>5 DEF PollAgain, Nap, Pause, StepFrame, intrVars, childVars, tunnelVars, Go
<1>6. CASE Listen \/ ListenFails \/ NextReverse \/ Forward \/ ForwardFails
  BY <1>6 DEF Listen, ListenFails, NextReverse, Forward, ForwardFails, StepFrame,
      intrVars, childVars, Go, Ended
<1>7. CASE Launch \/ Watch
  BY <1>7 DEF Launch, Watch, StepFrame, intrVars, tunnelVars, Go, Execute
<1>8. CASE Dial \/ DialFails
  BY <1>8 DEF Dial, DialFails, StepFrame, intrVars, childVars, tunnelVars, Go, Ended
<1>9. CASE Accept \/ Join \/ Abandon
  BY <1>9 DEF Accept, Join, Abandon, StepFrame, intrVars, childVars, tunnelVars, Go,
      Ended, CloseMedia
<1>10. CASE CloseTunnel \/ NoInfo
  BY <1>10 DEF CloseTunnel, NoInfo, StepFrame, intrVars, childVars, tunnelVars, Go,
      Ended, CloseMedia
<1>11. CASE GiveUp \/ JoinObserver
  BY <1>11 DEF GiveUp, JoinObserver, StepFrame, intrVars, tunnelVars, Go
<1>12. CASE Connected \/ Serve \/ Watchdog \/ CloseServer
  BY <1>12 DEF Connected, Serve, Watchdog, CloseServer, StepFrame, intrVars, childVars,
      tunnelVars, Go, Ended
<1>13. CASE List \/ Listed
  BY <1>13 DEF List, Listed, StepFrame, intrVars, tunnelVars, Go, Execute
<1>14. CASE Failed \/ AdbKilled \/ Report
  BY <1>14 DEF Failed, AdbKilled, Report, StepFrame, intrVars, childVars, tunnelVars, Go
<1>15. CASE Stop \/ OnTerminated
  BY <1>15 DEF Stop, OnTerminated, childVars, tunnelVars, Interrupt
<1>16. CASE Destroy \/ Observe
  BY <1>16 DEF Destroy, Observe, intrVars, callVars, childVars, tunnelVars
<1>17. CASE AdbEnds \/ DeviceDies
  BY <1>17 DEF AdbEnds, DeviceDies, intrVars, callVars, childVars, tunnelVars
<1>18. CASE UNCHANGED vars
  BY <1>18 DEF vars, intrVars, callVars, childVars, tunnelVars
<1> QED BY <1>1, <1>2, <1>3, <1>4, <1>5, <1>6, <1>7, <1>8, <1>9, <1>10, <1>11, <1>12,
    <1>13, <1>14, <1>15, <1>16, <1>17, <1>18 DEF Next, Calls, Steps

-----------------------------------------------------------------------------
LEMMA IInvInit == Init => IInv
<1> SUFFICES ASSUME Init PROVE IInv
  OBVIOUS
<1>1. TypeOK
  <2>1. sock \in [Sockets -> {"none", "open", "down"}]
    BY DEF Init
  <2>2. port \in 0..MaxPort /\ attempts \in 0..MaxAttempts
    BY BoundsAssumption DEF Init
  <2> QED BY <2>1, <2>2 DEF Init, TypeOK
<1>2. Phased /\ Registered /\ Attempting
  BY DEF Init, Phased, Params, Places, Waits, Commands, Piped, SocketCalls, Creating,
     Registered, Attempting
<1>3. Tunnel /\ Streams
  BY DEF Init, Tunnel, Created, Tunnelled, Streams, Handed, Sockets, Media
<1>4. Children /\ Reported
  BY DEF Init, Children, Observed, Over, Reachable, Reported, Handed, Tunnelled
<1> QED BY <1>1, <1>2, <1>3, <1>4 DEF IInv

LEMMA IInvStep == IInv /\ [Next]_vars => IInv'
  BY TypeStep, PhasedStep, RegisteredStep, AttemptingStep, TunnelStep, StreamsStep,
     ChildrenStep, ReportedStep DEF IInv

\* Every reachable state satisfies the strengthening.
THEOREM Invariance == Spec => []IInv
  BY IInvInit, IInvStep, PTL DEF Spec

\* The thread's state has its types, and nothing is registered between calls,
\* for every port range and number of attempts.
THEOREM TypeCorrect == Spec => []TypeOK
<1>1. IInv => TypeOK
  BY DEF IInv
<1> QED BY <1>1, Invariance, PTL

\* What sc_intr would kill or shut down exists: the adb process is not reaped,
\* the socket is open, whoever stops the thread and wherever.
THEOREM InterruptionSafe == Spec => []InterruptsTheLiving
<1>1. IInv => InterruptsTheLiving
  BY DEF IInv, InterruptsTheLiving, TypeOK, Registered
<1> QED BY <1>1, Invariance, PTL

\* Whichever of its exits run_server took, the server is reaped, its observer
\* joined, the tunnel closed and, after a failure, the sockets as well.
THEOREM NothingIsLeft == Spec => []NothingLeft
<1>1. ASSUME IInv, step = "done" PROVE NothingLeft
  <2>1. device \in {"none", "reaped"} /\ observer \in {"none", "joined"}
    BY <1>1 DEF IInv, Children, Over
  <2>2. tunnel = "none" /\ sock["listening"] = "none"
    BY <1>1 DEF IInv, Tunnel, Tunnelled
  <2>3. told = "failed" => \A m \in Media : sock[m] = "none"
    BY <1>1 DEF IInv, Streams, Handed
  <2>4. registered = "none"
    BY <1>1 DEF IInv, TypeOK, Phased, Waits
  <2> QED BY <2>1, <2>2, <2>3, <2>4 DEF NothingLeft
<1>2. IInv => NothingLeft
  BY <1>1 DEF NothingLeft
<1> QED BY <1>2, Invariance, PTL

-----------------------------------------------------------------------------
LEMMA ContractInit == Init => Contract!Init
  BY DEF Init, Contract!Init

LEMMA ContractStep == IInv /\ [Next]_vars => [Contract!Next]_(Contract!vars)
<1> SUFFICES ASSUME IInv, [Next]_vars PROVE [Contract!Next]_(Contract!vars)
  OBVIOUS
<1> USE DEF Contract!vars
<1>1. CASE Calls \/ SocketReturns \/ Observe \/ OnTerminated \/ Destroy \/ AdbEnds
           \/ DeviceDies \/ UNCHANGED vars
  BY <1>1 DEF Calls, Spawn, SetProcess, Read, WaitProcess, UnsetProcess, CloseProcess,
     CreateSocket, SetSocket, SocketReturns, UnsetSocket, CallFrame, Observe, OnTerminated,
     Destroy, AdbEnds, DeviceDies, vars
<1>2. CASE Stop
  <2>1. ~stopped /\ stopped' = TRUE
    BY <1>2 DEF Stop, IInv, Reported, TypeOK
  <2> QED BY <1>2, <2>1 DEF Stop, Contract!Next, Contract!Stop
<1>3. CASE Connected
  BY <1>3 DEF Connected, Ended, Go, Contract!Next, Contract!Connect, IInv, Reported, Phased,
     Handed, Tunnelled, Params, TypeOK
<1>4. CASE Listed
  BY <1>4 DEF Listed, Go, Contract!Next, Contract!Connect, IInv, Reported, Phased, Handed,
     Params, TypeOK
<1>5. CASE Report
  BY <1>5 DEF Report, Go, Contract!Next, Contract!Fail, IInv, Reported, Handed, TypeOK
<1>6. CASE CloseServer \/ AdbKilled
  BY <1>6 DEF CloseServer, AdbKilled, StepFrame, Go, Contract!Next, Contract!End, IInv,
     Reported, Handed, TypeOK
<1>7. CASE Proceed
  BY <1>7, Hops DEF Preparing
<1>8. CASE PollAgain \/ Nap \/ Listen \/ ListenFails \/ NextReverse \/ Forward \/ ForwardFails
           \/ Launch \/ Watch \/ Dial \/ DialFails \/ Pause \/ Accept \/ Join \/ Abandon
  BY <1>8 DEF PollAgain, Nap, Listen, ListenFails, NextReverse, Forward, ForwardFails,
     Launch, Watch, Dial, DialFails, Pause, Accept, Join, Abandon, StepFrame, Go, Ended,
     Execute
<1>9. CASE CloseTunnel \/ NoInfo \/ GiveUp \/ JoinObserver \/ Serve \/ Watchdog \/ List
           \/ Failed
  BY <1>9 DEF CloseTunnel, NoInfo, GiveUp, JoinObserver, Serve, Watchdog, List, Failed,
     StepFrame, Go, Ended, Execute
<1> QED BY <1>1, <1>2, <1>3, <1>4, <1>5, <1>6, <1>7, <1>8, <1>9 DEF Next, Steps

\* The thread implements Connection: one report, and an end that follows a
\* failure, the listing or a stop, whatever it does in between.
THEOREM ImplementsConnection == Spec => ConnectionSpec
  BY Invariance, ContractInit, ContractStep, PTL DEF Spec, ConnectionSpec, Contract!Spec


=============================================================================
