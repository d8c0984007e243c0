------------------------------ MODULE RpcBridge ------------------------------
(***************************************************************************)
(* The JSON-RPC bridge of the agent app: HTTP worker threads of LocalServer *)
(* (LocalHttpServer) call MessageHandler.process, which parks the thread    *)
(* until MainActivity, on the main looper, has executed the request and     *)
(* broadcast a response with the request's callback id.                     *)
(*                                                                          *)
(* Threads: one per HTTP request, and the main looper.  The main looper is  *)
(* a FIFO of tasks; LocalBroadcastManager is modelled as the app uses it:   *)
(* sendBroadcast fixes the receivers when it is called and delivers from    *)
(* the main looper, skipping the receivers unregistered in the meantime.    *)
(* A callback id is a fresh UUID, so a request stands for its callback id.  *)
(***************************************************************************)
EXTENDS Naturals, Sequences

CONSTANTS
  Request,    \* RPC calls that reach the HTTP server, i.e. callback ids
  Handler,    \* instances of LocalServer, each with its MessageHandler; one
              \* for each activity is enough for every start to find one
  Activity,   \* instances of MainActivity
  None        \* "no request" in a main looper task

ASSUME NoneAssumption == None \notin Request

VARIABLES
  activity,   \* life of each MainActivity
  loaded,     \* activities whose WebView was told to load the home page
  service,    \* life of each LocalServer
  registered, \* handlers whose ACTION_RESPONSE receiver is registered
  pending,    \* pendingCallbacks of each handler
  call,       \* where the HTTP thread of each request stands
  js,         \* requests that are execJs calls
  home,       \* the handler each request was made to
  sentTo,     \* activities registered when the request was broadcast
  racing,     \* requests whose put overlapped another access to the map
  lost,       \* requests whose entry, or whose removal, a data race lost
  kept,       \* requests whose callback was taken while a race kept its entry
  evals,      \* execJs evaluations the WebViews still owe a result for
  resumed,    \* how often the continuation of each request was resumed
  looper      \* tasks queued on the main looper

vars == <<activity, loaded, service, registered, pending, call, js, home,
          sentTo, racing, lost, kept, evals, resumed, looper>>

bridgeVars == <<pending, call, js, home, sentTo, racing, lost, kept, resumed>>

-----------------------------------------------------------------------------
(* Main looper tasks.                                                      *)

Task(kind, r, to) == [kind |-> kind, req |-> r, to |-> to]

StartTask       == Task("start", None, {})     \* LocalServer.onStartCommand
StartedTask(A)  == Task("started", None, A)    \* broadcast "onServerStarted"
RequestTask(r, A)  == Task("request", r, A)    \* broadcast ACTION_REQUEST
ResponseTask(r, H) == Task("response", r, H)   \* broadcast ACTION_RESPONSE
ResumeTask(r)   == Task("resume", r, {})       \* mainHandler.post { callback }

Alive == {a \in Activity : activity[a] = "alive"}

\* Mutant: a broadcast is queued whoever listens.
BroadcastAlways(q, task) == Append(q, task)

\* A broadcast nobody is registered for is dropped at once.
Broadcast(q, task) == IF task.to = {} THEN q ELSE Append(q, task)

\* The queue after the task at its head was delivered to one of its receivers.
Rest(q, x) == IF Head(q).to \subseteq {x}
              THEN Tail(q)
              ELSE [q EXCEPT ![1].to = @ \ {x}]

Is(kind) == looper # <<>> /\ Head(looper).kind = kind

-----------------------------------------------------------------------------
Init ==
  /\ activity   = [a \in Activity |-> "absent"]
  /\ loaded     = {}
  /\ service    = [h \in Handler |-> "absent"]
  /\ registered = {}
  /\ pending    = [h \in Handler |-> {}]
  /\ call       = [r \in Request |-> "new"]
  /\ js         = {}
  /\ home       = [r \in Request |-> None]
  /\ sentTo     = [r \in Request |-> {}]
  /\ racing     = {}
  /\ lost       = {}
  /\ kept       = {}
  /\ evals      = {}
  /\ resumed    = [r \in Request |-> 0]
  /\ looper     = <<>>

-----------------------------------------------------------------------------
(* Life cycles, all on the main looper.                                    *)

\* MainActivity.onCreate: asks for the service, registers the receiver.
\* launchMode is singleTop: a deep link may start a second instance.
CreateActivity(a) ==
  /\ activity[a] = "absent"
  /\ activity' = [activity EXCEPT ![a] = "alive"]
  /\ looper' = Append(looper, StartTask)
  /\ UNCHANGED <<loaded, service, registered, evals, bridgeVars>>

\* MainActivity.onDestroy: the receiver is unregistered.
DestroyActivity(a) ==
  /\ activity[a] = "alive"
  /\ activity' = [activity EXCEPT ![a] = "destroyed"]
  /\ UNCHANGED <<loaded, service, registered, evals, looper, bridgeVars>>

Up == {h \in Handler : service[h] \in {"running", "failed"}}

\* onCreate (first start of an instance: new MessageHandler, which registers
\* its receiver) and onStartCommand -> startServer, which returns when the
\* server is running, and stops the service when the port cannot be bound.
StartService ==
  /\ Is("start")
  /\ \E h \in (IF Up # {} THEN Up ELSE {g \in Handler : service[g] = "absent"}) :
       /\ registered' = registered \cup {h}
       /\ \/ /\ service[h] = "running"
             /\ looper' = Tail(looper)
             /\ UNCHANGED service
          \/ /\ service[h] # "running"
             /\ service' = [service EXCEPT ![h] = "running"]
             /\ looper' = Broadcast(Tail(looper), StartedTask(Alive))
          \/ /\ service[h] # "running"
             /\ service' = [service EXCEPT ![h] = "failed"]
             /\ looper' = Tail(looper)
  /\ UNCHANGED <<activity, loaded, evals, bridgeVars>>

\* cleanup() unregisters responseReceiver, which is not the receiver init
\* registered: unregisterReceiver of an unknown receiver does nothing.
Unregister(h) == registered

\* Mutant: the waiting calls are cancelled but their callbacks kept.
DestroyServiceKeeping(h) ==
  /\ service[h] \in {"running", "failed"}
  /\ service' = [service EXCEPT ![h] = "destroyed"]
  /\ call' = [r \in Request |-> IF home[r] = h /\ call[r] = "waiting"
                                THEN "returned" ELSE call[r]]
  /\ UNCHANGED <<activity, loaded, registered, pending, js, home, sentTo,
                 racing, lost, kept, evals, resumed, looper>>

Putting(h) == {r \in Request : home[r] = h /\ call[r] = "putting"}

\* onDestroy: stopServer closes the listening socket, then cleanup() clears
\* the map; the threads waiting for a callback are neither resumed nor
\* cancelled.  An HTTP thread inside a put may copy entries back.
DestroyService(h) ==
  /\ service[h] \in {"running", "failed"}
  /\ service' = [service EXCEPT ![h] = "destroyed"]
  /\ \E S \in (IF Putting(h) = {} THEN {{}} ELSE SUBSET pending[h]) :
       pending' = [pending EXCEPT ![h] = S]
  /\ registered' = Unregister(h)
  /\ racing' = racing \cup Putting(h)
  /\ UNCHANGED <<activity, loaded, call, js, home, sentTo, lost, kept, evals,
                 resumed, looper>>

-----------------------------------------------------------------------------
(* HTTP threads.                                                           *)

\* process(): "health" is answered on the spot.
CallHealth(r, h) ==
  /\ service[h] = "running"
  /\ call[r] = "new"
  /\ call' = [call EXCEPT ![r] = "returned"]
  /\ home' = [home EXCEPT ![r] = h]
  /\ UNCHANGED <<activity, loaded, service, registered, pending, js, sentTo,
                 racing, lost, kept, evals, resumed, looper>>

\* process() -> sendMessageToActivity: the thread enters pendingCallbacks[id] = ...
\* on a map nothing synchronises.
PutBegin(r, h) ==
  /\ service[h] = "running"
  /\ call[r] = "new"
  /\ call' = [call EXCEPT ![r] = "putting"]
  /\ home' = [home EXCEPT ![r] = h]
  /\ js' \in {js, js \cup {r}}
  /\ racing' = IF Putting(h) = {} THEN racing
                                  ELSE racing \cup Putting(h) \cup {r}
  /\ UNCHANGED <<activity, loaded, service, registered, pending, sentTo, lost,
                 kept, evals, resumed, looper>>

\* The put completes.  A put that raced may lose its own entry and, when both
\* threads resize the table, others.
PutEnd(r) ==
  /\ call[r] = "putting"
  /\ call' = [call EXCEPT ![r] = "put"]
  /\ LET h == home[r] IN
     \E L \in (IF r \in racing THEN SUBSET (pending[h] \cup {r}) ELSE {{}}) :
       /\ pending' = [pending EXCEPT ![h] = (@ \cup {r}) \ L]
       /\ lost' = lost \cup L
  /\ UNCHANGED <<activity, loaded, service, registered, js, home, sentTo,
                 racing, kept, evals, resumed, looper>>

\* sendBroadcast(ACTION_REQUEST), then the thread suspends, without a timeout.
Send(r) ==
  /\ call[r] = "put"
  /\ call' = [call EXCEPT ![r] = "waiting"]
  /\ sentTo' = [sentTo EXCEPT ![r] = Alive]
  /\ looper' = Broadcast(looper, RequestTask(r, Alive))
  /\ UNCHANGED <<activity, loaded, service, registered, pending, js, home,
                 racing, lost, kept, evals, resumed>>

-----------------------------------------------------------------------------
(* Main looper: MainActivity.serviceRequestReceiver, one receiver at a time. *)

\* Mutant: the home page is loaded by the first receiver only.
DeliverStartedOnce(a) ==
  /\ Is("started") /\ a \in Head(looper).to
  /\ loaded' = IF activity[a] = "alive" THEN loaded \cup {a} ELSE loaded
  /\ looper' = Tail(looper)
  /\ UNCHANGED <<activity, service, registered, evals, bridgeVars>>

\* An async message: "onServerStarted" loads the home page.
DeliverStarted(a) ==
  /\ Is("started") /\ a \in Head(looper).to
  /\ loaded' = IF activity[a] = "alive" THEN loaded \cup {a} ELSE loaded
  /\ looper' = Rest(looper, a)
  /\ UNCHANGED <<activity, service, registered, evals, bridgeVars>>

\* Mutant: a method MainActivity does not know is not answered.
DeliverRequestUnknown(a) ==
  /\ Is("request") /\ a \in Head(looper).to
  /\ LET r == Head(looper).req IN
     /\ looper' = Rest(looper, a)
     /\ evals' = IF activity[a] = "alive" /\ r \in js THEN evals \cup {<<r, a>>}
                                                     ELSE evals
  /\ UNCHANGED <<activity, loaded, service, registered, bridgeVars>>

\* A request, skipped when its receiver was unregistered: execJs answers from
\* the WebView's callback, every other method before it returns (also when
\* the method is unknown or throws).
DeliverRequest(a) ==
  /\ Is("request") /\ a \in Head(looper).to
  /\ LET r == Head(looper).req IN
     \/ /\ activity[a] # "alive"
        /\ looper' = Rest(looper, a)
        /\ UNCHANGED evals
     \/ /\ activity[a] = "alive" /\ r \in js
        /\ evals' = evals \cup {<<r, a>>}
        /\ looper' = Rest(looper, a)
     \/ /\ activity[a] = "alive" /\ r \notin js
        /\ looper' = Broadcast(Rest(looper, a), ResponseTask(r, registered))
        /\ UNCHANGED evals
  /\ UNCHANGED <<activity, loaded, service, registered, bridgeVars>>

\* Mutant: the result of a script is not sent back.
JsResultDropped(r, a) ==
  /\ <<r, a>> \in evals
  /\ evals' = evals \ {<<r, a>>}
  /\ UNCHANGED <<activity, loaded, service, registered, looper, bridgeVars>>

\* evaluateJavascript's callback.
JsResult(r, a) ==
  /\ <<r, a>> \in evals
  /\ evals' = evals \ {<<r, a>>}
  /\ looper' = Broadcast(looper, ResponseTask(r, registered))
  /\ UNCHANGED <<activity, loaded, service, registered, bridgeVars>>

\* Mutant: pendingCallbacks[id] read instead of removed.
RemoveNothing(S, r) == S

\* What pendingCallbacks.remove(id) leaves.
Remove(S, r) == S \ {r}

\* MessageHandler's receiver: pendingCallbacks.remove(id)?.let { post resume }.
\* While an HTTP thread is inside a put, which may be moving the entries to a
\* larger table, the remove races with it: it may take the callback out of the
\* old table only, the entry staying in the new one, or miss the entry, and
\* the reply is dropped.
DeliverResponse(h) ==
  /\ Is("response") /\ h \in Head(looper).to
  /\ LET r == Head(looper).req IN
     /\ \/ /\ r \in pending[h]
           /\ pending' = [pending EXCEPT ![h] = Remove(@, r)]
           /\ looper' = Append(Rest(looper, h), ResumeTask(r))
           /\ UNCHANGED <<lost, kept>>
        \/ /\ r \in pending[h] /\ Putting(h) # {}
           /\ kept' = kept \cup {r}
           /\ looper' = Append(Rest(looper, h), ResumeTask(r))
           /\ UNCHANGED <<pending, lost>>
        \/ /\ r \in pending[h] /\ Putting(h) # {}
           /\ lost' = lost \cup {r}
           /\ looper' = Rest(looper, h)
           /\ UNCHANGED <<pending, kept>>
        \/ /\ r \notin pending[h]
           /\ looper' = Rest(looper, h)
           /\ UNCHANGED <<pending, lost, kept>>
     /\ racing' = racing \cup Putting(h)
  /\ UNCHANGED <<activity, loaded, service, registered, call, js, home, sentTo,
                 evals, resumed>>

\* continuation.resumeWith(result): process() returns to the HTTP thread.  A
\* second resumeWith of the same continuation throws (Crashed).
Resume ==
  /\ Is("resume")
  /\ LET r == Head(looper).req IN
     /\ resumed' = [resumed EXCEPT ![r] = @ + 1]
     /\ call' = [call EXCEPT ![r] = "returned"]
  /\ looper' = Tail(looper)
  /\ UNCHANGED <<activity, loaded, service, registered, pending, js, home,
                 sentTo, racing, lost, kept, evals>>

-----------------------------------------------------------------------------
HttpThread(r) ==
  \/ \E h \in Handler : CallHealth(r, h) \/ PutBegin(r, h)
  \/ PutEnd(r)
  \/ Send(r)

MainLooper ==
  \/ StartService
  \/ \E a \in Activity : DeliverStarted(a) \/ DeliverRequest(a)
  \/ \E h \in Handler : DeliverResponse(h)
  \/ Resume

LifeCycle ==
  \/ \E a \in Activity : CreateActivity(a) \/ DestroyActivity(a)
  \/ \E h \in Handler : DestroyService(h)

\* An exception of a task ends the main looper, and with it the app.
Crashed == \E r \in Request : resumed[r] > 1

Next ==
  /\ ~Crashed
  /\ \/ LifeCycle
     \/ \E r \in Request : HttpThread(r)
     \/ MainLooper
     \/ \E r \in Request, a \in Activity : JsResult(r, a)

Spec == Init /\ [][Next]_vars

\* Threads are scheduled, the main looper drains its queue, and the WebView of
\* an activity that is alive calls back.  Nothing makes the system create or
\* destroy an activity or a service, or a client send a request.
Fairness ==
  /\ WF_vars(~Crashed /\ MainLooper)
  /\ \A r \in Request : WF_vars(~Crashed /\ (PutEnd(r) \/ Send(r)))
  /\ \A r \in Request, a \in Activity :
       WF_vars(~Crashed /\ JsResult(r, a) /\ activity[a] = "alive")

FairSpec == Spec /\ Fairness

-----------------------------------------------------------------------------
(* Properties.                                                             *)

Some(S) == (SUBSET S) \ {{}}

TaskSet ==
  [kind : {"start"}, req : {None}, to : {{}}]
    \cup [kind : {"started"}, req : {None}, to : Some(Activity)]
    \cup [kind : {"request"}, req : Request, to : Some(Activity)]
    \cup [kind : {"response"}, req : Request, to : Some(Handler)]
    \cup [kind : {"resume"}, req : Request, to : {{}}]

\* Types of the state of the bridge (MessageHandler, MainActivity, LocalServer);
\* a broadcast in the looper has a receiver.
TypeOK ==
  /\ activity \in [Activity -> {"absent", "alive", "destroyed"}]
  /\ loaded \subseteq Activity
  /\ service \in [Handler -> {"absent", "running", "failed", "destroyed"}]
  /\ registered \subseteq Handler
  /\ pending \in [Handler -> SUBSET Request]
  /\ call \in [Request -> {"new", "putting", "put", "waiting", "returned"}]
  /\ js \subseteq Request
  /\ home \in [Request -> Handler \cup {None}]
  /\ sentTo \in [Request -> SUBSET Activity]
  /\ racing \subseteq Request
  /\ lost \subseteq Request
  /\ kept \subseteq Request
  /\ evals \subseteq Request \X Activity
  /\ resumed \in [Request -> Nat]
  /\ looper \in Seq(TaskSet)

Queued(kind, r) == {i \in DOMAIN looper : looper[i].kind = kind /\ looper[i].req = r}

\* A continuation is resumed at most once, the tasks still queued included,
\* although every MainActivity that is alive answers every request: a second
\* resumeWith throws on the main looper and ends the app.  The one way to it is
\* a removal whose entry the put of another call restored.
ResumedAtMostOnce ==
  \A r \in Request \ kept :
    /\ resumed[r] <= 1
    /\ Queued("resume", r) # {} => resumed[r] = 0
    /\ \A i, j \in Queued("resume", r) : i = j
    /\ (\E h \in Handler : r \in pending[h]) =>
         resumed[r] = 0 /\ Queued("resume", r) = {}

\* A callback is kept only under the handler the call was made to, and only
\* for a call that still waits unless a race kept it: a call that has returned
\* leaves nothing in a map.
CallbacksAwaited ==
  \A h \in Handler : \A r \in pending[h] :
    /\ home[r] = h
    /\ r \notin kept => call[r] \in {"put", "waiting"}

InFlight(r) ==
  \/ Queued("request", r) # {}
  \/ \E a \in Alive : <<r, a>> \in evals
  \/ Queued("response", r) # {}
  \/ Queued("resume", r) # {}

\* A waiting call is never silently forgotten: unless its service was
\* destroyed, every activity it was sent to is gone, or the unsynchronised map
\* lost it, something that leads to its answer is still in flight.
NotForgotten ==
  \A r \in Request :
    /\ call[r] = "waiting" /\ r \notin lost
    /\ service[home[r]] = "running"
    /\ sentTo[r] \cap Alive # {}
    => InFlight(r)

\* Each such call is eventually answered, or one of the things that strand it
\* for ever (there is no timeout) happens, or the app ends.
Answered ==
  \A r \in Request :
    (call[r] = "waiting" /\ sentTo[r] \cap Alive # {}) ~>
      \/ call[r] = "returned"
      \/ r \in lost
      \/ Crashed
      \/ \E h \in Handler : home[r] = h /\ service[h] = "destroyed"
      \/ sentTo[r] \cap Alive = {}

\* Each activity alive when the server starts is told to load the home page,
\* as is the first activity, whose receiver is registered before the
\* service it starts can broadcast.
HomePageLoads ==
  \A a \in Activity :
    (activity[a] = "alive" /\ Is("start") /\ Up = {}) ~>
      (a \in loaded \/ activity[a] = "destroyed" \/ Crashed
        \/ \E h \in Handler : service[h] \in {"failed", "destroyed"})

\* Calls and the start of the server get their answer.
Progress == Answered /\ HomePageLoads

\* Every call that was answered is resumed once, races or not.  The model
\* contradicts it: see the README.
ResumedOnceAlways == ~Crashed

\* cleanup() is documented to release the resources of the handler "to prevent
\* a memory leak": a destroyed handler has no receiver left.  A statement of the
\* source that the model contradicts: see the README.
CleanupReleases ==
  \A h \in Handler : service[h] = "destroyed" => h \notin registered

=============================================================================
