----------------------------- MODULE Controller -----------------------------
(***************************************************************************)
(* The client's control queue (controller.c): the main thread pushes        *)
(* control messages into a bounded queue, the "scrcpy-ctl" thread writes    *)
(* them to the control socket.  The controller also owns the receiver, whose *)
(* thread reads from that socket, and joins both threads.                   *)
(*                                                                          *)
(* A critical section of the mutex is one action.  A thread blocked in      *)
(* sc_cond_wait is "waiting"; a signal, or a spurious wakeup, makes it      *)
(* "ready" to take the mutex again.  Each element of Msg is one message,    *)
(* pushed at most once.                                                     *)
(***************************************************************************)
EXTENDS Naturals, Sequences, FiniteSets

CONSTANTS
  Msg,            \* the messages of one session
  NonDroppable,   \* those for which sc_control_msg_is_droppable is false
  Limit           \* SC_CONTROL_MSG_QUEUE_LIMIT

ASSUME MsgAssumption   == NonDroppable \subseteq Msg
ASSUME LimitAssumption == Limit \in Nat \ {0}

VARIABLES
  main,       \* the owner: init, running, stopping, joined, destroyed
  thread,     \* the controller thread: none, ready, waiting, sending, done
  receiver,   \* the receiver's thread: none, running, over
  socket,     \* the control socket: open, shut (net_interrupt)
  queue,      \* controller->queue
  current,    \* the message the thread popped, as a sequence of 0 or 1
  stopped,    \* controller->stopped
  ended,      \* calls of cbs->on_ended by the thread: "no", "ok" or "error"
  accepted,   \* history: messages for which push returned true
  refused,    \* history: messages for which push returned false
  oom,        \* history: messages refused because an allocation failed
  sent,       \* history: messages written to the socket
  freed       \* history: how often each message was destroyed

receiving == <<receiver, socket>>

vars == <<main, thread, receiving, queue, current, stopped, ended, accepted,
          refused, oom, sent, freed>>

Signal(t) == IF t = "waiting" THEN "ready" ELSE t

Pushed == {accepted[i] : i \in 1..Len(accepted)} \cup refused

-----------------------------------------------------------------------------
Init ==
  /\ main = "init"
  /\ thread = "none"
  /\ receiver = "none"
  /\ socket = "open"
  /\ queue = <<>>
  /\ current = <<>>
  /\ stopped = FALSE
  /\ ended = "no"
  /\ accepted = <<>>
  /\ refused = {}
  /\ oom = {}
  /\ sent = <<>>
  /\ freed = [m \in Msg |-> 0]

\* sc_controller_start; when the receiver cannot start, the controller is
\* stopped and its thread joined by the same call.
Start ==
  /\ main = "init"
  /\ thread' = "ready"
  /\ \/ main' = "running" /\ receiver' = "running" /\ UNCHANGED stopped
     \/ main' = "stopping" /\ stopped' = TRUE /\ UNCHANGED receiver
  /\ UNCHANGED <<socket, queue, current, ended, accepted, refused, oom, sent,
                 freed>>

\* Mutant: was_empty read after the push.
PushBelowLate(m) ==
  /\ Len(queue) < Limit
  /\ queue' = Append(queue, m)
  /\ accepted' = Append(accepted, m)
  /\ thread' = IF queue' = <<>> THEN Signal(thread) ELSE thread
  /\ UNCHANGED <<refused, oom>>

\* Room left below the limit: the first message wakes the thread.
PushBelow(m) ==
  /\ Len(queue) < Limit
  /\ queue' = Append(queue, m)
  /\ accepted' = Append(accepted, m)
  /\ thread' = IF queue = <<>> THEN Signal(thread) ELSE thread
  /\ UNCHANGED <<refused, oom>>

\* Mutant: above the limit every message is dropped.
PushAboveDrops(m) ==
  /\ Len(queue) >= Limit
  /\ m \in NonDroppable
  /\ refused' = refused \cup {m}
  /\ UNCHANGED <<queue, accepted, oom, thread>>

\* Above it only the messages that may not be dropped enter, without a signal.
PushAbove(m) ==
  /\ Len(queue) >= Limit
  /\ m \in NonDroppable
  /\ \/ /\ queue' = Append(queue, m)
        /\ accepted' = Append(accepted, m)
        /\ UNCHANGED <<refused, oom>>
     \/ /\ refused' = refused \cup {m}
        /\ oom' = oom \cup {m}
        /\ UNCHANGED <<queue, accepted>>
  /\ UNCHANGED thread

Drop(m) ==
  /\ Len(queue) >= Limit
  /\ m \notin NonDroppable
  /\ refused' = refused \cup {m}
  /\ UNCHANGED <<queue, accepted, thread, oom>>

PushMsg(m) ==
  /\ main \in {"init", "running"}
  /\ m \notin Pushed
  /\ PushBelow(m) \/ PushAbove(m) \/ Drop(m)
  /\ UNCHANGED <<main, receiving, current, stopped, ended, sent, freed>>

\* Mutant: the stop is not signalled.
StopSilent ==
  /\ main = "running"
  /\ main' = "stopping"
  /\ stopped' = TRUE
  /\ UNCHANGED <<thread, receiving, queue, current, ended, accepted, refused,
                 oom, sent, freed>>

\* sc_controller_stop
Stop ==
  /\ main = "running"
  /\ main' = "stopping"
  /\ stopped' = TRUE
  /\ thread' = Signal(thread)
  /\ UNCHANGED <<receiving, queue, current, ended, accepted, refused, oom, sent,
                 freed>>

\* sc_controller_join waits for the controller thread, then for the receiver.
Join ==
  /\ main = "stopping"
  /\ thread = "done" /\ receiver # "running"
  /\ main' = "joined"
  /\ UNCHANGED <<thread, receiving, queue, current, stopped, ended, accepted,
                 refused, oom, sent, freed>>

\* sc_controller_destroy frees what is left in the queue.
Destroy ==
  /\ main = "joined"
  /\ main' = "destroyed"
  /\ freed' = [m \in Msg |-> freed[m] + Cardinality({i \in DOMAIN queue : queue[i] = m})]
  /\ queue' = <<>>
  /\ UNCHANGED <<thread, receiving, current, stopped, ended, accepted, refused,
                 oom, sent>>

-----------------------------------------------------------------------------
(* run_controller                                                          *)

Wait ==
  /\ thread = "ready"
  /\ ~stopped /\ queue = <<>>
  /\ thread' = "waiting"
  /\ UNCHANGED <<main, receiving, queue, current, stopped, ended, accepted,
                 refused, oom, sent, freed>>

SpuriousWakeup ==
  /\ thread = "waiting"
  /\ thread' = "ready"
  /\ UNCHANGED <<main, receiving, queue, current, stopped, ended, accepted,
                 refused, oom, sent, freed>>

\* "stop immediately, do not process further msgs"
SeeStopped ==
  /\ thread = "ready"
  /\ stopped
  /\ thread' = "done"
  /\ ended' = "ok"
  /\ UNCHANGED <<main, receiving, queue, current, stopped, accepted, refused, oom,
                 sent, freed>>

\* Mutant: the newest message first.
PopLast ==
  /\ thread = "ready"
  /\ ~stopped /\ queue # <<>>
  /\ current' = <<queue[Len(queue)]>>
  /\ queue' = SubSeq(queue, 1, Len(queue) - 1)
  /\ thread' = "sending"
  /\ UNCHANGED <<main, receiving, stopped, ended, accepted, refused, oom, sent,
                 freed>>

Pop ==
  /\ thread = "ready"
  /\ ~stopped /\ queue # <<>>
  /\ current' = <<Head(queue)>>
  /\ queue' = Tail(queue)
  /\ thread' = "sending"
  /\ UNCHANGED <<main, receiving, stopped, ended, accepted, refused, oom, sent,
                 freed>>

\* Mutant: a message that cannot be sent is not destroyed.
ProcessMsgLeaks ==
  /\ thread = "sending"
  /\ LET m == Head(current) IN
       \/ /\ socket = "open"
          /\ sent' = Append(sent, m) /\ thread' = "ready" /\ UNCHANGED ended
          /\ freed' = [freed EXCEPT ![m] = @ + 1]
       \/ thread' = "done" /\ ended' \in {"ok", "error"} /\ UNCHANGED <<sent, freed>>
  /\ current' = <<>>
  /\ UNCHANGED <<main, receiving, queue, stopped, accepted, refused, oom>>

\* Mutant: the message stays the current one.
ProcessMsgKeeps ==
  /\ thread = "sending"
  /\ LET m == Head(current) IN
     /\ freed' = [freed EXCEPT ![m] = @ + 1]
     /\ \/ /\ socket = "open"
           /\ sent' = Append(sent, m) /\ thread' = "ready" /\ UNCHANGED ended
        \/ thread' = "done" /\ ended' \in {"ok", "error"} /\ UNCHANGED sent
  /\ UNCHANGED <<current, main, receiving, queue, stopped, accepted, refused, oom>>

\* process_msg, then sc_control_msg_destroy: the message is serialized and
\* written, or cannot be serialized, or the socket is closed.
ProcessMsg ==
  /\ thread = "sending"
  /\ LET m == Head(current) IN
     /\ freed' = [freed EXCEPT ![m] = @ + 1]
     /\ \/ /\ socket = "open"
           /\ sent' = Append(sent, m) /\ thread' = "ready" /\ UNCHANGED ended
        \/ thread' = "done" /\ ended' \in {"ok", "error"} /\ UNCHANGED sent
  /\ current' = <<>>
  /\ UNCHANGED <<main, receiving, queue, stopped, accepted, refused, oom>>

-----------------------------------------------------------------------------
(* run_receiver and the server thread.                                     *)

restVars == <<main, thread, queue, current, stopped, ended, accepted, refused,
              oom, sent, freed>>

\* run_receiver leaves its loop when the device disconnects, when a message
\* cannot be parsed, or when the socket was shut.
ReceiverEnds ==
  /\ receiver = "running"
  /\ receiver' = "over"
  /\ UNCHANGED <<socket, restVars>>

\* After sc_controller_stop the session calls sc_server_stop, and the server
\* thread then interrupts the control socket.
InterruptSocket ==
  /\ main = "stopping"
  /\ socket = "open"
  /\ socket' = "shut"
  /\ UNCHANGED <<receiver, restVars>>

Thread == Wait \/ SeeStopped \/ Pop \/ ProcessMsg

Next ==
  \/ Start
  \/ \E m \in Msg : PushMsg(m)
  \/ Stop
  \/ Join
  \/ Destroy
  \/ Thread
  \/ SpuriousWakeup
  \/ ReceiverEnds
  \/ InterruptSocket

Spec == Init /\ [][Next]_vars

\* The thread is scheduled, and a write to the socket returns: the peer reads,
\* or shutting the socket interrupts it.  Nothing makes a device send, or
\* disconnect: a receiver ends for certain only once the socket was shut, which
\* the server thread does after a stop, the session never waiting in between.
\* Stopping is up to the user, joining and destroying follow.
Fairness ==
  /\ WF_vars(Thread)
  /\ WF_vars(ReceiverEnds /\ socket = "shut")
  /\ WF_vars(InterruptSocket)
  /\ WF_vars(Join \/ Destroy)

FairSpec == Spec /\ Fairness

-----------------------------------------------------------------------------
(* Properties.                                                             *)

\* Types; the thread holds a message exactly while it writes one.
TypeOK ==
  /\ main \in {"init", "running", "stopping", "joined", "destroyed"}
  /\ thread \in {"none", "ready", "waiting", "sending", "done"}
  /\ receiver \in {"none", "running", "over"}
  /\ socket \in {"open", "shut"}
  /\ queue \in Seq(Msg)
  /\ current \in Seq(Msg)
  /\ Len(current) <= 1 /\ (Len(current) = 1 <=> thread = "sending")
  /\ stopped \in BOOLEAN
  /\ ended \in {"no", "ok", "error"}
  /\ accepted \in Seq(Msg)
  /\ refused \subseteq Msg
  /\ oom \subseteq Msg
  /\ sent \in Seq(Msg)
  /\ freed \in [Msg -> Nat]

\* A thread that sleeps has nothing to do: push signals only when the queue was
\* empty and not at all above the limit, so a message pushed, or a stop
\* requested, behind its back would never be seen.
NoLostWakeup == thread = "waiting" => queue = <<>> /\ ~stopped

\* Only messages that may be dropped are dropped, unless memory is exhausted.
NonDroppableKept == refused \cap NonDroppable \subseteq oom

\* Every accepted message is destroyed exactly once, on each path out.
FreedOnce ==
  /\ \A m \in Msg : freed[m] <= 1
  /\ main = "destroyed" =>
       \A i \in DOMAIN accepted : freed[accepted[i]] = 1

\* Messages are sent in the order accepted, without gap or repetition.
Stream == INSTANCE ControlStream
StreamSpec == Stream!Spec

\* A message in the queue is sent or the thread ends; a stop is followed by the
\* end of both threads and the release of the controller, although it wakes
\* only one of them.
Queued(m) == \E i \in DOMAIN queue : queue[i] = m
QueueDrains ==
  \A m \in Msg :
    (Queued(m) /\ thread # "none") ~> (~Queued(m) \/ thread = "done")
StopCompletes == (main = "stopping") ~> (main = "destroyed")
Progress == QueueDrains /\ StopCompletes

=============================================================================
