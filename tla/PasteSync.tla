----------------------------- MODULE PasteSync ------------------------------
(***************************************************************************)
(* Pasting with a HID keyboard.  Ctrl+v reaches the device over USB (AOA),  *)
(* the clipboard it pastes over the control socket: the "scrcpy-aoa" thread *)
(* holds the key back until the server acknowledges the clipboard.          *)
(*                                                                          *)
(*   main (input_manager.c)  --control-->  server (Controller.java)         *)
(*        |                                   | DeviceMessageSender         *)
(*        v                                   v                             *)
(*   aoa queue (aoa_hid.c) <--acksync.c-- receiver (receiver.c)             *)
(*                                                                          *)
(* A critical section of a mutex is one action.  The queue of the client's  *)
(* controller and the socket are one channel, as Controller shows they may  *)
(* be.  Sequence 0 is SC_SEQUENCE_INVALID.                                  *)
(***************************************************************************)
EXTENDS Naturals, SequencesExt

CONSTANTS
  Hid,           \* ids of the HID devices the main thread opens and closes
  AoaLimit,      \* SC_AOA_EVENT_QUEUE_LIMIT
  Reserve,       \* room above the limit that needs no allocation, 4 in sc_aoa_init
  SenderLimit,   \* capacity of DeviceMessageSender's queue
  MaxSequence,   \* bound: number of pastes
  MaxEvents,     \* bound: events pushed to the aoa queue
  MaxTexts       \* bound: clipboard texts the device sends by itself

ASSUME LimitAssumption ==
  AoaLimit \in Nat \ {0} /\ Reserve \in Nat /\ SenderLimit \in Nat \ {0}
ASSUME BoundAssumption == MaxSequence \in Nat /\ MaxEvents \in Nat /\ MaxTexts \in Nat

Text == 0   \* a device message that is no acknowledgement

VARIABLES
  main,         \* running, stopping, interrupted, joined
  next,         \* im->next_sequence
  devices,      \* the HID devices it has opened
  unannounced,  \* history: those of them whose opening could not be pushed
  pushes,       \* number of events pushed, bounded
  texts,        \* number of clipboard texts sent by the device, bounded
  control,      \* SET_CLIPBOARD sequences on their way to the server
  applied,      \* the sequence of the device's clipboard
  unset,        \* history: the sequences whose clipboard could not be set
  outbox,       \* DeviceMessageSender's queue
  inbox,        \* device messages in the socket
  ack,          \* acksync->ack
  interrupted,  \* acksync->stopped
  queue,        \* aoa->queue
  stopped,      \* aoa->stopped
  aoa,          \* the aoa thread: ready, waiting, process, checking, blocked,
                \* expired, send, exit, done
  event,        \* the event it processes, as a sequence of 0 or 1
  opened,       \* its vec_open
  registered,   \* HID ids registered on the device
  unready,      \* history: ids whose last setup failed
  orphans,      \* history: ids whose unregistration failed or was forgotten
  pasted        \* history: <<sequence, applied>> when Ctrl+v was sent

mainVars   == <<main, next, devices, unannounced, pushes>>
serverVars == <<texts, control, applied, unset, outbox, inbox>>
syncVars   == <<ack, interrupted>>
queueVars  == <<queue, stopped>>
hidVars    == <<opened, registered, unready, orphans>>
vars == <<mainVars, serverVars, syncVars, queueVars, aoa, event, hidVars, pasted>>

\* "announced" is history: the opening of its device had been pushed before it.
Events == [type : {"input"}, id : Hid, ack : 0..MaxSequence, announced : BOOLEAN]
            \cup [type : {"open", "close"}, id : Hid]

Init ==
  /\ main = "running" /\ next = 1 /\ devices = {} /\ unannounced = {} /\ pushes = 0
  /\ texts = 0 /\ control = <<>> /\ applied = 0 /\ unset = {}
  /\ outbox = <<>> /\ inbox = <<>>
  /\ ack = 0 /\ interrupted = FALSE
  /\ queue = <<>> /\ stopped = FALSE
  /\ aoa = "ready" /\ event = <<>>
  /\ opened = <<>> /\ registered = {} /\ unready = {} /\ orphans = {}
  /\ pasted = {}

-----------------------------------------------------------------------------
(* The main thread                                                         *)

Push(e) ==
  /\ queue' = Append(queue, e)
  /\ aoa' = IF queue = <<>> /\ aoa = "waiting" THEN "ready" ELSE aoa
  /\ pushes' = pushes + 1
  /\ UNCHANGED stopped

\* sc_aoa_push_input_with_ack_to_wait: at the limit the event is discarded.
PushInput(id, seq) ==
  IF Len(queue) < AoaLimit
  THEN Push([type |-> "input", id |-> id, ack |-> seq, announced |-> id \notin unannounced])
  ELSE UNCHANGED <<queueVars, aoa, pushes>>

\* A key other than Ctrl+v, a mouse or a gamepad report.
Input(id) ==
  /\ main = "running" /\ id \in devices /\ pushes < MaxEvents
  /\ PushInput(id, 0)
  /\ UNCHANGED <<main, next, devices, unannounced, serverVars, syncVars, event, hidVars,
                 pasted>>

\* Mutant: opening and closing are subject to the limit.
OpenCloseDroppable(type, id) ==
  /\ main = "running" /\ pushes < MaxEvents
  /\ devices' = IF type = "open" THEN devices \cup {id} ELSE devices \ {id}
  /\ (type = "open") # (id \in devices)
  /\ IF Len(queue) < AoaLimit THEN Push([type |-> type, id |-> id])
                              ELSE UNCHANGED <<queueVars, aoa, pushes>>
  /\ UNCHANGED <<main, next, unannounced, serverVars, syncVars, event, hidVars, pasted>>

\* No memory for an event beyond the reserve
PushFails == Len(queue) >= AoaLimit + Reserve /\ UNCHANGED <<queueVars, aoa, pushes>>

\* sc_aoa_push_open and sc_aoa_push_close: pushed "even above" the limit, memory
\* permitting.  A gamepad takes or leaves its slot all the same (the keyboard and
\* the mouse are opened once, and without them there is no session).
OpenClose(type, id) ==
  /\ main = "running" /\ pushes < MaxEvents
  /\ devices' = IF type = "open" THEN devices \cup {id} ELSE devices \ {id}
  /\ (type = "open") # (id \in devices)
  /\ \/ Push([type |-> type, id |-> id]) /\ unannounced' = unannounced \ {id}
     \/ PushFails /\ unannounced' = devices' \cap (unannounced \cup {id})
  /\ UNCHANGED <<main, next, serverVars, syncVars, event, hidVars, pasted>>

\* Ctrl+v: the clipboard is requested, then the key is pushed.  When the
\* request is refused nothing happens at all.
Paste(id) ==
  /\ main = "running" /\ id \in devices /\ next <= MaxSequence
  /\ control' = Append(control, next)
  /\ next' = next + 1
  /\ PushInput(id, next)
  /\ UNCHANGED <<main, devices, unannounced, texts, applied, unset, outbox, inbox, syncVars,
                 event, hidVars, pasted>>

\* Mutant: the stop is not signalled.
StopAoaSilent ==
  /\ main = "running"
  /\ main' = "stopping"
  /\ stopped' = TRUE
  /\ UNCHANGED <<aoa, next, devices, unannounced, pushes, serverVars, syncVars, queue, event,
                 hidVars, pasted>>

\* sc_aoa_stop, in two critical sections
StopAoa ==
  /\ main = "running"
  /\ main' = "stopping"
  /\ stopped' = TRUE
  /\ aoa' = IF aoa = "waiting" THEN "ready" ELSE aoa
  /\ UNCHANGED <<next, devices, unannounced, pushes, serverVars, syncVars, queue, event,
                 hidVars, pasted>>

Interrupt ==
  /\ main = "stopping"
  /\ main' = "interrupted"
  /\ interrupted' = TRUE
  /\ aoa' = IF aoa = "blocked" THEN "checking" ELSE aoa
  /\ UNCHANGED <<next, devices, unannounced, pushes, serverVars, ack, queueVars, event,
                 hidVars, pasted>>

Join ==
  /\ main = "interrupted" /\ aoa = "done"
  /\ main' = "joined"
  /\ UNCHANGED <<next, devices, unannounced, pushes, serverVars, syncVars, queueVars, aoa,
                 event, hidVars, pasted>>

-----------------------------------------------------------------------------
(* The server and the receiver                                             *)

\* Mutant: an unbounded queue.
OfferAlways(m) == outbox' = Append(outbox, m)

\* DeviceMessageSender.send drops the message when its queue is full.
Offer(m) == outbox' = IF Len(outbox) < SenderLimit THEN Append(outbox, m) ELSE outbox

\* Controller.setClipboard: what Device.setClipboardText returns only decides what
\* is logged, the acknowledgement is sent in any case.
SetClipboard ==
  /\ control # <<>>
  /\ \/ applied' = Head(control) /\ UNCHANGED unset
     \/ unset' = unset \cup {Head(control)} /\ UNCHANGED applied
  /\ Offer(Head(control))
  /\ control' = Tail(control)
  /\ UNCHANGED <<mainVars, texts, inbox, syncVars, queueVars, aoa, event, hidVars, pasted>>

\* The device's clipboard listener, or a UHID output report.
DeviceText ==
  /\ texts < MaxTexts
  /\ texts' = texts + 1
  /\ Offer(Text)
  /\ UNCHANGED <<mainVars, control, applied, unset, inbox, syncVars, queueVars, aoa, event,
                 hidVars, pasted>>

\* Mutant: the newest message first.
TransmitLast ==
  /\ outbox # <<>>
  /\ inbox' = Append(inbox, outbox[Len(outbox)])
  /\ outbox' = SubSeq(outbox, 1, Len(outbox) - 1)
  /\ UNCHANGED <<mainVars, texts, control, applied, unset, syncVars, queueVars, aoa, event,
                 hidVars, pasted>>

Transmit ==
  /\ outbox # <<>>
  /\ inbox' = Append(inbox, Head(outbox))
  /\ outbox' = Tail(outbox)
  /\ UNCHANGED <<mainVars, texts, control, applied, unset, syncVars, queueVars, aoa, event,
                 hidVars, pasted>>

\* Mutant: the waiter is not signalled.
ReceiveSilent ==
  /\ inbox # <<>>
  /\ inbox' = Tail(inbox)
  /\ ack' = IF Head(inbox) # Text THEN Head(inbox) ELSE ack
  /\ UNCHANGED <<aoa, mainVars, texts, control, applied, unset, outbox, interrupted, queueVars,
                 event, hidVars, pasted>>

\* process_msg, with sc_acksync_ack for an acknowledgement
Receive ==
  /\ inbox # <<>>
  /\ inbox' = Tail(inbox)
  /\ IF Head(inbox) = Text THEN UNCHANGED <<ack, aoa>>
     ELSE /\ ack' = Head(inbox)
          /\ aoa' = IF aoa = "blocked" THEN "checking" ELSE aoa
  /\ UNCHANGED <<mainVars, texts, control, applied, unset, outbox, interrupted, queueVars,
                 event, hidVars, pasted>>

-----------------------------------------------------------------------------
(* The aoa thread                                                          *)

env == <<mainVars, serverVars, syncVars>>

Wait ==
  /\ aoa = "ready" /\ ~stopped /\ queue = <<>>
  /\ aoa' = "waiting"
  /\ UNCHANGED <<env, queueVars, event, hidVars, pasted>>

Pop ==
  /\ aoa = "ready" /\ ~stopped /\ queue # <<>>
  /\ event' = <<Head(queue)>>
  /\ queue' = Tail(queue)
  /\ \/ Head(queue).type # "input" /\ aoa' = "process"
     \/ Head(queue).type = "input" /\ Head(queue).ack # 0 /\ aoa' = "checking"
     \/ Head(queue).type = "input" /\ Head(queue).ack = 0 /\ aoa' = "send"
  /\ UNCHANGED <<env, stopped, hidVars, pasted>>

\* "Stop immediately, do not process further events"
SeeStopped ==
  /\ aoa = "ready" /\ stopped
  /\ aoa' = "exit"
  /\ UNCHANGED <<env, queueVars, event, hidVars, pasted>>

Acknowledged == ack >= event[1].ack

\* Mutant: the deadline counts as an acknowledgement.
WaitAckLenient ==
  /\ aoa \in {"checking", "expired"}
  /\ \/ interrupted /\ aoa' = "exit" /\ event' = <<>>
     \/ ~interrupted /\ (Acknowledged \/ aoa = "expired") /\ aoa' = "send" /\ UNCHANGED event
     \/ ~interrupted /\ ~Acknowledged /\ aoa = "checking" /\ aoa' = "blocked" /\ UNCHANGED event
  /\ UNCHANGED <<env, queueVars, hidVars, pasted>>

\* Mutant: the deadline is never looked at.
WaitAckForever ==
  /\ aoa \in {"checking", "expired"}
  /\ \/ interrupted /\ aoa' = "exit" /\ event' = <<>>
     \/ ~interrupted /\ Acknowledged /\ aoa' = "send" /\ UNCHANGED event
     \/ ~interrupted /\ ~Acknowledged /\ aoa' = "blocked" /\ UNCHANGED event
  /\ UNCHANGED <<env, queueVars, hidVars, pasted>>

\* sc_acksync_wait, each time it holds the mutex
WaitAck ==
  /\ aoa \in {"checking", "expired"}
  /\ \/ interrupted /\ aoa' = "exit" /\ event' = <<>>
     \/ ~interrupted /\ Acknowledged /\ aoa' = "send" /\ UNCHANGED event
     \/ ~interrupted /\ ~Acknowledged /\ aoa = "expired" /\ aoa' = "ready" /\ event' = <<>>
     \/ ~interrupted /\ ~Acknowledged /\ aoa = "checking" /\ aoa' = "blocked" /\ UNCHANGED event
  /\ UNCHANGED <<env, queueVars, hidVars, pasted>>

\* The deadline, 500 ms after the wait began
Timeout ==
  /\ aoa = "blocked"
  /\ aoa' = "expired"
  /\ UNCHANGED <<env, queueVars, event, hidVars, pasted>>

SpuriousWakeup ==
  /\ \/ aoa = "blocked" /\ aoa' = "checking"
     \/ aoa = "waiting" /\ aoa' = "ready"
  /\ UNCHANGED <<env, queueVars, event, hidVars, pasted>>

\* sc_aoa_send_hid_event; an error is only logged.
SendInput ==
  /\ aoa = "send"
  /\ aoa' = "ready"
  /\ event' = <<>>
  /\ pasted' = IF event[1].ack = 0 THEN pasted
               ELSE pasted \cup {<<event[1].ack, applied>>}
  /\ UNCHANGED <<env, queueVars, hidVars>>

\* sc_aoa_setup_hid: registered and described, or registered and not described
\* and unregistered again, if that does not fail too.  Without memory for its id
\* the device "will just not be explicitly unregistered".
OpenHid ==
  /\ aoa = "process" /\ event[1].type = "open"
  /\ LET id == event[1].id IN
     \/ /\ registered' = registered \cup {id}
        /\ unready' = unready \ {id}
        /\ \/ opened' = Append(opened, id) /\ UNCHANGED orphans
           \/ orphans' = orphans \cup {id} /\ UNCHANGED opened
     \/ /\ unready' = unready \cup {id}
        /\ \/ UNCHANGED <<registered, orphans>>
           \/ registered' = registered \cup {id} /\ orphans' = orphans \cup {id}
        /\ UNCHANGED opened
  /\ aoa' = "ready" /\ event' = <<>>
  /\ UNCHANGED <<env, queueVars, pasted>>

CloseHid ==
  /\ aoa = "process" /\ event[1].type = "close"
  /\ LET id == event[1].id IN
     \/ /\ registered' = registered \ {id}
        /\ \/ \E i \in DOMAIN opened :
                /\ opened[i] = id /\ \A j \in 1..i - 1 : opened[j] # id
                /\ opened' = RemoveAt(opened, i)
           \/ (\A i \in DOMAIN opened : opened[i] # id) /\ UNCHANGED opened
        /\ UNCHANGED <<unready, orphans>>
     \/ UNCHANGED hidVars
  /\ aoa' = "ready" /\ event' = <<>>
  /\ UNCHANGED <<env, queueVars, pasted>>

\* Mutant: devices are left as they are.
ExitAtOnce ==
  /\ aoa = "exit"
  /\ opened' = <<>>
  /\ aoa' = "done"
  /\ UNCHANGED <<env, queueVars, event, registered, orphans, unready, pasted>>

\* Every device still open is unregistered, or the request fails.
Exit ==
  /\ aoa = "exit"
  /\ \E failed \in SUBSET {opened[i] : i \in DOMAIN opened} :
       /\ registered' = registered \ ({opened[i] : i \in DOMAIN opened} \ failed)
       /\ orphans' = orphans \cup failed
  /\ opened' = <<>>
  /\ aoa' = "done"
  /\ UNCHANGED <<env, queueVars, event, unready, pasted>>

AoaThread ==
  \/ Wait \/ Pop \/ SeeStopped
  \/ WaitAck \/ SendInput
  \/ OpenHid \/ CloseHid
  \/ Exit

Next ==
  \/ \E id \in Hid : Input(id) \/ Paste(id)
  \/ \E type \in {"open", "close"}, id \in Hid : OpenClose(type, id)
  \/ StopAoa \/ Interrupt \/ Join
  \/ SetClipboard \/ DeviceText \/ Transmit \/ Receive
  \/ AoaThread \/ Timeout \/ SpuriousWakeup

Spec == Init /\ [][Next]_vars

\* The aoa thread is scheduled and USB transfers return (they have a timeout),
\* and the main thread completes a stop it began.  The deadline of a wait is a
\* date: however often the thread is woken before it, a wait that goes on reaches
\* it, hence strong fairness.  Nothing is assumed of the server.
FairSpec ==
  Spec /\ WF_vars(AoaThread) /\ SF_vars(Timeout) /\ WF_vars(Interrupt \/ Join)

-----------------------------------------------------------------------------
(* Properties.                                                             *)

\* Types; the aoa thread has an event exactly while it processes one, of the kind
\* its state is about.
TypeOK ==
  /\ main \in {"running", "stopping", "interrupted", "joined"}
  /\ next \in 1..MaxSequence + 1
  /\ devices \subseteq Hid /\ unannounced \subseteq devices
  /\ pushes \in Nat /\ texts \in Nat
  /\ control \in Seq(1..MaxSequence) /\ applied \in 0..MaxSequence
  /\ unset \subseteq 1..MaxSequence
  /\ outbox \in Seq(0..MaxSequence) /\ Len(outbox) <= SenderLimit
  /\ inbox \in Seq(0..MaxSequence)
  /\ ack \in 0..MaxSequence
  /\ interrupted \in BOOLEAN /\ stopped \in BOOLEAN
  /\ queue \in Seq(Events) /\ event \in Seq(Events)
  /\ aoa \in {"ready", "waiting", "process", "checking", "blocked", "expired",
              "send", "exit", "done"}
  /\ Len(event) = (IF aoa \in {"ready", "waiting", "exit", "done"} THEN 0 ELSE 1)
  /\ aoa \in {"checking", "blocked", "expired", "send"} => event[1].type = "input"
  /\ aoa \in {"checking", "blocked", "expired"} => event[1].ack # 0
  /\ opened \in Seq(Hid)
  /\ registered \subseteq Hid /\ unready \subseteq Hid /\ orphans \subseteq Hid
  /\ pasted \subseteq (1..MaxSequence) \X (0..MaxSequence)

\* Ctrl+v is injected only once the device has the clipboard it was pressed
\* for, or a later one, "otherwise it could paste the old clipboard content".  If
\* that clipboard could not be set it has the last one that could.
FreshPaste == \A p \in pasted : \A n \in 1..p[1] : p[2] >= n \/ n \in unset

\* "This allows to ensure that the device clipboard is set before injecting
\* Ctrl+v on the device" (key_processor.h).  The model contradicts it: see the README.
AcknowledgedIsSet == \A p \in pasted : p[2] >= p[1]

\* "Acknowledgements must be monotonic", asserted by sc_acksync_ack.
AckMonotonic ==
  \A i \in DOMAIN inbox : inbox[i] # Text => inbox[i] >= ack

\* The thread sleeps neither on work nor on what it waits for.
NoLostWakeup ==
  /\ aoa = "waiting" => queue = <<>> /\ ~stopped
  /\ aoa = "blocked" => ack < event[1].ack /\ ~interrupted

\* An input reaches a device that is registered, unless its setup failed or its
\* opening found no memory: open events are not dropped at the limit, and nothing
\* overtakes them.
InputFindsDevice ==
  aoa = "send" /\ event[1].announced => event[1].id \in registered \cup unready

\* "Explicitly unregister all registered HID ids before exiting"
NoneLeftRegistered == aoa = "done" => registered \subseteq orphans

\* "Do not block the loop indefinitely": a wait for an acknowledgement ends,
\* even if the server never answers.
WaitEnds == aoa = "checking" ~> aoa \notin {"checking", "blocked", "expired"}

\* A stop is followed by the end of the thread.
StopCompletes == (main = "stopping") ~> (main = "joined")

\* HID devices are registered before their inputs, and not after the thread.
DevicesPaired == InputFindsDevice /\ NoneLeftRegistered

\* Neither a wait nor a stop lasts for ever.
Progress == WaitEnds /\ StopCompletes

=============================================================================
