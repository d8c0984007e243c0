--------------------------- MODULE PasteSyncProofs ---------------------------
(***************************************************************************)
(* Pasting, for any HID ids, limits and bounds: the acknowledgements that   *)
(* travel back are ordered, and what they acknowledge has been applied, so  *)
(* that Ctrl+v never overtakes the clipboard it was pressed for; and inputs  *)
(* find their device registered.                                            *)
(***************************************************************************)
EXTENDS PasteSync, TLAPS

Below(s, x)  == \A i \in DOMAIN s : s[i] <= x
From(s, x)   == \A i \in DOMAIN s : s[i] # Text => x <= s[i]
Ascending(s) == \A i, j \in DOMAIN s : i < j /\ s[j] # Text => s[i] <= s[j]

\* The last request the server has treated, and what it did: the clipboard it set,
\* or nothing.  The requests on their way follow it, one by one.
Handled == next - 1 - Len(control)

Requests ==
  /\ Handled \in Nat
  /\ \A i \in DOMAIN control : control[i] = Handled + i
  /\ \A n \in 1..Handled : applied >= n \/ n \in unset

\* Acknowledgements are behind what is handled and ahead of acksync->ack, in
\* order, those in the socket before those in the sender's queue.
Acks ==
  /\ ack <= Handled
  /\ Below(outbox, Handled) /\ From(outbox, ack) /\ Ascending(outbox)
  /\ Below(inbox, Handled) /\ From(inbox, ack) /\ Ascending(inbox)
  /\ \A j \in DOMAIN outbox : outbox[j] # Text => Below(inbox, outbox[j])

\* The input about to be sent does not wait for an acknowledgement any more.
Acked == aoa = "send" => event[1].ack <= ack

\* What the thread has to do: the event it processes, then its queue.
Jobs   == Len(event) + Len(queue)
Job(i) == IF i <= Len(event) THEN event[i] ELSE queue[i - Len(event)]

Opens(e, id)  == e.type = "open" /\ e.id = id
Closes(e, id) == e.type = "close" /\ e.id = id
Told(e)       == e.type = "input" /\ e.announced

\* Once the first k jobs are done, the device id is registered or its setup failed.
Known(k, id) ==
  \/ id \in registered \cup unready /\ \A j \in 1..k : ~Closes(Job(j), id)
  \/ \E i \in 1..k : Opens(Job(i), id) /\ \A j \in i + 1..k : ~Closes(Job(j), id)

\* The devices whose opening the main thread could push
Announced == devices \ unannounced

\* Until the thread exits, whatever is to be sent to them comes after their
\* opening, and so will what the main thread may still push.
InputsKnown ==
  aoa \notin {"exit", "done"} =>
    /\ \A i \in 1..Jobs : Told(Job(i)) => Known(i - 1, Job(i).id)
    /\ \A id \in Announced : Known(Jobs, id)

Ids(s) == {s[i] : i \in DOMAIN s}

\* What is registered is known to the thread, unless it was forgotten.
Tracked ==
  registered \subseteq orphans \cup (IF aoa = "done" THEN {} ELSE Ids(opened))

IInv ==
  /\ TypeOK
  /\ NoLostWakeup
  /\ Requests
  /\ Acks
  /\ Acked
  /\ FreshPaste
  /\ InputsKnown
  /\ Tracked

-----------------------------------------------------------------------------
(* Sequences of acknowledgements.                                          *)

LEMMA TailFacts ==
  ASSUME NEW S, NEW s \in Seq(S), s # <<>>
  PROVE  /\ Head(s) = s[1] /\ Head(s) \in S /\ 1 \in DOMAIN s
         /\ Tail(s) \in Seq(S) /\ Len(Tail(s)) = Len(s) - 1
         /\ \A i \in DOMAIN Tail(s) : i + 1 \in DOMAIN s /\ Tail(s)[i] = s[i + 1]
OBVIOUS

LEMMA AppendFacts ==
  ASSUME NEW S, NEW s \in Seq(S), NEW x \in S
  PROVE  /\ Append(s, x) \in Seq(S) /\ Len(Append(s, x)) = Len(s) + 1
         /\ DOMAIN Append(s, x) = DOMAIN s \cup {Len(s) + 1}
         /\ \A i \in DOMAIN s : Append(s, x)[i] = s[i]
         /\ \A i \in DOMAIN s : i \in Nat /\ i < Len(s) + 1
         /\ Append(s, x)[Len(s) + 1] = x
OBVIOUS

\* What remains after the head is as ordered, and starts no lower than the head.
LEMMA OrderTail ==
  ASSUME NEW s \in Seq(Nat), s # <<>>, NEW x \in Nat
  PROVE  /\ Below(s, x) => Below(Tail(s), x) /\ Head(s) <= x
         /\ From(s, x) => From(Tail(s), x)
         /\ Ascending(s) => Ascending(Tail(s)) /\ From(Tail(s), Head(s))
<1>1. /\ Head(s) = s[1] /\ 1 \in DOMAIN s
      /\ \A i \in DOMAIN Tail(s) : i + 1 \in DOMAIN s /\ Tail(s)[i] = s[i + 1]
      /\ \A i \in DOMAIN Tail(s) : i \in Nat \ {0}
  BY TailFacts
<1>2. Below(s, x) => Below(Tail(s), x) /\ Head(s) <= x
  BY <1>1 DEF Below
<1>3. From(s, x) => From(Tail(s), x)
  BY <1>1 DEF From
<1>4. ASSUME Ascending(s) PROVE Ascending(Tail(s)) /\ From(Tail(s), Head(s))
  <2>1. Ascending(Tail(s))
    <3>1. SUFFICES ASSUME NEW i \in DOMAIN Tail(s), NEW j \in DOMAIN Tail(s),
                          i < j, Tail(s)[j] # Text
                   PROVE  Tail(s)[i] <= Tail(s)[j]
      BY DEF Ascending
    <3>2. i + 1 < j + 1 /\ i + 1 \in DOMAIN s /\ j + 1 \in DOMAIN s /\ s[j + 1] # Text
      BY <1>1, <3>1
    <3> QED BY <1>1, <1>4, <3>2 DEF Ascending
  <2>2. From(Tail(s), Head(s))
    <3>1. SUFFICES ASSUME NEW j \in DOMAIN Tail(s), Tail(s)[j] # Text
                   PROVE  Head(s) <= Tail(s)[j]
      BY DEF From
    <3>2. 1 < j + 1 /\ j + 1 \in DOMAIN s /\ s[j + 1] # Text
      BY <1>1, <3>1
    <3> QED BY <1>1, <1>4, <3>2 DEF Ascending
  <2> QED BY <2>1, <2>2
<1> QED BY <1>2, <1>3, <1>4

\* A message no lower than those before it may be appended.
LEMMA OrderAppend ==
  ASSUME NEW s \in Seq(Nat), NEW m \in Nat, NEW x \in Nat
  PROVE  /\ Below(s, x) /\ m <= x => Below(Append(s, m), x)
         /\ From(s, x) /\ (m # Text => x <= m) => From(Append(s, m), x)
         /\ Ascending(s) /\ (m # Text => Below(s, m)) => Ascending(Append(s, m))
<1> DEFINE t == Append(s, m)
<1>1. /\ DOMAIN t = DOMAIN s \cup {Len(s) + 1}
      /\ \A i \in DOMAIN s : t[i] = s[i] /\ i \in Nat /\ i < Len(s) + 1
      /\ t[Len(s) + 1] = m /\ Len(s) \in Nat
  BY AppendFacts
<1>2. Below(s, x) /\ m <= x => Below(t, x)
  BY <1>1 DEF Below
<1>3. From(s, x) /\ (m # Text => x <= m) => From(t, x)
  BY <1>1 DEF From
<1>4. ASSUME Ascending(s), m # Text => Below(s, m) PROVE Ascending(t)
  <2>1. SUFFICES ASSUME NEW i \in DOMAIN t, NEW j \in DOMAIN t, i < j, t[j] # Text
                 PROVE  t[i] <= t[j]
    BY DEF Ascending
  <2>2. CASE j \in DOMAIN s
    <3>1. i \in DOMAIN s
      BY <1>1, <2>1, <2>2
    <3> QED BY <1>1, <1>4, <2>1, <2>2, <3>1 DEF Ascending
  <2>3. CASE j = Len(s) + 1
    <3>1. i \in DOMAIN s
      BY <1>1, <2>1, <2>3
    <3> QED BY <1>1, <1>4, <2>1, <2>3, <3>1 DEF Below
  <2> QED BY <1>1, <2>2, <2>3
<1> QED BY <1>2, <1>3, <1>4

-----------------------------------------------------------------------------
(* Types.                                                                  *)

LEMMA PushType ==
  ASSUME TypeOK, NEW e \in Events, Push(e)
  PROVE  /\ queue' \in Seq(Events) /\ pushes' \in Nat /\ stopped' \in BOOLEAN
         /\ aoa' = aoa \/ (aoa = "waiting" /\ aoa' = "ready")
BY AppendFacts DEF TypeOK, Push

LEMMA PushInputType ==
  ASSUME TypeOK, NEW id \in Hid, NEW seq \in 0..MaxSequence, PushInput(id, seq)
  PROVE  /\ queue' \in Seq(Events) /\ pushes' \in Nat /\ stopped' \in BOOLEAN
         /\ aoa' = aoa \/ (aoa = "waiting" /\ aoa' = "ready")
<1> DEFINE e == [type |-> "input", id |-> id, ack |-> seq, announced |-> id \notin unannounced]
<1>1. e \in Events
  BY DEF Events
<1>2. CASE Push(e)
  BY <1>1, <1>2, PushType
<1>3. CASE UNCHANGED <<queueVars, aoa, pushes>>
  BY <1>3 DEF queueVars, TypeOK
<1> QED BY <1>2, <1>3 DEF PushInput

LEMMA TypeStep == TypeOK /\ [Next]_vars => TypeOK'
<1> SUFFICES ASSUME TypeOK, [Next]_vars PROVE TypeOK'
  OBVIOUS
<1> USE BoundAssumption DEF TypeOK
<1>1. ASSUME NEW id \in Hid, Input(id) PROVE TypeOK'
  <2>1. /\ queue' \in Seq(Events) /\ pushes' \in Nat /\ stopped' \in BOOLEAN
        /\ aoa' = aoa \/ (aoa = "waiting" /\ aoa' = "ready")
    BY <1>1, PushInputType DEF Input
  <2> QED BY <1>1, <2>1 DEF Input, serverVars, syncVars, hidVars
<1>2. ASSUME NEW id \in Hid, Paste(id) PROVE TypeOK'
  <2>1. next \in 1..MaxSequence
    BY <1>2 DEF Paste
  <2>2. /\ queue' \in Seq(Events) /\ pushes' \in Nat /\ stopped' \in BOOLEAN
        /\ aoa' = aoa \/ (aoa = "waiting" /\ aoa' = "ready")
    BY <1>2, <2>1, PushInputType DEF Paste
  <2>3. control' \in Seq(1..MaxSequence)
    BY <1>2, <2>1, AppendFacts DEF Paste
  <2>4. next' \in 1..MaxSequence + 1 /\ main' = "running"
        /\ UNCHANGED <<main, devices, unannounced, texts, applied, unset, outbox, inbox,
                       syncVars, event, hidVars, pasted>>
    BY <1>2, <2>1 DEF Paste
  <2> QED BY <2>2, <2>3, <2>4 DEF syncVars, hidVars
<1>3. ASSUME NEW type \in {"open", "close"}, NEW id \in Hid, OpenClose(type, id)
      PROVE  TypeOK'
  <2>1. [type |-> type, id |-> id] \in Events
    BY DEF Events
  <2>2. /\ queue' \in Seq(Events) /\ pushes' \in Nat /\ stopped' \in BOOLEAN
        /\ aoa' = aoa \/ (aoa = "waiting" /\ aoa' = "ready")
    BY <1>3, <2>1, PushType DEF OpenClose, PushFails, queueVars
  <2>3. devices' \subseteq Hid /\ unannounced' \subseteq devices'
    BY <1>3 DEF OpenClose
  <2> QED BY <1>3, <2>2, <2>3 DEF OpenClose, serverVars, syncVars, hidVars
<1>4. CASE StopAoa \/ Interrupt \/ Join
  BY <1>4 DEF StopAoa, Interrupt, Join, serverVars, syncVars, queueVars, hidVars
<1>5. ASSUME NEW m \in 0..MaxSequence, Offer(m)
      PROVE  outbox' \in Seq(0..MaxSequence) /\ Len(outbox') <= SenderLimit
  <2>1. CASE Len(outbox) < SenderLimit
    <3>1. outbox' = Append(outbox, m)
      BY <1>5, <2>1 DEF Offer
    <3> QED BY <2>1, <3>1, AppendFacts, LimitAssumption
  <2>2. CASE ~(Len(outbox) < SenderLimit)
    BY <1>5, <2>2 DEF Offer
  <2> QED BY <2>1, <2>2
<1>6. CASE SetClipboard
  <2>1. /\ Head(control) \in 1..MaxSequence
        /\ Tail(control) \in Seq(1..MaxSequence)
    BY <1>6, TailFacts DEF SetClipboard
  <2>2. outbox' \in Seq(0..MaxSequence) /\ Len(outbox') <= SenderLimit
    BY <1>5, <1>6, <2>1 DEF SetClipboard
  <2>3. applied' \in 0..MaxSequence /\ unset' \subseteq 1..MaxSequence
    <3>1. CASE applied' = Head(control) /\ unset' = unset
      BY <2>1, <3>1
    <3>2. CASE unset' = unset \cup {Head(control)} /\ applied' = applied
      BY <2>1, <3>2
    <3> QED BY <1>6, <3>1, <3>2 DEF SetClipboard
  <2>4. /\ control' \in Seq(1..MaxSequence)
        /\ UNCHANGED <<mainVars, texts, inbox, syncVars, queueVars, aoa, event,
                       hidVars, pasted>>
    BY <1>6, <2>1 DEF SetClipboard
  <2> QED BY <2>2, <2>3, <2>4 DEF mainVars, syncVars, queueVars, hidVars
<1>7. CASE DeviceText
  BY <1>5, <1>7 DEF DeviceText, Text, mainVars, syncVars, queueVars, hidVars
<1>8. CASE Transmit
  <2>1. /\ Head(outbox) \in 0..MaxSequence
        /\ Tail(outbox) \in Seq(0..MaxSequence) /\ Len(Tail(outbox)) = Len(outbox) - 1
    BY <1>8, TailFacts DEF Transmit
  <2>2. inbox' \in Seq(0..MaxSequence)
    BY <1>8, <2>1, AppendFacts DEF Transmit
  <2>3. Len(outbox') <= SenderLimit /\ outbox' \in Seq(0..MaxSequence)
    BY <1>8, <2>1, LimitAssumption DEF Transmit
  <2> QED BY <1>8, <2>2, <2>3
          DEF Transmit, mainVars, syncVars, queueVars, hidVars
<1>9. CASE Receive
  <2>1. /\ Head(inbox) \in 0..MaxSequence
        /\ Tail(inbox) \in Seq(0..MaxSequence)
    BY <1>9, TailFacts DEF Receive
  <2> QED BY <1>9, <2>1 DEF Receive, mainVars, queueVars, hidVars
<1>10. CASE Wait \/ SeeStopped \/ Timeout \/ SpuriousWakeup
  BY <1>10 DEF Wait, SeeStopped, Timeout, SpuriousWakeup, env, mainVars,
               serverVars, syncVars, queueVars, hidVars
<1>11. CASE Pop
  <2>1. Head(queue) \in Events /\ Tail(queue) \in Seq(Events)
    BY <1>11, TailFacts DEF Pop
  <2>2. event' \in Seq(Events) /\ Len(event') = 1 /\ event'[1] = Head(queue)
    BY <1>11, <2>1 DEF Pop
  <2>3. /\ aoa' \in {"process", "checking", "send"}
        /\ aoa' # "process" => Head(queue).type = "input"
        /\ aoa' = "checking" => Head(queue).ack # 0
    BY <1>11 DEF Pop
  <2> QED BY <1>11, <2>1, <2>2, <2>3
          DEF Pop, env, mainVars, serverVars, syncVars, hidVars
<1>12. CASE WaitAck
  <2>1. CASE aoa' \in {"exit", "ready"} /\ event' = <<>>
    BY <1>12, <2>1
       DEF WaitAck, env, mainVars, serverVars, syncVars, queueVars, hidVars
  <2>2. CASE aoa' \in {"send", "blocked"} /\ UNCHANGED event
    <3>1. event[1].type = "input" /\ event[1].ack # 0 /\ Len(event) = 1
      BY <1>12 DEF WaitAck
    <3>2. UNCHANGED <<env, queueVars, hidVars, pasted>>
      BY <1>12 DEF WaitAck
    <3> QED BY <2>2, <3>1, <3>2
            DEF env, mainVars, serverVars, syncVars, queueVars, hidVars
  <2> QED BY <1>12, <2>1, <2>2 DEF WaitAck
<1>13. CASE SendInput
  <2>1. event[1] \in Events /\ event[1].type = "input"
    <3>1. aoa = "send"
      BY <1>13 DEF SendInput
    <3>2. event \in Seq(Events) /\ Len(event) = 1
      BY <3>1
    <3>3. event[1] \in Events
      BY ONLY <3>2
    <3> QED BY <3>1, <3>3
  <2>2. event[1].ack \in 0..MaxSequence
    BY <2>1 DEF Events
  <2>3. pasted' \subseteq (1..MaxSequence) \X (0..MaxSequence)
    <3>1. CASE event[1].ack = 0
      BY <1>13, <3>1 DEF SendInput
    <3>2. CASE event[1].ack # 0
      <4>1. pasted' = pasted \cup {<<event[1].ack, applied>>}
        BY <1>13, <3>2 DEF SendInput
      <4>2. <<event[1].ack, applied>> \in (1..MaxSequence) \X (0..MaxSequence)
        BY <2>2, <3>2
      <4> QED BY <4>1, <4>2
    <3> QED BY <3>1, <3>2
  <2> QED BY <1>13, <2>3
          DEF SendInput, env, mainVars, serverVars, syncVars, queueVars, hidVars
<1>14. CASE OpenHid \/ CloseHid
  <2>1. event[1].id \in Hid
    BY <1>14 DEF OpenHid, CloseHid, Events
  <2>2. ASSUME NEW i \in DOMAIN opened PROVE RemoveAt(opened, i) \in Seq(Hid)
    <3>1. SubSeq(opened, 1, i - 1) \in Seq(Hid) /\ SubSeq(opened, i + 1, Len(opened)) \in Seq(Hid)
      OBVIOUS
    <3> QED BY <3>1 DEF RemoveAt
  <2>3. opened' \in Seq(Hid)
    <3>1. CASE OpenHid
      <4>1. opened' \in {opened, Append(opened, event[1].id)}
        BY <3>1 DEF OpenHid
      <4>2. Append(opened, event[1].id) \in Seq(Hid)
        BY <2>1, AppendFacts
      <4> QED BY <4>1, <4>2
    <3>2. CASE CloseHid
      BY <2>2, <3>2 DEF CloseHid, hidVars
    <3> QED BY <1>14, <3>1, <3>2
  <2>4. registered' \subseteq Hid /\ unready' \subseteq Hid /\ orphans' \subseteq Hid
    BY <1>14, <2>1 DEF OpenHid, CloseHid, hidVars
  <2>5. /\ aoa' = "ready" /\ event' = <<>>
        /\ UNCHANGED <<env, queueVars, pasted>>
    BY <1>14 DEF OpenHid, CloseHid
  <2> QED BY <2>3, <2>4, <2>5 DEF env, mainVars, serverVars, syncVars, queueVars
<1>15. CASE Exit
  BY <1>15 DEF Exit, env, mainVars, serverVars, syncVars, queueVars
<1>16. CASE UNCHANGED vars
  BY <1>16 DEF vars, mainVars, serverVars, syncVars, queueVars, hidVars
<1> QED BY <1>1, <1>2, <1>3, <1>4, <1>6, <1>7, <1>8, <1>9, <1>10, <1>11, <1>12,
           <1>13, <1>14, <1>15, <1>16 DEF Next, AoaThread

-----------------------------------------------------------------------------
(* The two directions of the control socket.                               *)

LEMMA Numbers ==
  ASSUME TypeOK
  PROVE  /\ control \in Seq(Nat) /\ outbox \in Seq(Nat) /\ inbox \in Seq(Nat)
         /\ next \in Nat /\ applied \in Nat /\ ack \in Nat
BY BoundAssumption DEF TypeOK

\* What the aoa thread and the pushes leave alone.
Settled == UNCHANGED <<control, applied, unset, outbox, inbox, ack>>

LEMMA SettledStep ==
  ASSUME [Next]_vars
  PROVE  \/ \E id \in Hid : Paste(id)
         \/ SetClipboard \/ DeviceText \/ Transmit \/ Receive
         \/ Settled /\ UNCHANGED next
<1> USE DEF Settled
<1>1. ASSUME NEW id \in Hid, Input(id) PROVE Settled /\ UNCHANGED next
  BY <1>1 DEF Input, serverVars, syncVars
<1>2. ASSUME NEW type \in {"open", "close"}, NEW id \in Hid, OpenClose(type, id)
      PROVE  Settled /\ UNCHANGED next
  BY <1>2 DEF OpenClose, serverVars, syncVars
<1>3. CASE StopAoa \/ Interrupt \/ Join
  BY <1>3 DEF StopAoa, Interrupt, Join, serverVars, syncVars
<1>4. CASE AoaThread \/ Timeout \/ SpuriousWakeup
  BY <1>4 DEF AoaThread, Wait, Pop, SeeStopped, WaitAck, SendInput, OpenHid, CloseHid,
              Exit, Timeout, SpuriousWakeup, env, mainVars, serverVars, syncVars
<1>5. CASE UNCHANGED vars
  BY <1>5 DEF vars, mainVars, serverVars, syncVars
<1> QED BY <1>1, <1>2, <1>3, <1>4, <1>5 DEF Next

\* Only the server's next request is handled, and a paste adds one behind it.
LEMMA HandledStep ==
  ASSUME TypeOK, Requests, [Next]_vars
  PROVE  /\ Handled' = Handled \/ SetClipboard
         /\ \A id \in Hid : Paste(id) => Handled' = Handled
         /\ SetClipboard => Handled' = Handled + 1 /\ Head(control) = Handled + 1
<1>1. /\ control \in Seq(Nat) /\ Len(control) \in Nat /\ next \in Nat /\ Handled \in Nat
      /\ next = Handled + Len(control) + 1 /\ \A i \in DOMAIN control : control[i] = Handled + i
  BY Numbers DEF Requests, Handled
<1>2. ASSUME NEW id \in Hid, Paste(id) PROVE Handled' = Handled
  <2>1. control' = Append(control, next) /\ next' = next + 1
    BY <1>2 DEF Paste
  <2>2. Len(control') = Len(control) + 1
    BY <1>1, <2>1, AppendFacts
  <2> QED BY <1>1, <2>1, <2>2 DEF Handled
<1>3. ASSUME SetClipboard PROVE Handled' = Handled + 1 /\ Head(control) = Handled + 1
  <2>1. control # <<>> /\ control' = Tail(control) /\ next' = next
    BY <1>3 DEF SetClipboard, mainVars
  <2>2. Head(control) = control[1] /\ 1 \in DOMAIN control /\ Len(control') = Len(control) - 1
    BY <1>1, <2>1, TailFacts
  <2>3. Head(control) = Handled + 1
    BY <1>1, <2>2
  <2>4. next' = next
    BY <2>1
  <2>5. Handled' = Handled + 1
    BY <1>1, <2>2, <2>4 DEF Handled
  <2> QED BY <2>3, <2>5
<1>4. CASE UNCHANGED <<control, next>>
  BY <1>3, <1>4 DEF Handled
<1>5. CASE DeviceText \/ Transmit \/ Receive
  BY <1>4, <1>5 DEF DeviceText, Transmit, Receive, mainVars
<1> QED BY <1>2, <1>3, <1>4, <1>5, SettledStep DEF Settled

LEMMA HandledSame == DeviceText \/ Transmit \/ Receive => Handled' = Handled
BY DEF DeviceText, Transmit, Receive, mainVars, Handled

LEMMA RequestsStep == TypeOK /\ Requests /\ [Next]_vars => Requests'
<1> SUFFICES ASSUME TypeOK, Requests, [Next]_vars PROVE Requests'
  OBVIOUS
<1>1. /\ control \in Seq(Nat) /\ Len(control) \in Nat /\ next \in Nat /\ applied \in Nat
      /\ Handled \in Nat /\ next = Handled + Len(control) + 1
      /\ \A i \in DOMAIN control : control[i] = Handled + i
      /\ \A n \in 1..Handled : applied >= n \/ n \in unset
  BY Numbers DEF Requests, Handled
<1>2. ASSUME NEW id \in Hid, Paste(id) PROVE Requests'
  <2>1. control' = Append(control, next) /\ next' = next + 1 /\ UNCHANGED <<applied, unset>>
    BY <1>2 DEF Paste
  <2>2. /\ DOMAIN control' = DOMAIN control \cup {Len(control) + 1}
        /\ \A i \in DOMAIN control : control'[i] = control[i]
        /\ control'[Len(control) + 1] = next
    BY <1>1, <2>1, AppendFacts
  <2>3. Handled' = Handled
    BY <1>2, HandledStep
  <2>4. \A i \in DOMAIN control' : control'[i] = Handled + i
    BY <1>1, <2>2
  <2> QED BY <1>1, <2>1, <2>3, <2>4 DEF Requests
<1>3. CASE SetClipboard
  <2>1. control # <<>> /\ control' = Tail(control)
    BY <1>3 DEF SetClipboard
  <2>2. \A i \in DOMAIN control' : i \in Nat /\ i + 1 \in DOMAIN control
                                   /\ control'[i] = control[i + 1]
    BY <1>1, <2>1, TailFacts
  <2>3. Handled' = Handled + 1 /\ Head(control) = Handled + 1
    BY <1>3, HandledStep
  <2>4. \A i \in DOMAIN control' : control'[i] = Handled' + i
    BY <1>1, <2>2, <2>3
  <2>5. \A n \in 1..Handled + 1 : applied' >= n \/ n \in unset'
    <3>1. \/ applied' = Handled + 1
          \/ applied' = applied /\ unset' = unset \cup {Handled + 1}
      BY <1>3, <2>3 DEF SetClipboard
    <3> QED BY <1>1, <3>1
  <2> QED BY <1>1, <2>3, <2>4, <2>5 DEF Requests
<1>4. CASE UNCHANGED <<control, next, applied, unset>>
  BY <1>1, <1>4 DEF Requests, Handled
<1>5. CASE DeviceText \/ Transmit \/ Receive
  BY <1>4, <1>5 DEF DeviceText, Transmit, Receive, mainVars
<1> QED BY <1>2, <1>3, <1>4, <1>5, SettledStep DEF Settled

\* A message offered to the sender's queue: an acknowledgement of what has just
\* been applied, or a text.
LEMMA OfferStep ==
  ASSUME TypeOK, Acks, NEW m \in Nat, Offer(m), UNCHANGED <<inbox, ack>>,
         Handled \in Nat, Handled' \in Nat, Handled <= Handled', m \in {Text, Handled'}
  PROVE  Acks'
<1>1. /\ outbox \in Seq(Nat) /\ inbox \in Seq(Nat) /\ ack \in Nat
      /\ ack <= Handled'
      /\ Below(outbox, Handled') /\ From(outbox, ack) /\ Ascending(outbox)
      /\ Below(inbox, Handled') /\ From(inbox, ack) /\ Ascending(inbox)
      /\ \A j \in DOMAIN outbox : outbox[j] # Text => Below(inbox, outbox[j])
  BY Numbers DEF Acks, Below
<1>2. CASE UNCHANGED outbox
  BY <1>1, <1>2 DEF Acks
<1>3. CASE outbox' = Append(outbox, m)
  <2>1. m <= Handled' /\ (m # Text => ack <= m /\ Below(outbox, m) /\ Below(inbox, m))
    BY <1>1 DEF Text
  <2>2. /\ Below(outbox', Handled') /\ From(outbox', ack) /\ Ascending(outbox')
    BY <1>1, <1>3, <2>1, OrderAppend
  <2>3. \A j \in DOMAIN outbox' : outbox'[j] # Text => Below(inbox, outbox'[j])
    BY <1>1, <1>3, <2>1, AppendFacts
  <2> QED BY <1>1, <2>2, <2>3 DEF Acks
<1> QED BY <1>2, <1>3 DEF Offer

LEMMA AcksStep == TypeOK /\ Requests /\ Acks /\ [Next]_vars => Acks'
<1> SUFFICES ASSUME TypeOK, Requests, Acks, [Next]_vars PROVE Acks'
  OBVIOUS
<1>1. /\ control \in Seq(Nat) /\ outbox \in Seq(Nat) /\ inbox \in Seq(Nat)
      /\ Handled \in Nat /\ ack \in Nat /\ ack <= Handled
      /\ Below(outbox, Handled) /\ From(outbox, ack) /\ Ascending(outbox)
      /\ Below(inbox, Handled) /\ From(inbox, ack) /\ Ascending(inbox)
      /\ \A j \in DOMAIN outbox : outbox[j] # Text => Below(inbox, outbox[j])
  BY Numbers DEF Acks, Requests
<1>2. CASE SetClipboard
  <2>1. Offer(Head(control)) /\ UNCHANGED <<inbox, ack>>
    BY <1>2 DEF SetClipboard, syncVars
  <2>2. Handled' = Handled + 1 /\ Head(control) = Handled + 1
    BY <1>2, HandledStep
  <2> QED BY <1>1, <2>1, <2>2, OfferStep
<1>3. CASE Settled \/ \E id \in Hid : Paste(id)
  <2>1. UNCHANGED <<outbox, inbox, ack>> /\ (Handled' = Handled \/ SetClipboard)
    BY <1>3, HandledStep DEF Settled, Paste, syncVars
  <2>2. CASE Handled' = Handled
    BY <1>1, <2>1, <2>2 DEF Acks
  <2> QED BY <1>2, <2>1, <2>2
<1>4. CASE DeviceText
  <2>1. Offer(Text) /\ UNCHANGED <<inbox, ack>>
    BY <1>4 DEF DeviceText, syncVars
  <2>2. Handled' = Handled
    BY <1>4, HandledSame
  <2> QED BY <1>1, <2>1, <2>2, OfferStep DEF Text
<1>5. CASE Transmit
  <2>1. /\ outbox # <<>> /\ outbox' = Tail(outbox) /\ inbox' = Append(inbox, Head(outbox))
        /\ UNCHANGED <<Handled, ack>>
    BY <1>5, HandledSame DEF Transmit, syncVars
  <2>2. /\ Head(outbox) = outbox[1] /\ Head(outbox) \in Nat /\ 1 \in DOMAIN outbox
        /\ \A i \in DOMAIN Tail(outbox) : i + 1 \in DOMAIN outbox
                                          /\ Tail(outbox)[i] = outbox[i + 1]
    BY <1>1, <2>1, TailFacts
  <2>3. /\ Below(outbox', Handled) /\ From(outbox', ack) /\ Ascending(outbox')
        /\ From(outbox', Head(outbox)) /\ Head(outbox) <= Handled
    <3>1. /\ Below(Tail(outbox), Handled) /\ Head(outbox) <= Handled
          /\ Ascending(Tail(outbox)) /\ From(Tail(outbox), Head(outbox))
      BY <1>1, <2>1, OrderTail
    <3>2. From(Tail(outbox), ack)
      BY <1>1, <2>1, OrderTail
    <3> QED BY <2>1, <3>1, <3>2
  <2>4. Head(outbox) # Text => ack <= Head(outbox) /\ Below(inbox, Head(outbox))
    BY <1>1, <2>2 DEF From
  <2>5. Below(inbox', Handled) /\ From(inbox', ack) /\ Ascending(inbox')
    <3>1. Below(Append(inbox, Head(outbox)), Handled)
      BY <1>1, <2>2, <2>3, OrderAppend
    <3>2. From(Append(inbox, Head(outbox)), ack) /\ Ascending(Append(inbox, Head(outbox)))
      BY <1>1, <2>2, <2>4, OrderAppend
    <3> QED BY <2>1, <3>1, <3>2
  <2>6. ASSUME NEW j \in DOMAIN outbox', outbox'[j] # Text
        PROVE  Below(inbox', outbox'[j])
    <3>1. j + 1 \in DOMAIN outbox /\ outbox'[j] = outbox[j + 1] /\ outbox'[j] \in Nat
      BY <1>1, <2>1, <2>2, <2>6
    <3>2. Below(inbox, outbox'[j]) /\ Head(outbox) <= outbox'[j]
      BY <1>1, <2>3, <2>6, <3>1 DEF From
    <3>3. Below(Append(inbox, Head(outbox)), outbox'[j])
      BY <1>1, <2>2, <3>1, <3>2, OrderAppend
    <3> QED BY <2>1, <3>3
  <2> QED BY <1>1, <2>1, <2>3, <2>5, <2>6 DEF Acks
<1>6. CASE Receive
  <2>1. /\ inbox # <<>> /\ inbox' = Tail(inbox)
        /\ ack' = IF Head(inbox) = Text THEN ack ELSE Head(inbox)
        /\ UNCHANGED <<Handled, outbox>>
    BY <1>6, HandledSame DEF Receive
  <2>2. /\ Head(inbox) = inbox[1] /\ Head(inbox) \in Nat /\ 1 \in DOMAIN inbox
        /\ \A i \in DOMAIN Tail(inbox) : i + 1 \in DOMAIN inbox
                                         /\ Tail(inbox)[i] = inbox[i + 1]
    BY <1>1, <2>1, TailFacts
  <2>3. /\ Below(inbox', Handled) /\ Head(inbox) <= Handled /\ Ascending(inbox')
        /\ From(inbox', Head(inbox)) /\ From(inbox', ack)
    BY <1>1, <2>1, OrderTail
  <2>4. \A j \in DOMAIN outbox : outbox[j] # Text =>
          Head(inbox) <= outbox[j] /\ Below(inbox', outbox[j])
    BY <1>1, <2>1, <2>2 DEF Below
  <2>5. From(outbox, ack') /\ From(inbox', ack') /\ ack' <= Handled
    BY <1>1, <2>1, <2>3, <2>4 DEF From
  <2> QED BY <1>1, <2>1, <2>3, <2>4, <2>5 DEF Acks
<1> QED BY <1>2, <1>3, <1>4, <1>5, <1>6, SettledStep

-----------------------------------------------------------------------------
(* The aoa thread.                                                         *)

LEMMA HeldInput ==
  ASSUME TypeOK, aoa \in {"checking", "blocked", "expired", "send"}
  PROVE  event[1].ack \in Nat
<1>1. event \in Seq(Events) /\ Len(event) = 1 /\ event[1].type = "input"
  BY DEF TypeOK
<1>2. event[1] \in Events
  BY ONLY <1>1
<1> QED BY <1>1, <1>2, BoundAssumption DEF Events

\* The pushes wake the thread and do nothing else to it.
LEMMA PushStep ==
  ASSUME TypeOK, NoLostWakeup, NEW e, Push(e)
  PROVE  /\ aoa' = aoa \/ (aoa = "waiting" /\ aoa' = "ready")
         /\ aoa' # "waiting" /\ stopped' = stopped
BY DEF Push, NoLostWakeup

LEMMA PushInputStep ==
  ASSUME TypeOK, NoLostWakeup, NEW id, NEW seq, PushInput(id, seq)
  PROVE  /\ aoa' = aoa \/ (aoa = "waiting" /\ aoa' = "ready")
         /\ aoa' = "waiting" => UNCHANGED queue
         /\ stopped' = stopped
BY PushStep DEF PushInput, queueVars

LEMMA WakeupStep == TypeOK /\ NoLostWakeup /\ [Next]_vars => NoLostWakeup'
<1> SUFFICES ASSUME TypeOK, NoLostWakeup, [Next]_vars PROVE NoLostWakeup'
  OBVIOUS
<1> USE DEF NoLostWakeup
<1>1. ASSUME NEW id \in Hid, Input(id) \/ Paste(id) PROVE NoLostWakeup'
  <2>1. PushInput(id, 0) \/ PushInput(id, next)
    BY <1>1 DEF Input, Paste
  <2>2. UNCHANGED <<ack, interrupted, event>>
    BY <1>1 DEF Input, Paste, syncVars
  <2> QED BY <2>1, <2>2, PushInputStep
<1>2. ASSUME NEW type \in {"open", "close"}, NEW id \in Hid, OpenClose(type, id)
      PROVE  NoLostWakeup'
  <2>1. UNCHANGED <<ack, interrupted, event>>
    BY <1>2 DEF OpenClose, syncVars
  <2>2. CASE Push([type |-> type, id |-> id])
    BY <2>1, <2>2, PushStep
  <2>3. CASE UNCHANGED <<queueVars, aoa>>
    BY <2>1, <2>3 DEF queueVars
  <2> QED BY <1>2, <2>2, <2>3 DEF OpenClose, PushFails
<1>3. CASE StopAoa \/ Interrupt \/ Join
  BY <1>3 DEF StopAoa, Interrupt, Join, syncVars, queueVars
<1>4. CASE SetClipboard \/ DeviceText \/ Transmit \/ Receive
  BY <1>4 DEF SetClipboard, DeviceText, Transmit, Receive, syncVars, queueVars
<1>5. CASE Wait \/ Pop \/ SeeStopped \/ SendInput \/ OpenHid \/ CloseHid \/ Exit
           \/ Timeout \/ SpuriousWakeup
  BY <1>5 DEF Wait, Pop, SeeStopped, SendInput, OpenHid, CloseHid, Exit, Timeout,
              SpuriousWakeup, env, syncVars, queueVars
<1>6. CASE WaitAck
  <2>1. UNCHANGED <<ack, interrupted, queue, stopped>>
    BY <1>6 DEF WaitAck, env, syncVars, queueVars
  <2>2. CASE aoa' = "blocked"
    <3>1. ~interrupted /\ ~(ack >= event[1].ack) /\ event' = event
      BY <1>6, <2>2 DEF WaitAck, Acknowledged
    <3>2. event[1].ack \in Nat /\ ack \in Nat
      BY <1>6, HeldInput, Numbers DEF WaitAck
    <3> QED BY <2>1, <2>2, <3>1, <3>2
  <2> QED BY <1>6, <2>1, <2>2 DEF WaitAck
<1>7. CASE UNCHANGED vars
  BY <1>7 DEF vars, syncVars, queueVars
<1> QED BY <1>1, <1>2, <1>3, <1>4, <1>5, <1>6, <1>7 DEF Next, AoaThread

\* Only Pop, of an input without an acknowledgement, and a successful wait
\* lead to "send", and the acknowledgement a thread waited for only grows.
LEMMA AckedStep == TypeOK /\ NoLostWakeup /\ Acks /\ Acked /\ [Next]_vars => Acked'
<1> SUFFICES ASSUME TypeOK, NoLostWakeup, Acks, Acked, [Next]_vars PROVE Acked'
  OBVIOUS
<1> USE DEF Acked
<1>1. ASSUME NEW id \in Hid, Input(id) \/ Paste(id) PROVE Acked'
  <2>1. PushInput(id, 0) \/ PushInput(id, next)
    BY <1>1 DEF Input, Paste
  <2>2. UNCHANGED <<ack, event>>
    BY <1>1 DEF Input, Paste, syncVars
  <2> QED BY <2>1, <2>2, PushInputStep
<1>2. ASSUME NEW type \in {"open", "close"}, NEW id \in Hid, OpenClose(type, id)
      PROVE  Acked'
  <2>1. UNCHANGED <<ack, event>>
    BY <1>2 DEF OpenClose, syncVars
  <2>2. CASE Push([type |-> type, id |-> id])
    BY <2>1, <2>2, PushStep
  <2>3. CASE UNCHANGED aoa
    BY <2>1, <2>3
  <2> QED BY <1>2, <2>2, <2>3 DEF OpenClose, PushFails
<1>3. CASE StopAoa \/ Interrupt \/ Join \/ SetClipboard \/ DeviceText \/ Transmit
  BY <1>3 DEF StopAoa, Interrupt, Join, SetClipboard, DeviceText, Transmit, syncVars
<1>4. CASE Receive
  <2>1. CASE aoa' = "send"
    <3>1. aoa = "send" /\ event' = event /\ inbox # <<>>
      BY <1>4, <2>1 DEF Receive
    <3>2. event[1].ack \in Nat
      BY <3>1, HeldInput
    <3>3. ack' \in Nat /\ ack \in Nat /\ ack <= ack'
      <4>1. Head(inbox) = inbox[1] /\ 1 \in DOMAIN inbox /\ Head(inbox) \in Nat
        BY <3>1, Numbers, TailFacts
      <4>2. Head(inbox) # Text => ack <= Head(inbox)
        BY <4>1 DEF Acks, From
      <4> QED BY <1>4, <4>1, <4>2, Numbers DEF Receive
    <3> QED BY <3>1, <3>2, <3>3
  <2> QED BY <2>1
<1>5. CASE Pop
  <2>1. event' = <<Head(queue)>>
    BY <1>5 DEF Pop
  <2>2. aoa' = "send" => event'[1].ack = 0 /\ ack' = ack /\ ack \in Nat
    BY <1>5, <2>1, Numbers DEF Pop, env, syncVars
  <2> QED BY <2>2
<1>6. CASE WaitAck
  <2>1. CASE aoa' = "send"
    <3>1. ack >= event[1].ack /\ event' = event /\ ack' = ack
      BY <1>6, <2>1 DEF WaitAck, Acknowledged, env, syncVars
    <3>2. event[1].ack \in Nat /\ ack \in Nat
      BY <1>6, HeldInput, Numbers DEF WaitAck
    <3> QED BY <3>1, <3>2
  <2> QED BY <2>1
<1>7. CASE Wait \/ SeeStopped \/ SendInput \/ OpenHid \/ CloseHid \/ Exit \/ Timeout
           \/ SpuriousWakeup
  BY <1>7 DEF Wait, SeeStopped, SendInput, OpenHid, CloseHid, Exit, Timeout,
              SpuriousWakeup
<1>8. CASE UNCHANGED vars
  BY <1>8 DEF vars, syncVars
<1> QED BY <1>1, <1>2, <1>3, <1>4, <1>5, <1>6, <1>7, <1>8 DEF Next, AoaThread

\* What is sent was acknowledged, hence handled.
LEMMA FreshStep == TypeOK /\ Requests /\ Acks /\ Acked /\ FreshPaste /\ [Next]_vars => FreshPaste'
<1> SUFFICES ASSUME TypeOK, Requests, Acks, Acked, FreshPaste, [Next]_vars PROVE FreshPaste'
  OBVIOUS
<1> USE DEF FreshPaste
<1>1. CASE SendInput
  <2>1. aoa = "send"
    BY <1>1 DEF SendInput
  <2>2. event[1].ack \in Nat /\ ack \in Nat /\ Handled \in Nat
    BY <2>1, HeldInput, Numbers DEF Requests
  <2>3. Handled >= event[1].ack
    BY <2>1, <2>2 DEF Acked, Acks
  <2>4. \A n \in 1..event[1].ack : applied >= n \/ n \in unset
    BY <2>2, <2>3 DEF Requests
  <2>5. /\ pasted' \in {pasted, pasted \cup {<<event[1].ack, applied>>}}
        /\ unset' = unset
    BY <1>1 DEF SendInput, env, serverVars
  <2> QED BY <2>4, <2>5
<1>2. CASE UNCHANGED pasted /\ unset \subseteq unset'
  BY <1>2
<1>3. ASSUME NEW id \in Hid, Input(id) \/ Paste(id) 
      PROVE  UNCHANGED pasted /\ unset \subseteq unset'
  BY <1>3 DEF Input, Paste, serverVars
<1>4. ASSUME NEW type \in {"open", "close"}, NEW id \in Hid, OpenClose(type, id)
      PROVE  UNCHANGED pasted /\ unset \subseteq unset'
  BY <1>4 DEF OpenClose, serverVars
<1>5. CASE StopAoa \/ Interrupt \/ Join \/ SetClipboard \/ DeviceText \/ Transmit \/ Receive
  <2>1. UNCHANGED pasted /\ unset \subseteq unset'
    BY <1>5 DEF StopAoa, Interrupt, Join, SetClipboard, DeviceText, Transmit, Receive, serverVars
  <2> QED BY <1>2, <2>1
<1>6. CASE Wait \/ Pop \/ SeeStopped \/ WaitAck \/ OpenHid \/ CloseHid \/ Exit \/ Timeout
           \/ SpuriousWakeup
  BY <1>2, <1>6 DEF Wait, Pop, SeeStopped, WaitAck, OpenHid, CloseHid, Exit, Timeout,
                    SpuriousWakeup, env, serverVars
<1>7. CASE UNCHANGED vars
  BY <1>2, <1>7 DEF vars, serverVars
<1> QED BY <1>1, <1>2, <1>3, <1>4, <1>5, <1>6, <1>7 DEF Next, AoaThread

-----------------------------------------------------------------------------
(* The HID devices.                                                        *)

LEMMA JobTypes ==
  ASSUME TypeOK
  PROVE  /\ Len(event) \in Nat /\ Len(queue) \in Nat /\ Jobs \in Nat
         /\ Jobs = Len(event) + Len(queue)
<1>1. event \in Seq(Events) /\ queue \in Seq(Events)
  BY DEF TypeOK
<1>2. Len(event) \in Nat /\ Len(queue) \in Nat
  BY ONLY <1>1
<1> QED BY <1>2 DEF Jobs

\* The jobs up to k, and what is known of the device, decide.
LEMMA KnownSame ==
  ASSUME NEW k \in Nat, NEW id,
         \A i \in 1..k : Job(i)' = Job(i),
         id \in registered \cup unready => id \in registered' \cup unready',
         Known(k, id)
  PROVE  Known(k, id)'
<1>1. CASE id \in registered \cup unready /\ \A j \in 1..k : ~Closes(Job(j), id)
  <2>1. \A j \in 1..k : ~Closes(Job(j), id)'
    BY <1>1 DEF Closes
  <2> QED BY <1>1, <2>1 DEF Known
<1>2. ASSUME NEW i \in 1..k, Opens(Job(i), id), \A j \in i + 1..k : ~Closes(Job(j), id)
      PROVE  Known(k, id)'
  <2>1. Opens(Job(i), id)'
    BY <1>2 DEF Opens
  <2>2. \A j \in i + 1..k : j \in 1..k
    OBVIOUS
  <2>3. \A j \in i + 1..k : ~Closes(Job(j), id)'
    BY <1>2, <2>2 DEF Closes
  <2> QED BY <2>1, <2>3 DEF Known
<1> QED BY <1>1, <1>2 DEF Known

\* One more job does not make a device unknown, unless it closes it.
LEMMA KnownLonger ==
  ASSUME NEW k \in Nat, NEW id, Known(k, id), ~Closes(Job(k + 1), id)
  PROVE  Known(k + 1, id)
<1>1. 1..(k + 1) = 1..k \cup {k + 1}
  OBVIOUS
<1>2. CASE id \in registered \cup unready /\ \A j \in 1..k : ~Closes(Job(j), id)
  BY <1>1, <1>2 DEF Known
<1>3. ASSUME NEW i \in 1..k, Opens(Job(i), id), \A j \in i + 1..k : ~Closes(Job(j), id)
      PROVE  Known(k + 1, id)
  <2>1. i \in 1..k + 1 /\ i + 1..k + 1 = i + 1..k \cup {k + 1}
    OBVIOUS
  <2> QED BY <1>3, <2>1 DEF Known
<1> QED BY <1>2, <1>3 DEF Known

LEMMA KnownOpened ==
  ASSUME NEW k \in Nat, NEW id, Opens(Job(k + 1), id)
  PROVE  Known(k + 1, id)
<1>1. k + 1 \in 1..k + 1 /\ k + 1 + 1..k + 1 = {}
  OBVIOUS
<1> QED BY <1>1 DEF Known

\* The first job done, the device is as known as it was to be.
LEMMA KnownShifted ==
  ASSUME NEW k \in Nat, NEW id,
         \A i \in 1..k : Job(i)' = Job(i + 1),
         Opens(Job(1), id) => id \in registered' \cup unready',
         id \in registered \cup unready /\ ~Closes(Job(1), id)
           => id \in registered' \cup unready',
         Known(k + 1, id)
  PROVE  Known(k, id)'
<1>1. ASSUME NEW j \in 1..k, ~Closes(Job(j + 1), id) PROVE ~Closes(Job(j), id)'
  BY <1>1 DEF Closes
<1>2. ASSUME id \in registered' \cup unready', \A j \in 2..k + 1 : ~Closes(Job(j), id)
      PROVE  Known(k, id)'
  <2>1. \A j \in 1..k : j + 1 \in 2..k + 1
    OBVIOUS
  <2>2. \A j \in 1..k : ~Closes(Job(j), id)'
    BY <1>1, <1>2, <2>1
  <2> QED BY <1>2, <2>2 DEF Known
<1>3. CASE id \in registered \cup unready /\ \A j \in 1..k + 1 : ~Closes(Job(j), id)
  <2>1. 1 \in 1..k + 1 /\ \A j \in 2..k + 1 : j \in 1..k + 1
    OBVIOUS
  <2> QED BY <1>2, <1>3, <2>1
<1>4. ASSUME NEW i \in 1..k + 1, Opens(Job(i), id),
             \A j \in i + 1..k + 1 : ~Closes(Job(j), id)
      PROVE  Known(k, id)'
  <2>1. CASE i = 1
    BY <1>2, <1>4, <2>1
  <2>2. CASE i # 1
    <3>1. i - 1 \in 1..k /\ (i - 1) + 1 = i
      BY <2>2
    <3>2. Opens(Job(i - 1), id)'
      BY <1>4, <3>1 DEF Opens
    <3>3. \A j \in (i - 1) + 1..k : j \in 1..k /\ j + 1 \in i + 1..k + 1
      BY <3>1
    <3>4. \A j \in (i - 1) + 1..k : ~Closes(Job(j), id)'
      BY <1>1, <1>4, <3>3
    <3> QED BY <3>1, <3>2, <3>4 DEF Known
  <2> QED BY <2>1, <2>2
<1> QED BY <1>3, <1>4 DEF Known

\* The jobs are the same, wherever they are.
LEMMA SameJobs ==
  ASSUME TypeOK, InputsKnown, Jobs' = Jobs, \A i \in 1..Jobs : Job(i)' = Job(i),
         UNCHANGED <<registered, unready>>, Announced' \subseteq Announced,
         aoa' \notin {"exit", "done"} => aoa \notin {"exit", "done"}
  PROVE  InputsKnown'
<1> SUFFICES ASSUME aoa' \notin {"exit", "done"} PROVE InputsKnown'
  BY DEF InputsKnown
<1>1. /\ \A i \in 1..Jobs : Told(Job(i)) => Known(i - 1, Job(i).id)
      /\ \A id \in Announced : Known(Jobs, id)
  BY DEF InputsKnown
<1>2. Jobs \in Nat
  BY JobTypes
<1>3. ASSUME NEW i \in 1..Jobs, Told(Job(i))' PROVE Known(i - 1, Job(i).id)'
  <2>1. i - 1 \in Nat /\ \A j \in 1..i - 1 : j \in 1..Jobs
    BY <1>2
  <2>2. Known(i - 1, Job(i).id) /\ Job(i)' = Job(i)
    BY <1>1, <1>3 DEF Told
  <2>3. PICK id : id = Job(i).id
    OBVIOUS
  <2>4. Known(i - 1, id)'
    BY <2>1, <2>2, <2>3, KnownSame
  <2> QED BY <2>2, <2>3, <2>4
<1>4. ASSUME NEW id \in Announced' PROVE Known(Jobs, id)'
  <2>1. PICK n \in Nat : n = Jobs
    BY <1>2
  <2>2. Known(n, id)'
    BY <1>1, <2>1, KnownSame
  <2> QED BY <2>1, <2>2
<1> QED BY <1>3, <1>4 DEF InputsKnown

\* The event being processed is done.
LEMMA FirstJobDone ==
  ASSUME TypeOK, InputsKnown, Len(event) = 1, event' = <<>>,
         UNCHANGED <<queue, Announced>>, aoa \notin {"exit", "done"},
         \A id : Opens(event[1], id) => id \in registered' \cup unready',
         \A id : id \in registered \cup unready /\ ~Closes(event[1], id)
                   => id \in registered' \cup unready'
  PROVE  InputsKnown'
<1>1. /\ \A i \in 1..Jobs : Told(Job(i)) => Known(i - 1, Job(i).id)
      /\ \A id \in Announced : Known(Jobs, id)
  BY DEF InputsKnown
<1>2. PICK n \in Nat : n = Len(queue) /\ Jobs = n + 1 /\ Jobs' = n
  <2>1. Len(queue) \in Nat /\ Jobs = 1 + Len(queue)
    BY JobTypes
  <2>2. Jobs' = 0 + Len(queue)
    BY DEF Jobs
  <2> QED BY <2>1, <2>2
<1>3. Job(1) = event[1] /\ \A i \in 1..n : Job(i + 1) = queue[i] /\ Job(i)' = queue[i]
  <2>1. Len(event') = 0
    OBVIOUS
  <2> QED BY <1>2, <2>1 DEF Job
<1>4. ASSUME NEW k \in 0..n, NEW id, Known(k + 1, id) PROVE Known(k, id)'
  <2>1. k \in Nat /\ \A i \in 1..k : Job(i)' = Job(i + 1)
    BY <1>3
  <2> QED BY <1>3, <1>4, <2>1, KnownShifted
<1>5. ASSUME NEW i \in 1..n, Told(Job(i))' PROVE Known(i - 1, Job(i).id)'
  <2>1. PICK id : id = Job(i + 1).id
    OBVIOUS
  <2>2. i + 1 \in 1..Jobs /\ i - 1 \in 0..n /\ (i + 1) - 1 = (i - 1) + 1
    BY <1>2
  <2>3. Known((i - 1) + 1, id)
    BY <1>1, <1>3, <1>5, <2>1, <2>2 DEF Told
  <2>4. Known(i - 1, id)'
    BY <1>4, <2>2, <2>3
  <2> QED BY <1>3, <2>1, <2>4
<1>6. ASSUME NEW id \in Announced' PROVE Known(n, id)'
  BY <1>1, <1>2, <1>4
<1> QED BY <1>2, <1>5, <1>6 DEF InputsKnown

\* A job is added: an input for a device the main thread has open, or a change of
\* its devices.
LEMMA LastJobAdded ==
  ASSUME TypeOK, InputsKnown, NEW e \in Events, Push(e),
         UNCHANGED <<event, registered, unready>>,
         Told(e) => e.id \in Announced,
         \A id \in Announced' : Opens(e, id) \/ (id \in Announced /\ ~Closes(e, id))
  PROVE  InputsKnown'
<1> SUFFICES ASSUME aoa' \notin {"exit", "done"} PROVE InputsKnown'
  BY DEF InputsKnown
<1>1. /\ \A i \in 1..Jobs : Told(Job(i)) => Known(i - 1, Job(i).id)
      /\ \A id \in Announced : Known(Jobs, id)
  BY DEF InputsKnown, Push
<1>2. PICK n \in Nat : Jobs = n /\ Jobs' = n + 1
  <2>1. Len(queue) \in Nat /\ Len(event) \in Nat /\ queue \in Seq(Events)
    BY JobTypes DEF TypeOK
  <2>2. Len(queue') = Len(queue) + 1
    BY <2>1, AppendFacts DEF Push
  <2> QED BY <2>1, <2>2 DEF Jobs
<1>3. Job(n + 1)' = e /\ \A i \in 1..n : Job(i)' = Job(i)
  <2>1. /\ Len(queue) \in Nat /\ Len(event) \in Nat /\ queue \in Seq(Events)
        /\ n = Len(event) + Len(queue)
    BY <1>2, JobTypes DEF TypeOK
  <2>2. /\ queue'[Len(queue) + 1] = e
        /\ \A i \in 1..Len(queue) : queue'[i] = queue[i]
    BY <2>1, AppendFacts DEF Push
  <2>3. (n + 1) - Len(event) = Len(queue) + 1 /\ ~(n + 1 <= Len(event))
    BY <2>1
  <2>4. Job(n + 1)' = e
    BY <2>2, <2>3 DEF Job
  <2>5. ASSUME NEW i \in 1..n PROVE Job(i)' = Job(i)
    <3>1. i <= Len(event) \/ i - Len(event) \in 1..Len(queue)
      BY <2>1
    <3> QED BY <2>2, <3>1 DEF Job
  <2> QED BY <2>4, <2>5
<1>4. ASSUME NEW k \in 0..n, NEW id, Known(k, id) PROVE Known(k, id)'
  <2>1. k \in Nat /\ \A i \in 1..k : Job(i)' = Job(i)
    BY <1>3
  <2> QED BY <1>4, <2>1, KnownSame
<1>5. ASSUME NEW i \in 1..n + 1, Told(Job(i))' PROVE Known(i - 1, Job(i).id)'
  <2>1. CASE i \in 1..n
    <3>1. PICK id : id = Job(i).id
      OBVIOUS
    <3>2. Known(i - 1, id) /\ i - 1 \in 0..n
      BY <1>1, <1>2, <1>3, <1>5, <2>1, <3>1 DEF Told
    <3>3. Known(i - 1, id)'
      BY <1>4, <3>2
    <3> QED BY <1>3, <2>1, <3>1, <3>3
  <2>2. CASE i = n + 1
    <3>1. Job(i)' = e /\ i - 1 = n /\ e.id \in Announced
      BY <1>3, <1>5, <2>2 DEF Told
    <3>2. Known(n, e.id)
      BY <1>1, <1>2, <3>1
    <3>3. PICK id : id = e.id
      OBVIOUS
    <3>4. Known(n, id)'
      BY <1>4, <3>2, <3>3
    <3> QED BY <3>1, <3>3, <3>4
  <2> QED BY <2>1, <2>2
<1>6. ASSUME NEW id \in Announced' PROVE Known(n + 1, id)'
  <2>1. CASE Opens(e, id)
    <3>1. Opens(Job(n + 1), id)'
      BY <1>3, <2>1 DEF Opens
    <3>2. n + 1 \in 1..n + 1 /\ n + 1 + 1..n + 1 = {}
      OBVIOUS
    <3> QED BY <3>1, <3>2 DEF Known
  <2>2. CASE id \in Announced /\ ~Closes(e, id)
    <3>1. Known(n, id)'
      BY <1>1, <1>2, <1>4, <2>2
    <3>2. ~Closes(Job(n + 1), id)'
      BY <1>3, <2>2 DEF Closes
    <3>3. 1..n + 1 = 1..n \cup {n + 1}
          /\ \A i \in 1..n : i + 1..n + 1 = i + 1..n \cup {n + 1}
      OBVIOUS
    <3> QED BY <3>1, <3>2, <3>3 DEF Known
  <2> QED BY <2>1, <2>2
<1> QED BY <1>2, <1>5, <1>6 DEF InputsKnown

LEMMA InputPushed ==
  ASSUME TypeOK, InputsKnown, NEW id \in devices, NEW seq \in 0..MaxSequence,
         PushInput(id, seq), UNCHANGED <<event, devices, unannounced, registered, unready>>
  PROVE  InputsKnown'
<1> DEFINE e == [type |-> "input", id |-> id, ack |-> seq, announced |-> id \notin unannounced]
<1>1. e \in Events /\ e.type = "input" /\ (Told(e) => e.id \in Announced)
  BY DEF Events, TypeOK, Told, Announced
<1>2. CASE Push(e)
  <2>1. \A d \in Announced' : Opens(e, d) \/ (d \in Announced /\ ~Closes(e, d))
    BY <1>1 DEF Closes, Announced
  <2> HIDE DEF e
  <2> QED BY <1>1, <1>2, <2>1, LastJobAdded
<1>3. CASE UNCHANGED <<queueVars, aoa, pushes>>
  <2>1. UNCHANGED <<queue, aoa>>
    BY <1>3 DEF queueVars
  <2> QED BY <2>1, SameJobs DEF Jobs, Job, Announced
<1> QED BY <1>2, <1>3 DEF PushInput

\* An input is only sent to a device that is known, because its opening was pushed
\* before it and nothing overtakes anything.
LEMMA KnownStep == TypeOK /\ InputsKnown /\ [Next]_vars => InputsKnown'
<1> SUFFICES ASSUME TypeOK, InputsKnown, [Next]_vars PROVE InputsKnown'
  OBVIOUS
<1>1. ASSUME UNCHANGED <<event, queue, registered, unready>>, Announced' \subseteq Announced,
             aoa' \notin {"exit", "done"} => aoa \notin {"exit", "done"}
      PROVE  InputsKnown'
  <2>1. Jobs' = Jobs /\ \A i \in 1..Jobs : Job(i)' = Job(i)
    BY <1>1 DEF Jobs, Job
  <2> QED BY <1>1, <2>1, SameJobs
<1>2. CASE aoa' \in {"exit", "done"}
  BY <1>2 DEF InputsKnown
<1>3. ASSUME NEW id \in Hid, Input(id) PROVE InputsKnown'
  <2>1. id \in devices /\ PushInput(id, 0) /\ UNCHANGED <<event, devices, unannounced, registered, unready>>
    BY <1>3 DEF Input, hidVars
  <2>2. 0 \in 0..MaxSequence
    BY BoundAssumption
  <2> QED BY <2>1, <2>2, InputPushed
<1>4. ASSUME NEW id \in Hid, Paste(id) PROVE InputsKnown'
  <2>1. id \in devices /\ PushInput(id, next) /\ UNCHANGED <<event, devices, unannounced, registered, unready>>
    BY <1>4 DEF Paste, hidVars
  <2>2. next \in 0..MaxSequence
    BY <1>4, BoundAssumption DEF Paste, TypeOK
  <2> QED BY <2>1, <2>2, InputPushed
<1>5. ASSUME NEW type \in {"open", "close"}, NEW id \in Hid, OpenClose(type, id)
      PROVE  InputsKnown'
  <2> DEFINE e == [type |-> type, id |-> id]
  <2>1. e \in Events /\ e.type # "input"
    BY DEF Events
  <2>2. /\ UNCHANGED <<event, registered, unready>>
        /\ devices' = IF type = "open" THEN devices \cup {id} ELSE devices \ {id}
    BY <1>5 DEF OpenClose, hidVars
  <2>3. CASE Push(e) /\ unannounced' = unannounced \ {id}
    <3>1. \A d \in Announced' : Opens(e, d) \/ (d \in Announced /\ ~Closes(e, d))
      BY <2>2, <2>3 DEF Opens, Closes, Announced
    <3>2. ~Told(e)
      BY <2>1 DEF Told
    <3> HIDE DEF e
    <3> QED BY <2>1, <2>2, <2>3, <3>1, <3>2, LastJobAdded
  <2>4. CASE PushFails /\ unannounced' = devices' \cap (unannounced \cup {id})
    <3>1. UNCHANGED <<queue, aoa>>
      BY <2>4 DEF PushFails, queueVars
    <3>2. Announced' \subseteq Announced
      BY <2>2, <2>4 DEF Announced
    <3> QED BY <1>1, <2>2, <3>1, <3>2
  <2> QED BY <1>5, <2>3, <2>4 DEF OpenClose
<1>6. CASE StopAoa \/ Interrupt \/ Join
  BY <1>1, <1>6 DEF StopAoa, Interrupt, Join, queueVars, hidVars, Announced
<1>7. CASE SetClipboard \/ DeviceText \/ Transmit \/ Receive
  BY <1>1, <1>7 DEF SetClipboard, DeviceText, Transmit, Receive, mainVars, queueVars, hidVars,
                    Announced
<1>8. CASE Wait \/ Timeout \/ SpuriousWakeup
  BY <1>1, <1>8 DEF Wait, Timeout, SpuriousWakeup, env, mainVars, queueVars, hidVars, Announced
<1>9. CASE SeeStopped \/ Exit
  BY <1>2, <1>9 DEF SeeStopped, Exit
<1>10. CASE Pop
  <2>1. /\ queue # <<>> /\ event' = <<Head(queue)>> /\ queue' = Tail(queue)
        /\ aoa = "ready" /\ UNCHANGED <<registered, unready, Announced>>
    BY <1>10 DEF Pop, env, mainVars, hidVars, Announced
  <2>2. Len(event) = 0 /\ queue \in Seq(Events)
    BY <2>1 DEF TypeOK
  <2>3. /\ Head(queue) = queue[1] /\ Len(queue') = Len(queue) - 1 /\ Len(queue) \in Nat
        /\ \A i \in 1..Len(queue) - 1 : queue'[i] = queue[i + 1]
        /\ Len(event') = 1 /\ event'[1] = queue[1]
    BY <2>1, <2>2
  <2>4. Jobs' = Jobs /\ Jobs = Len(queue)
    BY <2>2, <2>3 DEF Jobs
  <2>5. ASSUME NEW i \in 1..Jobs PROVE Job(i)' = Job(i)
    <3>1. Job(i) = queue[i]
      BY <2>2, <2>3, <2>4 DEF Job
    <3>2. CASE i = 1
      BY <2>3, <3>1, <3>2 DEF Job
    <3>3. CASE i # 1
      <4>1. i - 1 \in 1..Len(queue) - 1 /\ (i - 1) + 1 = i /\ ~(i <= 1)
        BY <2>3, <2>4, <3>3
      <4> QED BY <2>3, <3>1, <4>1 DEF Job
    <3> QED BY <3>2, <3>3
  <2> QED BY <2>1, <2>4, <2>5, SameJobs
<1>11. CASE WaitAck
  <2>1. UNCHANGED <<queue, registered, unready, Announced>> /\ aoa \notin {"exit", "done"}
    BY <1>11 DEF WaitAck, env, mainVars, queueVars, hidVars, Announced
  <2>2. CASE UNCHANGED event
    BY <1>1, <2>1, <2>2
  <2>3. CASE aoa' = "ready" /\ event' = <<>>
    <3>1. Len(event) = 1 /\ event[1].type = "input"
      BY <1>11 DEF WaitAck, TypeOK
    <3> QED BY <2>1, <2>3, <3>1, FirstJobDone DEF Opens
  <2> QED BY <1>2, <1>11, <2>2, <2>3 DEF WaitAck
<1>12. CASE SendInput
  <2>1. /\ event' = <<>> /\ UNCHANGED <<queue, registered, unready, Announced>>
        /\ aoa = "send"
    BY <1>12 DEF SendInput, env, mainVars, queueVars, hidVars, Announced
  <2>2. Len(event) = 1 /\ event[1].type = "input"
    BY <2>1 DEF TypeOK
  <2> QED BY <2>1, <2>2, FirstJobDone DEF Opens
<1>13. CASE OpenHid
  <2>1. /\ event' = <<>> /\ UNCHANGED <<queue, Announced>> /\ aoa = "process"
        /\ event[1].type = "open"
    BY <1>13 DEF OpenHid, env, mainVars, queueVars, Announced
  <2>2. registered' \cup unready' = registered \cup unready \cup {event[1].id}
    BY <1>13 DEF OpenHid
  <2>3. Len(event) = 1
    BY <2>1 DEF TypeOK
  <2> QED BY <2>1, <2>2, <2>3, FirstJobDone DEF Opens
<1>14. CASE CloseHid
  <2>1. /\ event' = <<>> /\ UNCHANGED <<queue, Announced, unready>> /\ aoa = "process"
        /\ event[1].type = "close"
        /\ registered' \in {registered, registered \ {event[1].id}}
    BY <1>14 DEF CloseHid, env, mainVars, queueVars, hidVars, Announced
  <2>2. Len(event) = 1
    BY <2>1 DEF TypeOK
  <2> QED BY <2>1, <2>2, FirstJobDone DEF Opens, Closes
<1>15. CASE UNCHANGED vars
  BY <1>1, <1>15 DEF vars, mainVars, queueVars, hidVars, Announced
<1> QED BY <1>3, <1>4, <1>5, <1>6, <1>7, <1>8, <1>9, <1>10, <1>11, <1>12, <1>13, <1>14,
           <1>15 DEF Next, AoaThread

LEMMA RemovedId ==
  ASSUME NEW s \in Seq(Hid), NEW i \in DOMAIN s
  PROVE  Ids(s) \ {s[i]} \subseteq Ids(RemoveAt(s, i))
<1> DEFINE a == SubSeq(s, 1, i - 1)
           b == SubSeq(s, i + 1, Len(s))
<1>1. i \in 1..Len(s) /\ Len(s) \in Nat
  OBVIOUS
<1>2. /\ a \in Seq(Hid) /\ Len(a) = i - 1 /\ \A j \in 1..i - 1 : a[j] = s[j]
      /\ b \in Seq(Hid) /\ Len(b) = Len(s) - i
      /\ \A j \in 1..Len(s) - i : b[j] = s[i + j]
  BY <1>1
<1> HIDE DEF a, b
<1>3. /\ Len(a \o b) = Len(s) - 1
      /\ \A j \in 1..i - 1 : (a \o b)[j] = a[j]
      /\ \A j \in i..Len(s) - 1 : (a \o b)[j] = b[j - (i - 1)]
  BY <1>1, <1>2
<1>4. ASSUME NEW j \in DOMAIN s, s[j] # s[i] PROVE s[j] \in Ids(a \o b)
  <2>1. DOMAIN (a \o b) = 1..Len(s) - 1 /\ j \in 1..Len(s) /\ j # i
    BY <1>2, <1>3, <1>4
  <2>2. CASE j < i
    <3>1. j \in 1..i - 1 /\ j \in 1..Len(s) - 1
      BY <1>1, <2>1, <2>2
    <3>2. (a \o b)[j] = s[j]
      BY <1>2, <1>3, <3>1
    <3> QED BY <2>1, <3>1, <3>2 DEF Ids
  <2>3. CASE j > i
    <3>1. /\ j - 1 \in i..Len(s) - 1 /\ j - 1 \in 1..Len(s) - 1
          /\ (j - 1) - (i - 1) = j - i /\ j - i \in 1..Len(s) - i /\ i + (j - i) = j
      BY <1>1, <2>1, <2>3
    <3>2. (a \o b)[j - 1] = s[j]
      BY <1>2, <1>3, <3>1
    <3> QED BY <2>1, <3>1, <3>2 DEF Ids
  <2> QED BY <1>1, <2>1, <2>2, <2>3
<1>5. RemoveAt(s, i) = a \o b
  BY DEF RemoveAt, a, b
<1> QED BY <1>4, <1>5 DEF Ids

\* What is registered is in vec_open, or was forgotten.
LEMMA TrackedStep == TypeOK /\ Tracked /\ [Next]_vars => Tracked'
<1> SUFFICES ASSUME TypeOK, Tracked, [Next]_vars PROVE Tracked'
  OBVIOUS
<1>1. ASSUME UNCHANGED <<registered, orphans, opened>>, aoa' = "done" <=> aoa = "done"
      PROVE  Tracked'
  BY <1>1 DEF Tracked, Ids
<1>2. ASSUME NEW id \in Hid, Input(id) \/ Paste(id) PROVE Tracked'
  <2>1. \E seq : PushInput(id, seq)
    BY <1>2 DEF Input, Paste
  <2>2. aoa' = "done" <=> aoa = "done"
    BY <2>1 DEF PushInput, Push
  <2> QED BY <1>1, <1>2, <2>2 DEF Input, Paste, hidVars
<1>3. ASSUME NEW type \in {"open", "close"}, NEW id \in Hid, OpenClose(type, id)
      PROVE  Tracked'
  BY <1>1, <1>3 DEF OpenClose, Push, PushFails, hidVars
<1>4. CASE StopAoa \/ Interrupt \/ Join \/ SetClipboard \/ DeviceText \/ Transmit \/ Receive
  BY <1>1, <1>4 DEF StopAoa, Interrupt, Join, SetClipboard, DeviceText, Transmit, Receive, hidVars
<1>5. CASE Wait \/ Pop \/ SeeStopped \/ WaitAck \/ SendInput \/ Timeout \/ SpuriousWakeup
  BY <1>1, <1>5 DEF Wait, Pop, SeeStopped, WaitAck, SendInput, Timeout, SpuriousWakeup, hidVars
<1>6. CASE OpenHid
  <2>1. aoa # "done" /\ aoa' # "done" /\ opened \in Seq(Hid)
    BY <1>6 DEF OpenHid, TypeOK
  <2>2. registered \subseteq orphans \cup Ids(opened)
    BY <2>1 DEF Tracked
  <2>3. event[1].id \in Hid
    <3>1. event \in Seq(Events) /\ Len(event) = 1
      BY <1>6 DEF OpenHid, TypeOK
    <3>2. event[1] \in Events
      BY ONLY <3>1
    <3> QED BY <3>2 DEF Events
  <2>4. Ids(Append(opened, event[1].id)) = Ids(opened) \cup {event[1].id}
    BY <2>1, <2>3, AppendFacts DEF Ids
  <2>5. registered' \subseteq orphans' \cup Ids(opened')
    BY <1>6, <2>2, <2>4 DEF OpenHid
  <2> QED BY <2>1, <2>5 DEF Tracked
<1>7. CASE CloseHid
  <2>1. aoa # "done" /\ aoa' # "done" /\ opened \in Seq(Hid)
    BY <1>7 DEF CloseHid, TypeOK
  <2>2. registered \subseteq orphans \cup Ids(opened)
    BY <2>1 DEF Tracked
  <2>3. CASE UNCHANGED hidVars
    BY <2>1, <2>2, <2>3 DEF Tracked, hidVars
  <2>4. CASE /\ registered' = registered \ {event[1].id} /\ UNCHANGED <<orphans, opened>>
    BY <2>1, <2>2, <2>4 DEF Tracked
  <2>5. ASSUME NEW i \in DOMAIN opened, opened[i] = event[1].id,
               opened' = RemoveAt(opened, i), UNCHANGED orphans,
               registered' = registered \ {event[1].id}
        PROVE  Tracked'
    <3>1. Ids(opened) \ {event[1].id} \subseteq Ids(opened')
      BY <2>1, <2>5, RemovedId
    <3> QED BY <2>1, <2>2, <2>5, <3>1 DEF Tracked
  <2> QED BY <1>7, <2>3, <2>4, <2>5 DEF CloseHid
<1>8. CASE Exit
  <2>1. aoa # "done" /\ aoa' = "done"
    BY <1>8 DEF Exit
  <2>2. registered \subseteq orphans \cup Ids(opened)
    BY <2>1 DEF Tracked
  <2>3. PICK failed \in SUBSET Ids(opened) :
          registered' = registered \ (Ids(opened) \ failed) /\ orphans' = orphans \cup failed
    BY <1>8 DEF Exit, Ids
  <2> QED BY <2>1, <2>2, <2>3 DEF Tracked
<1>9. CASE UNCHANGED vars
  BY <1>1, <1>9 DEF vars, hidVars
<1> QED BY <1>2, <1>3, <1>4, <1>5, <1>6, <1>7, <1>8, <1>9 DEF Next, AoaThread

-----------------------------------------------------------------------------
\* The inductive invariant holds in every reachable state.
THEOREM Invariance == Spec => []IInv
<1>1. Init => IInv
  <2> SUFFICES ASSUME Init PROVE IInv
    OBVIOUS
  <2>1. TypeOK
    <3>1. /\ 1 \in 1..MaxSequence + 1 /\ 0 \in 0..MaxSequence /\ 0 <= SenderLimit
      BY BoundAssumption, LimitAssumption
    <3>2. /\ control \in Seq(1..MaxSequence) /\ inbox \in Seq(0..MaxSequence)
          /\ outbox \in Seq(0..MaxSequence) /\ Len(outbox) = 0
          /\ queue \in Seq(Events) /\ event \in Seq(Events) /\ Len(event) = 0
          /\ opened \in Seq(Hid)
      BY DEF Init
    <3>3. pasted \subseteq (1..MaxSequence) \X (0..MaxSequence)
      BY DEF Init
    <3> QED BY <3>1, <3>2, <3>3 DEF Init, TypeOK
  <2>2. Requests /\ Acks
    BY DEF Init, Requests, Acks, Handled, Below, From, Ascending
  <2>3. NoLostWakeup /\ Acked /\ FreshPaste
    BY DEF Init, NoLostWakeup, Acked, FreshPaste
  <2>4. InputsKnown
    <3>1. Len(event) = 0 /\ Len(queue) = 0 /\ Announced = {}
      BY DEF Init, Announced
    <3> QED BY <3>1 DEF InputsKnown, Jobs
  <2>5. Tracked
    BY DEF Init, Tracked
  <2> QED BY <2>1, <2>2, <2>3, <2>4, <2>5 DEF IInv
<1>2. IInv /\ [Next]_vars => IInv'
  BY TypeStep, WakeupStep, RequestsStep, AcksStep, AckedStep, FreshStep,
     KnownStep, TrackedStep DEF IInv
<1> QED BY <1>1, <1>2, PTL DEF Spec

\* Types, for any number of HID devices and any capacity of the queues.
THEOREM TypeCorrect == Spec => []TypeOK
<1>1. IInv => TypeOK
  BY DEF IInv
<1> QED BY <1>1, Invariance, PTL

\* Neither the event queue nor the acknowledgement leaves the thread asleep.
THEOREM NoWakeupLost == Spec => []NoLostWakeup
<1>1. IInv => NoLostWakeup
  BY DEF IInv
<1> QED BY <1>1, Invariance, PTL

\* Ctrl+v is never injected before the device has set the clipboard it was pressed
\* for, and every one requested before, or failed to.
THEOREM PasteIsFresh == Spec => []FreshPaste
<1>1. IInv => FreshPaste
  BY DEF IInv
<1> QED BY <1>1, Invariance, PTL

\* An input whose device could be announced is only sent to a HID device that is
\* registered or whose setup failed, and after the thread only those are left whose unregistration failed.
THEOREM HidDevicesPaired == Spec => []DevicesPaired
<1>1. IInv => InputFindsDevice
  <2> SUFFICES ASSUME IInv, aoa = "send", event[1].announced
               PROVE  event[1].id \in registered \cup unready
    BY DEF InputFindsDevice
  <2>1. /\ Len(event) = 1 /\ event[1].type = "input" /\ aoa \notin {"exit", "done"}
        /\ Len(queue) \in Nat
    BY JobTypes DEF IInv, TypeOK
  <2>2. 1 \in 1..Jobs /\ Job(1) = event[1] /\ 1 - 1 = 0
    BY <2>1 DEF Jobs, Job
  <2>3. Known(0, event[1].id)
    BY <2>1, <2>2 DEF IInv, InputsKnown, Told
  <2> QED BY <2>3 DEF Known
<1>2. IInv => NoneLeftRegistered
  BY DEF IInv, Tracked, NoneLeftRegistered
<1>3. IInv => DevicesPaired
  BY <1>1, <1>2 DEF DevicesPaired
<1> QED BY <1>3, Invariance, PTL

\* The assertion of sc_acksync_ack never fails, whatever the sender drops.
THEOREM AcksMonotonic == Spec => []AckMonotonic
<1>1. IInv => AckMonotonic
  BY DEF IInv, Acks, From, AckMonotonic, Text
<1> QED BY <1>1, Invariance, PTL

=============================================================================
