-------------------------- MODULE ControllerProofs --------------------------
(***************************************************************************)
(* The control queue for any messages and any limit: types, no lost wakeup, *)
(* no message dropped that may not be, none freed twice or leaked, and the   *)
(* stream it implements.                                                    *)
(***************************************************************************)
EXTENDS Controller, FiniteSetTheorems, TLAPS

\* There is no thread before the start, nor after the join.
Lifetime ==
  /\ main = "init" <=> thread = "none"
  /\ main \in {"joined", "destroyed"} => thread = "done"

\* While the thread lives, what was accepted and not yet sent is the message
\* being written, then the queue.
Backlog ==
  thread # "done" =>
    /\ Len(accepted) = Len(sent) + Len(current) + Len(queue)
    /\ \A i \in 1..Len(current) : accepted[Len(sent) + i] = current[i]
    /\ \A i \in 1..Len(queue) :
         accepted[Len(sent) + Len(current) + i] = queue[i]

Held(s) == {s[i] : i \in 1..Len(s)}

\* Each accepted message has one owner: the queue, the thread, or nobody once it
\* was destroyed.
Custody ==
  /\ \A i, j \in 1..Len(queue) : queue[i] = queue[j] => i = j
  /\ Held(queue) \cap Held(current) = {}
  /\ Held(queue) \subseteq Held(accepted) /\ Held(current) \subseteq Held(accepted)
  /\ \A m \in Msg :
       freed[m] = IF m \in Held(accepted) \ (Held(queue) \cup Held(current)) THEN 1 ELSE 0
  /\ main = "destroyed" => queue = <<>>

IInv ==
  /\ TypeOK
  /\ NoLostWakeup
  /\ NonDroppableKept
  /\ Lifetime
  /\ Backlog
  /\ Custody

-----------------------------------------------------------------------------
\* The positions of a queue that satisfy a condition are finitely many.
LEMMA MessageCount ==
  ASSUME TypeOK, NEW m
  PROVE  Cardinality({i \in DOMAIN queue : queue[i] = m}) \in Nat
<1>1. DOMAIN queue = 1..Len(queue) /\ Len(queue) \in Nat
  BY DEF TypeOK
<1>2. IsFiniteSet(1..Len(queue))
  BY <1>1, FS_Interval
<1>3. IsFiniteSet({i \in DOMAIN queue : queue[i] = m})
  BY <1>1, <1>2, FS_Subset
<1> QED BY <1>3, FS_CardinalityType

LEMMA TypeStep == TypeOK /\ Lifetime /\ [Next]_vars => TypeOK'
<1> SUFFICES ASSUME TypeOK, Lifetime, [Next]_vars PROVE TypeOK'
  OBVIOUS
<1> USE DEF TypeOK
<1>1. CASE Start
  BY <1>1 DEF Start, Lifetime, receiving
<1>2. ASSUME NEW m \in Msg, PushMsg(m) PROVE TypeOK'
  <2>1. thread' \in {"none", "ready", "waiting", "sending", "done"}
        /\ (thread' = "sending" <=> thread = "sending")
    BY <1>2 DEF PushMsg, PushBelow, PushAbove, Drop, Signal
  <2>2. /\ queue' = queue \/ queue' = Append(queue, m)
        /\ accepted' = accepted \/ accepted' = Append(accepted, m)
    BY <1>2 DEF PushMsg, PushBelow, PushAbove, Drop
  <2>3. queue' \in Seq(Msg) /\ accepted' \in Seq(Msg)
    <3>1. Append(queue, m) \in Seq(Msg) /\ Append(accepted, m) \in Seq(Msg)
      OBVIOUS
    <3> QED BY <2>2, <3>1
  <2>4. refused' \subseteq Msg /\ oom' \subseteq Msg
    BY <1>2 DEF PushMsg, PushBelow, PushAbove, Drop
  <2>5. UNCHANGED <<main, receiver, socket, current, stopped, ended, sent, freed>>
    BY <1>2 DEF PushMsg, receiving
  <2> QED BY <2>1, <2>3, <2>4, <2>5
<1>3. CASE Stop
  BY <1>3 DEF Stop, Signal, receiving
<1>4. CASE Join
  BY <1>4 DEF Join, receiving
<1>5. CASE Destroy
  <2>1. \A m \in Msg : Cardinality({i \in DOMAIN queue : queue[i] = m}) \in Nat
    BY MessageCount
  <2>2. freed' \in [Msg -> Nat] /\ queue' \in Seq(Msg)
    <3>1. /\ queue' = <<>>
          /\ freed' = [m \in Msg |->
                        freed[m] + Cardinality({i \in DOMAIN queue : queue[i] = m})]
      BY <1>5 DEF Destroy
    <3>2. freed' \in [Msg -> Nat]
      <4>1. \A m \in Msg : freed[m] \in Nat
        OBVIOUS
      <4> QED BY ONLY <2>1, <3>1, <4>1
    <3> QED BY <3>1, <3>2
  <2> QED BY <1>5, <2>2 DEF Destroy, receiving
<1>6. CASE Wait \/ SeeStopped \/ SpuriousWakeup
  <2>1. /\ UNCHANGED <<main, receiver, socket, queue, current, stopped, accepted,
                       refused, oom, sent, freed>>
        /\ thread # "sending" /\ thread' \in {"waiting", "ready", "done"}
        /\ ended' \in {ended, "ok"}
    BY <1>6 DEF Wait, SeeStopped, SpuriousWakeup, receiving
  <2> QED BY <2>1
<1>7. CASE Pop
  BY <1>7 DEF Pop, receiving
<1>8. CASE ProcessMsg
  <2>1. /\ thread = "sending" /\ current' = <<>>
        /\ freed' = [freed EXCEPT ![Head(current)] = @ + 1]
        /\ \/ sent' = Append(sent, Head(current)) /\ thread' = "ready" /\ UNCHANGED ended
           \/ thread' = "done" /\ ended' \in {"ok", "error"} /\ UNCHANGED sent
        /\ UNCHANGED <<main, receiver, socket, queue, stopped, accepted, refused, oom>>
    BY <1>8 DEF ProcessMsg, receiving
  <2>2. Head(current) \in Msg
    <3>1. current \in Seq(Msg) /\ Len(current) = 1
      BY <2>1
    <3> QED BY ONLY <3>1
  <2>3. freed' \in [Msg -> Nat]
    BY <2>1, <2>2
  <2>4. sent' \in Seq(Msg)
    <3>1. Append(sent, Head(current)) \in Seq(Msg)
      BY <2>2
    <3> QED BY <2>1, <3>1
  <2>5. current' \in Seq(Msg) /\ Len(current') = 0
    BY <2>1
  <2> QED BY <2>1, <2>3, <2>4, <2>5
<1>9. CASE ReceiverEnds \/ InterruptSocket
  BY <1>9 DEF ReceiverEnds, InterruptSocket, restVars
<1>10. CASE UNCHANGED vars
  BY <1>10 DEF vars, receiving
<1> QED BY <1>1, <1>2, <1>3, <1>4, <1>5, <1>6, <1>7, <1>8, <1>9, <1>10 DEF Next, Thread

-----------------------------------------------------------------------------
LEMMA LifetimeStep == TypeOK /\ Lifetime /\ [Next]_vars => Lifetime'
<1> SUFFICES ASSUME TypeOK, Lifetime, [Next]_vars PROVE Lifetime'
  OBVIOUS
<1> USE DEF Lifetime
<1>1. ASSUME NEW m \in Msg, PushMsg(m) PROVE Lifetime'
  BY <1>1 DEF PushMsg, PushBelow, PushAbove, Drop, Signal
<1>2. CASE Start \/ Stop \/ Join \/ Destroy
  BY <1>2 DEF Start, Stop, Join, Destroy, Signal
<1>3. CASE Thread \/ SpuriousWakeup \/ ReceiverEnds \/ InterruptSocket \/ UNCHANGED vars
  BY <1>3 DEF Thread, Wait, SeeStopped, Pop, ProcessMsg, SpuriousWakeup, ReceiverEnds,
              InterruptSocket, restVars, vars
<1> QED BY <1>1, <1>2, <1>3 DEF Next

\* The wakeup argument: a push signals when it finds the queue empty, and a
\* push that finds the limit reached finds a queue that is not empty.
LEMMA WakeupStep ==
  TypeOK /\ Lifetime /\ NoLostWakeup /\ [Next]_vars => NoLostWakeup'
<1> SUFFICES ASSUME TypeOK, Lifetime, NoLostWakeup, [Next]_vars PROVE NoLostWakeup'
  OBVIOUS
<1> USE DEF NoLostWakeup
<1>1. ASSUME NEW m \in Msg, PushMsg(m) PROVE NoLostWakeup'
  <2>1. CASE PushBelow(m)
    BY <1>1, <2>1 DEF PushMsg, PushBelow, Signal
  <2>2. CASE PushAbove(m) \/ Drop(m)
    <3>1. queue # <<>>
      BY <2>2, LimitAssumption DEF PushAbove, Drop, TypeOK
    <3> QED BY <1>1, <2>2, <3>1 DEF PushMsg, PushAbove, Drop
  <2> QED BY <1>1, <2>1, <2>2 DEF PushMsg
<1>2. CASE Start \/ Stop \/ Join \/ Destroy
  BY <1>2 DEF Start, Stop, Join, Destroy, Signal
<1>3. CASE Thread \/ SpuriousWakeup \/ ReceiverEnds \/ InterruptSocket \/ UNCHANGED vars
  BY <1>3 DEF Thread, Wait, SeeStopped, Pop, ProcessMsg, SpuriousWakeup, ReceiverEnds,
              InterruptSocket, restVars, vars
<1> QED BY <1>1, <1>2, <1>3 DEF Next

LEMMA DroppableStep == NonDroppableKept /\ [Next]_vars => NonDroppableKept'
<1> SUFFICES ASSUME NonDroppableKept, [Next]_vars PROVE NonDroppableKept'
  OBVIOUS
<1> USE DEF NonDroppableKept
<1>1. ASSUME NEW m \in Msg, PushMsg(m) PROVE NonDroppableKept'
  BY <1>1 DEF PushMsg, PushBelow, PushAbove, Drop
<1>2. CASE Start \/ Stop \/ Join \/ Destroy
  BY <1>2 DEF Start, Stop, Join, Destroy
<1>3. CASE Thread \/ SpuriousWakeup \/ ReceiverEnds \/ InterruptSocket \/ UNCHANGED vars
  BY <1>3 DEF Thread, Wait, SeeStopped, Pop, ProcessMsg, SpuriousWakeup, ReceiverEnds,
              InterruptSocket, restVars, vars
<1> QED BY <1>1, <1>2, <1>3 DEF Next

\* The thread holds nothing unless it writes.
LEMMA HoldsNothing == TypeOK /\ thread # "sending" => current = <<>>
<1> SUFFICES ASSUME TypeOK, thread # "sending" PROVE current = <<>>
  OBVIOUS
<1>1. current \in Seq(Msg)
  BY DEF TypeOK
<1>2. Len(current) <= 1
  BY DEF TypeOK
<1>3. Len(current) # 1
  BY DEF TypeOK
<1>4. Len(current) \in Nat
  BY <1>1
<1>5. Len(current) = 0
  BY <1>2, <1>3, <1>4
<1> QED BY <1>1, <1>5

LEMMA BacklogStep ==
  TypeOK /\ Lifetime /\ Backlog /\ [Next]_vars => Backlog'
<1> SUFFICES ASSUME TypeOK, Lifetime, Backlog, [Next]_vars PROVE Backlog'
  OBVIOUS
<1> USE DEF TypeOK
<1>1. ASSUME NEW m \in Msg, PushMsg(m) PROVE Backlog'
  <2>1. UNCHANGED <<current, sent>> /\ (thread' = "done" <=> thread = "done")
    BY <1>1 DEF PushMsg, PushBelow, PushAbove, Drop, Signal
  <2>2. CASE UNCHANGED <<queue, accepted>>
    BY <2>1, <2>2 DEF Backlog
  <2>3. CASE queue' = Append(queue, m) /\ accepted' = Append(accepted, m)
    <3>1. /\ Len(queue') = Len(queue) + 1
          /\ Len(accepted') = Len(accepted) + 1
          /\ \A i \in 1..Len(queue) : queue'[i] = queue[i]
          /\ queue'[Len(queue) + 1] = m
          /\ \A i \in 1..Len(accepted) : accepted'[i] = accepted[i]
          /\ accepted'[Len(accepted) + 1] = m
      BY <2>3
    <3>2. SUFFICES ASSUME thread # "done" PROVE Backlog'
      BY <2>1 DEF Backlog
    <3>3. /\ Len(accepted) = Len(sent) + Len(current) + Len(queue)
          /\ \A i \in 1..Len(current) : accepted[Len(sent) + i] = current[i]
          /\ \A i \in 1..Len(queue) : accepted[Len(sent) + Len(current) + i] = queue[i]
      BY <3>2 DEF Backlog
    <3>4. \A i \in 1..Len(current) : accepted'[Len(sent) + i] = current[i]
      BY <3>1, <3>3
    <3>5. \A i \in 1..Len(queue') : accepted'[Len(sent) + Len(current) + i] = queue'[i]
      <4>1. SUFFICES ASSUME NEW i \in 1..Len(queue')
                     PROVE  accepted'[Len(sent) + Len(current) + i] = queue'[i]
        OBVIOUS
      <4>2. CASE i = Len(queue) + 1
        BY <3>1, <3>3, <4>2
      <4>3. CASE i \in 1..Len(queue)
        BY <3>1, <3>3, <4>3
      <4> QED BY <3>1, <4>2, <4>3
    <3> QED BY <2>1, <3>1, <3>3, <3>4, <3>5 DEF Backlog
  <2> QED BY <1>1, <2>2, <2>3 DEF PushMsg, PushBelow, PushAbove, Drop
<1>2. CASE Start \/ Stop \/ Join
  BY <1>2 DEF Start, Stop, Join, Signal, Lifetime, Backlog
<1>3. CASE Destroy
  BY <1>3 DEF Destroy, Lifetime, Backlog
<1>4. CASE Wait \/ SeeStopped \/ SpuriousWakeup \/ UNCHANGED vars
  <2>1. UNCHANGED <<queue, current, accepted, sent>> /\ (thread = "done" => thread' = "done")
    BY <1>4 DEF Wait, SeeStopped, SpuriousWakeup, vars
  <2> QED BY <2>1 DEF Backlog
<1>7. CASE ReceiverEnds \/ InterruptSocket
  BY <1>7 DEF ReceiverEnds, InterruptSocket, restVars, Backlog
<1>5. CASE Pop
  <2>1. /\ Len(current) = 0 /\ Len(current') = 1 /\ current'[1] = queue[1]
        /\ Len(queue') = Len(queue) - 1
        /\ \A i \in 1..Len(queue') : queue'[i] = queue[i + 1]
        /\ thread # "done" /\ UNCHANGED <<accepted, sent>>
    <3>1. /\ queue # <<>> /\ current' = <<Head(queue)>> /\ queue' = Tail(queue)
          /\ thread = "ready" /\ UNCHANGED <<accepted, sent>>
      BY <1>5 DEF Pop
    <3>2. Len(current) = 0
      <4>1. current = <<>>
        BY <3>1, HoldsNothing
      <4> QED BY ONLY <4>1
    <3>3. /\ Len(queue') = Len(queue) - 1 /\ Head(queue) = queue[1]
          /\ \A i \in 1..Len(queue') : queue'[i] = queue[i + 1]
      <4>1. queue \in Seq(Msg)
        OBVIOUS
      <4> QED BY ONLY <3>1, <4>1
    <3> QED BY <3>1, <3>2, <3>3
  <2>2. /\ Len(accepted) = Len(sent) + Len(queue)
        /\ \A i \in 1..Len(queue) : accepted[Len(sent) + i] = queue[i]
    BY <2>1 DEF Backlog
  <2>3. Len(queue) \in Nat /\ Len(queue) > 0 /\ Len(sent) \in Nat
    BY <1>5 DEF Pop
  <2>4. accepted[Len(sent) + 1] = queue[1]
    BY <2>2, <2>3
  <2>5. ASSUME NEW i \in 1..Len(queue')
        PROVE  accepted'[Len(sent) + 1 + i] = queue'[i]
    <3>1. i + 1 \in 1..Len(queue) /\ Len(sent) + 1 + i = Len(sent) + (i + 1)
      BY <2>1, <2>3
    <3> QED BY <2>1, <2>2, <3>1
  <2>6. Len(accepted') = Len(sent') + Len(current') + Len(queue')
    BY <2>1, <2>2, <2>3
  <2> QED BY <2>1, <2>4, <2>5, <2>6 DEF Backlog
<1>6. CASE ProcessMsg
  <2>1. CASE thread' = "done"
    BY <2>1 DEF Backlog
  <2>2. CASE /\ sent' = Append(sent, Head(current)) /\ current' = <<>>
             /\ UNCHANGED <<accepted, queue>> /\ thread = "sending"
    <3>1. /\ Len(sent') = Len(sent) + 1 /\ Len(current) = 1 /\ Len(current') = 0
          /\ Len(sent) \in Nat /\ Len(queue) \in Nat
      BY <2>2
    <3>2. /\ Len(accepted) = Len(sent) + 1 + Len(queue)
          /\ \A i \in 1..Len(queue) : accepted[Len(sent) + 1 + i] = queue[i]
      BY <2>2, <3>1 DEF Backlog
    <3> QED BY <2>2, <3>1, <3>2 DEF Backlog
  <2> QED BY <1>6, <2>1, <2>2 DEF ProcessMsg
<1> QED BY <1>1, <1>2, <1>3, <1>4, <1>5, <1>6, <1>7 DEF Next, Thread

-----------------------------------------------------------------------------
LEMMA HeldAppend ==
  ASSUME NEW s \in Seq(Msg), NEW m \in Msg
  PROVE  Held(Append(s, m)) = Held(s) \cup {m}
<1>1. Len(Append(s, m)) = Len(s) + 1 /\ Len(s) \in Nat
  OBVIOUS
<1>2. \A i \in 1..Len(s) : Append(s, m)[i] = s[i]
  OBVIOUS
<1>3. Append(s, m)[Len(s) + 1] = m
  OBVIOUS
<1>4. 1..(Len(s) + 1) = 1..Len(s) \cup {Len(s) + 1}
  BY <1>1
<1> QED BY <1>1, <1>2, <1>3, <1>4 DEF Held

LEMMA HeldTail ==
  ASSUME NEW s \in Seq(Msg), s # <<>>,
         \A i, j \in 1..Len(s) : s[i] = s[j] => i = j
  PROVE  /\ Held(Tail(s)) = Held(s) \ {Head(s)}
         /\ Head(s) \in Held(s) /\ Head(s) \in Msg
         /\ \A i, j \in 1..Len(Tail(s)) : Tail(s)[i] = Tail(s)[j] => i = j
<1>1. /\ Len(s) \in Nat /\ Len(s) > 0 /\ Len(Tail(s)) = Len(s) - 1
      /\ Head(s) = s[1]
      /\ \A i \in 1..Len(Tail(s)) : Tail(s)[i] = s[i + 1]
  OBVIOUS
<1>2. ASSUME NEW i \in 2..Len(s) PROVE s[i] \in Held(Tail(s)) /\ s[i] # s[1]
  <2>1. i - 1 \in 1..Len(Tail(s)) /\ Tail(s)[i - 1] = s[i]
    BY <1>1
  <2> QED BY <1>1, <2>1 DEF Held
<1>3. ASSUME NEW i \in 1..Len(Tail(s)) PROVE i + 1 \in 2..Len(s) /\ i + 1 \in 1..Len(s)
  BY <1>1
<1>4. Held(Tail(s)) \subseteq Held(s) \ {s[1]}
  BY <1>1, <1>2, <1>3 DEF Held
<1>5. ASSUME NEW x \in Held(s), x # s[1] PROVE x \in Held(Tail(s))
  <2>1. PICK i \in 1..Len(s) : x = s[i]
    BY DEF Held
  <2>2. i \in 2..Len(s)
    BY <1>1, <1>5, <2>1
  <2> QED BY <1>2, <2>1, <2>2
<1>6. \A i, j \in 1..Len(Tail(s)) : Tail(s)[i] = Tail(s)[j] => i = j
  BY <1>1, <1>3
<1>7. s[1] \in Held(s) /\ s[1] \in Msg
  BY <1>1 DEF Held
<1> QED BY <1>1, <1>4, <1>5, <1>6, <1>7

LEMMA ShortSequences ==
  ASSUME NEW s \in Seq(Msg)
  PROVE  /\ Len(s) = 0 => s = <<>>
         /\ Len(s) = 1 => s = <<s[1]>> /\ Head(s) = s[1] /\ s[1] \in Msg
  OBVIOUS

LEMMA HeldOne == ASSUME NEW m PROVE Held(<<m>>) = {m} /\ Held(<<>>) = {}
  BY DEF Held

\* A message enters the custody of the queue once, moves on to the thread, and
\* is destroyed by whoever holds it.
LEMMA CustodyStep ==
  TypeOK /\ Lifetime /\ Custody /\ [Next]_vars => Custody'
<1> SUFFICES ASSUME TypeOK, Lifetime, Custody, [Next]_vars PROVE Custody'
  OBVIOUS
<1> USE DEF TypeOK
<1>1. ASSUME NEW m \in Msg, PushMsg(m) PROVE Custody'
  <2>1. UNCHANGED <<main, current, freed>> /\ main # "destroyed" /\ m \notin Held(accepted)
    BY <1>1 DEF PushMsg, Pushed, Held
  <2>2. CASE UNCHANGED <<queue, accepted>>
    <3>1. UNCHANGED <<main, current, freed, queue, accepted>>
      BY <2>1, <2>2
    <3> QED BY <3>1 DEF Custody
  <2>3. CASE queue' = Append(queue, m) /\ accepted' = Append(accepted, m)
    <3>1. Held(queue') = Held(queue) \cup {m} /\ Held(accepted') = Held(accepted) \cup {m}
      BY <2>3, HeldAppend
    <3>2. m \notin Held(queue) /\ m \notin Held(current) /\ Held(current') = Held(current)
      <4>1. current' = current
        BY <2>1
      <4>2. Held(queue) \subseteq Held(accepted) /\ Held(current) \subseteq Held(accepted)
        BY DEF Custody
      <4> QED BY <2>1, <4>1, <4>2
    <3>3. \A i, j \in 1..Len(queue') : queue'[i] = queue'[j] => i = j
      <4>1. /\ Len(queue') = Len(queue) + 1 /\ queue'[Len(queue) + 1] = m
            /\ \A i \in 1..Len(queue) : queue'[i] = queue[i] /\ queue[i] # m
        BY <2>3, <3>2 DEF Held
      <4>2. ASSUME NEW i \in 1..Len(queue') PROVE i = Len(queue) + 1 \/ i \in 1..Len(queue)
        BY <4>1
      <4> QED BY <4>1, <4>2 DEF Custody
    <3> QED BY <2>1, <3>1, <3>2, <3>3 DEF Custody
  <2> QED BY <1>1, <2>2, <2>3 DEF PushMsg, PushBelow, PushAbove, Drop
<1>2. CASE Start \/ Stop \/ Join
  <2>1. /\ UNCHANGED <<queue, current, accepted, freed>>
        /\ main' # "destroyed"
    BY <1>2 DEF Start, Stop, Join
  <2> QED BY <2>1 DEF Custody
<1>3. CASE Destroy
  <2>1. current = <<>>
    <3>1. main = "joined"
      BY <1>3 DEF Destroy
    <3>2. thread # "sending"
      BY <3>1 DEF Lifetime
    <3> QED BY <3>2, HoldsNothing
  <2>2. ASSUME NEW m \in Msg
        PROVE Cardinality({i \in DOMAIN queue : queue[i] = m})
                = IF m \in Held(queue) THEN 1 ELSE 0
    <3>1. DOMAIN queue = 1..Len(queue)
      OBVIOUS
    <3>2. CASE m \in Held(queue)
      <4>1. PICK k \in 1..Len(queue) : queue[k] = m
        BY <3>2 DEF Held
      <4>2. {i \in DOMAIN queue : queue[i] = m} = {k}
        BY <3>1, <4>1 DEF Custody
      <4> QED BY <3>2, <4>2, FS_Singleton
    <3>3. CASE m \notin Held(queue)
      <4>1. {i \in DOMAIN queue : queue[i] = m} = {}
        BY <3>1, <3>3 DEF Held
      <4> QED BY <3>3, <4>1, FS_EmptySet
    <3> QED BY <3>2, <3>3
  <2>3. Held(queue') = {} /\ Held(current) = {} /\ queue' = <<>>
    BY <1>3, <2>1, HeldOne DEF Destroy
  <2>4. \A m \in Msg : freed'[m] = freed[m] + (IF m \in Held(queue) THEN 1 ELSE 0)
    BY <1>3, <2>2 DEF Destroy
  <2>5. UNCHANGED <<current, accepted>> /\ Len(queue') = 0
    BY <1>3, <2>3 DEF Destroy
  <2>6. \A m \in Msg : freed'[m] = IF m \in Held(accepted) THEN 1 ELSE 0
    <3>1. \A m \in Msg :
            /\ freed[m] = IF m \in Held(accepted) \ Held(queue) THEN 1 ELSE 0
            /\ m \in Held(queue) => m \in Held(accepted)
      BY <2>3 DEF Custody
    <3> SUFFICES ASSUME NEW m \in Msg
                 PROVE  freed'[m] = IF m \in Held(accepted) THEN 1 ELSE 0
      OBVIOUS
    <3>2. freed'[m] = freed[m] + (IF m \in Held(queue) THEN 1 ELSE 0)
      BY <2>4
    <3>3. CASE m \in Held(queue)
      BY ONLY <3>1, <3>2, <3>3
    <3>4. CASE m \notin Held(queue)
      BY ONLY <3>1, <3>2, <3>4
    <3> QED BY <3>3, <3>4
  <2> QED BY <2>3, <2>5, <2>6 DEF Custody
<1>4. CASE Wait \/ SeeStopped \/ SpuriousWakeup \/ UNCHANGED vars
  <2>1. UNCHANGED <<main, queue, current, accepted, freed>>
    BY <1>4 DEF Wait, SeeStopped, SpuriousWakeup, vars
  <2> QED BY <2>1 DEF Custody
<1>7. CASE ReceiverEnds \/ InterruptSocket
  <2>1. UNCHANGED <<main, queue, current, accepted, freed>>
    BY <1>7 DEF ReceiverEnds, InterruptSocket, restVars
  <2> QED BY <2>1 DEF Custody
<1>5. CASE Pop
  <2>1. /\ Len(current) = 0 /\ current = <<>> /\ queue # <<>>
        /\ current' = <<Head(queue)>> /\ queue' = Tail(queue)
        /\ UNCHANGED <<main, accepted, freed>>
    BY <1>5 DEF Pop
  <2>2. /\ Held(queue') = Held(queue) \ {Head(queue)} /\ Head(queue) \in Held(queue)
        /\ \A i, j \in 1..Len(queue') : queue'[i] = queue'[j] => i = j
    BY <2>1, HeldTail DEF Custody
  <2>3. Held(current) = {} /\ Held(current') = {Head(queue)}
    BY <2>1, HeldOne
  <2>4. main # "destroyed"
    BY <2>1 DEF Custody
  <2> QED BY <2>1, <2>2, <2>3, <2>4 DEF Custody
<1>6. CASE ProcessMsg
  <2>1. /\ Len(current) = 1 /\ current' = <<>>
        /\ freed' = [freed EXCEPT ![Head(current)] = @ + 1]
        /\ UNCHANGED <<main, queue, accepted>>
    BY <1>6 DEF ProcessMsg
  <2>2. current = <<current[1]>> /\ Head(current) = current[1] /\ current[1] \in Msg
    BY <2>1, ShortSequences
  <2>3. Held(current) = {current[1]} /\ Held(current') = {}
    BY <2>1, <2>2, HeldOne
  <2>4. \A m \in Msg : freed'[m] = IF m = current[1] THEN freed[m] + 1 ELSE freed[m]
    BY <2>1, <2>2
  <2>5. Held(queue') = Held(queue) /\ Held(accepted') = Held(accepted)
    BY <2>1 DEF Held
  <2> QED BY <2>1, <2>3, <2>4, <2>5 DEF Custody
<1> QED BY <1>1, <1>2, <1>3, <1>4, <1>5, <1>6, <1>7 DEF Next, Thread

-----------------------------------------------------------------------------
LEMMA IInvInit == Init => IInv
<1> SUFFICES ASSUME Init PROVE IInv
  OBVIOUS
<1>1. freed \in [Msg -> Nat]
  BY DEF Init
<1>2. /\ queue \in Seq(Msg) /\ current \in Seq(Msg) /\ Len(current) = 0
      /\ accepted \in Seq(Msg) /\ sent \in Seq(Msg)
  BY DEF Init
<1>3. /\ main = "init" /\ thread = "none" /\ receiver = "none" /\ socket = "open"
      /\ stopped = FALSE /\ ended = "no"
      /\ refused = {} /\ oom = {}
  BY DEF Init
<1>4. TypeOK
  <2>1. Len(current) <= 1 /\ (Len(current) = 1 <=> thread = "sending")
    BY <1>2, <1>3
  <2>2. refused \subseteq Msg /\ oom \subseteq Msg /\ stopped \in BOOLEAN
    BY <1>3
  <2> QED BY <1>1, <1>2, <1>3, <2>1, <2>2 DEF TypeOK
<1>5. Custody
  <2>1. Held(queue) = {} /\ Held(current) = {} /\ Held(accepted) = {}
    BY HeldOne DEF Init
  <2> QED BY <1>2, <1>3, <2>1 DEF Init, Custody
<1> QED BY <1>4, <1>5 DEF Init, IInv, NoLostWakeup, NonDroppableKept, Lifetime, Backlog

LEMMA IInvStep == IInv /\ [Next]_vars => IInv'
  BY TypeStep, LifetimeStep, WakeupStep, DroppableStep, BacklogStep, CustodyStep DEF IInv

\* Every reachable state satisfies the strengthening.
THEOREM Invariance == Spec => []IInv
  BY IInvInit, IInvStep, PTL DEF Spec

\* The controller's state always has its types, and its thread holds a message
\* exactly while it writes one.
THEOREM TypeCorrect == Spec => []TypeOK
<1>1. IInv => TypeOK
  BY DEF IInv
<1> QED BY <1>1, Invariance, PTL

\* A controller thread that sleeps has an empty queue and no stop to see, for
\* every limit: signalling on the first message only is enough.
THEOREM NoWakeupLost == Spec => []NoLostWakeup
<1>1. IInv => NoLostWakeup
  BY DEF IInv
<1> QED BY <1>1, Invariance, PTL

\* A message that may not be dropped is refused only for want of memory.
THEOREM NonDroppableSafe == Spec => []NonDroppableKept
<1>1. IInv => NonDroppableKept
  BY DEF IInv
<1> QED BY <1>1, Invariance, PTL

\* No message is destroyed twice, and once the controller is destroyed every
\* message it accepted was: sent, failed, or left in the queue.
THEOREM DestroyedOnce == Spec => []FreedOnce
<1>1. IInv => FreedOnce
  <2> SUFFICES ASSUME IInv PROVE FreedOnce
    OBVIOUS
  <2>1. \A m \in Msg : freed[m] <= 1
    BY DEF IInv, Custody
  <2>2. ASSUME main = "destroyed", NEW i \in DOMAIN accepted
        PROVE  freed[accepted[i]] = 1
    <3>1. queue = <<>> /\ current = <<>>
      <4>1. TypeOK /\ Lifetime /\ Custody
        BY DEF IInv
      <4>2. thread # "sending" /\ queue = <<>>
        BY <2>2, <4>1 DEF Custody, Lifetime
      <4> QED BY <4>1, <4>2, HoldsNothing
    <3>2. Held(queue) = {} /\ Held(current) = {}
      BY <3>1, HeldOne
    <3>3. accepted[i] \in Held(accepted) /\ accepted[i] \in Msg
      BY DEF IInv, TypeOK, Held
    <3> QED BY <3>2, <3>3 DEF IInv, Custody
  <2> QED BY <2>1, <2>2 DEF FreedOnce
<1> QED BY <1>1, Invariance, PTL

-----------------------------------------------------------------------------
LEMMA StreamInit == Init => Stream!Init
  BY DEF Init, Stream!Init

LEMMA StreamStep == IInv /\ [Next]_vars => [Stream!Next]_(Stream!vars)
<1> SUFFICES ASSUME IInv, [Next]_vars PROVE [Stream!Next]_(Stream!vars)
  OBVIOUS
<1> USE DEF Stream!vars
<1>1. ASSUME NEW m \in Msg, PushMsg(m) PROVE [Stream!Next]_(Stream!vars)
  <2>1. CASE PushBelow(m) \/ PushAbove(m)
    <3>1. UNCHANGED sent
      BY <1>1 DEF PushMsg
    <3> QED BY <2>1, <3>1 DEF PushBelow, PushAbove, Stream!Next, Stream!Accept
  <2>2. CASE Drop(m)
    BY <1>1, <2>2 DEF PushMsg, Drop
  <2> QED BY <1>1, <2>1, <2>2 DEF PushMsg
<1>2. CASE Start \/ Stop \/ Join \/ Destroy
  BY <1>2 DEF Start, Stop, Join, Destroy
<1>3. CASE \/ Wait \/ SeeStopped \/ Pop \/ SpuriousWakeup \/ ReceiverEnds
         \/ InterruptSocket \/ UNCHANGED vars
  BY <1>3 DEF Wait, SeeStopped, Pop, SpuriousWakeup, ReceiverEnds, InterruptSocket,
              restVars, vars
<1>4. CASE ProcessMsg
  <2>1. CASE UNCHANGED sent
    BY <1>4, <2>1 DEF ProcessMsg
  <2>2. CASE sent' = Append(sent, Head(current))
    <3>1. /\ current \in Seq(Msg) /\ Len(current) = 1
          /\ sent \in Seq(Msg) /\ queue \in Seq(Msg) /\ thread # "done"
      BY <1>4 DEF ProcessMsg, IInv, TypeOK
    <3>2. /\ Len(accepted) = Len(sent) + 1 + Len(queue)
          /\ accepted[Len(sent) + 1] = current[1]
      BY <3>1 DEF IInv, Backlog
    <3>3. Head(current) = current[1] /\ Len(sent) < Len(accepted)
      BY <3>1, <3>2
    <3>4. UNCHANGED accepted
      BY <1>4 DEF ProcessMsg
    <3> QED BY <2>2, <3>2, <3>3, <3>4 DEF Stream!Next, Stream!Send
  <2> QED BY <1>4, <2>1, <2>2 DEF ProcessMsg
<1> QED BY <1>1, <1>2, <1>3, <1>4 DEF Next, Thread

\* The controller implements ControlStream: what reaches the socket is always
\* a prefix of what was accepted, one message after another.
THEOREM ImplementsStream == Spec => StreamSpec
  BY Invariance, StreamInit, StreamStep, PTL DEF Spec, StreamSpec, Stream!Spec

=============================================================================
