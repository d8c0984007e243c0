----------------------- MODULE BridgeAndSessionProofs -----------------------
(***************************************************************************)
(* Two components that share nothing but the theorems of the library.       *)
(*                                                                          *)
(* Safety of the RPC bridge for any number of requests, services and        *)
(* activities: types, at most one resumption per call, no callback without  *)
(* a call, and no waiting call without something that leads to its answer.  *)
(*                                                                          *)
(* Safety of a session of the client for any command line of any length     *)
(* that is accepted: what is asserted of the options, that nothing is       *)
(* destroyed while it is used, and that nothing outlives the session.       *)
(***************************************************************************)
EXTENDS RpcBridge, Session, SequenceTheorems, FiniteSetTheorems, WellFoundedInduction, TLAPS

-----------------------------------------------------------------------------
(* What a task queue holds.                                                *)

\* A task of kind k for request r is queued and still has to reach x.
Has(q, k, r, x) ==
  \E i \in 1..Len(q) : q[i].kind = k /\ q[i].req = r /\ x \in q[i].to

NoResume(q, r) ==
  \A i \in 1..Len(q) : ~(q[i].kind = "resume" /\ q[i].req = r)

OneResume(q, r) ==
  \E i \in 1..Len(q) : \A j \in 1..Len(q) :
    (q[j].kind = "resume" /\ q[j].req = r) <=> j = i

\* Delivering the head of the queue to one receiver keeps a queue.
LEMMA RestType ==
  ASSUME NEW q \in Seq(TaskSet), q # <<>>, NEW x, Head(q).to # {}
  PROVE  Rest(q, x) \in Seq(TaskSet)
<1>1. CASE Head(q).to \subseteq {x}
  <2>1. Tail(q) \in Seq(TaskSet)
    OBVIOUS
  <2> QED BY <1>1, <2>1 DEF Rest
<1>2. CASE ~(Head(q).to \subseteq {x})
  <2> DEFINE e == [q[1] EXCEPT !.to = @ \ {x}]
  <2>1. q[1] = Head(q) /\ 1 \in 1..Len(q) /\ q[1] \in TaskSet
    OBVIOUS
  <2>2. e \in TaskSet
    BY <1>2, <2>1 DEF TaskSet, Some
  <2>3. [q EXCEPT ![1] = e] \in Seq(TaskSet)
    BY <2>1, <2>2, ExceptSeq
  <2>4. Rest(q, x) = [q EXCEPT ![1] = e]
    BY <1>2, <2>1 DEF Rest
  <2> QED BY <2>3, <2>4
<1> QED BY <1>1, <1>2

\* The queue left by a delivery, element by element.
LEMMA RestElements ==
  ASSUME NEW q \in Seq(TaskSet), q # <<>>, NEW x
  PROVE  \/ /\ Head(q).to \subseteq {x}
            /\ Rest(q, x) = Tail(q)
            /\ Len(Tail(q)) = Len(q) - 1
            /\ \A i \in 1..Len(q) - 1 : Tail(q)[i] = q[i + 1]
         \/ /\ ~(Head(q).to \subseteq {x})
            /\ Len(Rest(q, x)) = Len(q)
            /\ \A i \in 1..Len(q) :
                 /\ Rest(q, x)[i].kind = q[i].kind
                 /\ Rest(q, x)[i].req = q[i].req
                 /\ i # 1 => Rest(q, x)[i].to = q[i].to
                 /\ i = 1 => Rest(q, x)[i].to = q[i].to \ {x}
<1>1. CASE Head(q).to \subseteq {x}
  BY <1>1 DEF Rest
<1>2. CASE ~(Head(q).to \subseteq {x})
  <2>1. 1 \in 1..Len(q) /\ q[1] = Head(q) /\ \A i \in 1..Len(q) : q[i] \in TaskSet
    OBVIOUS
  <2> DEFINE e == [q[1] EXCEPT !.to = @ \ {x}]
  <2>2. Rest(q, x) = [q EXCEPT ![1] = e]
    BY <1>2, <2>1 DEF Rest
  <2>3. Len(Rest(q, x)) = Len(q)
    BY <2>2, <2>1
  <2>4. e.kind = q[1].kind /\ e.req = q[1].req /\ e.to = q[1].to \ {x}
    BY <2>1 DEF TaskSet
  <2>5. \A i \in 1..Len(q) : Rest(q, x)[i] = IF i = 1 THEN e ELSE q[i]
    BY <2>2, <2>1
  <2> QED BY <1>2, <2>3, <2>4, <2>5
<1> QED BY <1>1, <1>2

\* A delivery takes from the queue only the receiver it delivers to.
LEMMA RestHas ==
  ASSUME NEW q \in Seq(TaskSet), q # <<>>, NEW y,
         NEW k, NEW r, NEW x, Has(q, k, r, x),
         ~(Head(q).kind = k /\ Head(q).req = r /\ x = y)
  PROVE  Has(Rest(q, y), k, r, x)
<1>1. PICK i \in 1..Len(q) : q[i].kind = k /\ q[i].req = r /\ x \in q[i].to
  BY DEF Has
<1>2. Len(q) \in Nat /\ Head(q) = q[1]
  OBVIOUS
<1>3. CASE Head(q).to \subseteq {y} /\ Rest(q, y) = Tail(q)
  <2>1. i # 1
    BY <1>1, <1>2, <1>3
  <2>2. i - 1 \in 1..Len(Tail(q)) /\ Tail(q)[i - 1] = q[i]
    BY <1>1, <1>2, <2>1
  <2> QED BY <1>1, <1>3, <2>2 DEF Has
<1>4. CASE /\ Len(Rest(q, y)) = Len(q)
           /\ \A n \in 1..Len(q) :
                /\ Rest(q, y)[n].kind = q[n].kind
                /\ Rest(q, y)[n].req = q[n].req
                /\ n # 1 => Rest(q, y)[n].to = q[n].to
                /\ n = 1 => Rest(q, y)[n].to = q[n].to \ {y}
  <2>1. x \in Rest(q, y)[i].to
    BY <1>1, <1>2, <1>4
  <2> QED BY <1>1, <1>4, <2>1 DEF Has
<1> QED BY <1>3, <1>4, RestElements

\* Nor does it touch the queued resumptions.  Removing the task at the head
\* removes a resumption only when the task is one.
LEMMA TailResume ==
  ASSUME NEW q \in Seq(TaskSet), q # <<>>, NEW r
  PROVE  /\ ~(Head(q).kind = "resume" /\ Head(q).req = r) =>
              /\ NoResume(q, r) <=> NoResume(Tail(q), r)
              /\ OneResume(q, r) => OneResume(Tail(q), r)
         /\ Head(q).kind = "resume" /\ Head(q).req = r =>
              /\ ~NoResume(q, r)
              /\ OneResume(q, r) => NoResume(Tail(q), r)
<1>1. Len(q) \in Nat /\ Head(q) = q[1] /\ 1 \in 1..Len(q)
  OBVIOUS
<1>2. Len(Tail(q)) = Len(q) - 1 /\ \A i \in 1..Len(q) - 1 : Tail(q)[i] = q[i + 1]
  OBVIOUS
<1>3. \A j \in 1..Len(q) - 1 : j + 1 \in 1..Len(q) /\ j + 1 # 1
  BY <1>1
<1>4. NoResume(q, r) => NoResume(Tail(q), r) /\ ~(Head(q).kind = "resume" /\ Head(q).req = r)
  BY <1>1, <1>2, <1>3 DEF NoResume
<1>7. ASSUME NoResume(Tail(q), r), ~(Head(q).kind = "resume" /\ Head(q).req = r)
      PROVE  NoResume(q, r)
  <2> SUFFICES ASSUME NEW i \in 1..Len(q), q[i].kind = "resume", q[i].req = r
               PROVE  FALSE
    BY DEF NoResume
  <2>1. i - 1 \in 1..Len(q) - 1 /\ Tail(q)[i - 1] = q[i]
    BY <1>1, <1>2, <1>7
  <2> QED BY <1>2, <1>7, <2>1 DEF NoResume
<1>5. ASSUME OneResume(q, r), ~(Head(q).kind = "resume" /\ Head(q).req = r)
      PROVE  OneResume(Tail(q), r)
  <2>1. PICK i \in 1..Len(q) : \A j \in 1..Len(q) :
          (q[j].kind = "resume" /\ q[j].req = r) <=> j = i
    BY <1>5 DEF OneResume
  <2>2. i # 1
    BY <1>1, <1>5, <2>1
  <2>3. i - 1 \in 1..Len(Tail(q))
    BY <1>1, <1>2, <2>2
  <2>4. ASSUME NEW j \in 1..Len(Tail(q))
        PROVE  (Tail(q)[j].kind = "resume" /\ Tail(q)[j].req = r) <=> j = i - 1
    <3>1. j + 1 \in 1..Len(q) /\ Tail(q)[j] = q[j + 1]
      BY <1>1, <1>2
    <3>2. j + 1 = i <=> j = i - 1
      BY <1>1, <1>2
    <3> QED BY <2>1, <3>1, <3>2
  <2> QED BY <2>3, <2>4 DEF OneResume
<1>6. ASSUME OneResume(q, r), Head(q).kind = "resume", Head(q).req = r
      PROVE  NoResume(Tail(q), r)
  <2>1. PICK i \in 1..Len(q) : \A j \in 1..Len(q) :
          (q[j].kind = "resume" /\ q[j].req = r) <=> j = i
    BY <1>6 DEF OneResume
  <2>2. i = 1
    BY <1>1, <1>6, <2>1
  <2> QED BY <1>2, <1>3, <2>1, <2>2 DEF NoResume
<1> QED BY <1>4, <1>5, <1>6, <1>7

LEMMA TailHas ==
  ASSUME NEW q \in Seq(TaskSet), q # <<>>, NEW k, NEW r, NEW x,
         Head(q).kind # k, Has(q, k, r, x)
  PROVE  Has(Tail(q), k, r, x)
<1>1. PICK i \in 1..Len(q) : q[i].kind = k /\ q[i].req = r /\ x \in q[i].to
  BY DEF Has
<1>2. i # 1 /\ Len(q) \in Nat
  BY <1>1
<1>3. i - 1 \in 1..Len(Tail(q)) /\ Tail(q)[i - 1] = q[i]
  BY <1>1, <1>2
<1> QED BY <1>1, <1>3 DEF Has

LEMMA RestResume ==
  ASSUME NEW q \in Seq(TaskSet), q # <<>>, NEW y, NEW r, Head(q).kind # "resume"
  PROVE  /\ NoResume(q, r) <=> NoResume(Rest(q, y), r)
         /\ OneResume(q, r) => OneResume(Rest(q, y), r)
<1>1. CASE Rest(q, y) = Tail(q)
  BY <1>1, TailResume
<1>2. CASE /\ Len(Rest(q, y)) = Len(q)
           /\ \A i \in 1..Len(q) : /\ Rest(q, y)[i].kind = q[i].kind
                                   /\ Rest(q, y)[i].req = q[i].req
  <2>1. NoResume(q, r) <=> NoResume(Rest(q, y), r)
    BY <1>2 DEF NoResume
  <2>2. ASSUME OneResume(q, r) PROVE OneResume(Rest(q, y), r)
    <3>1. PICK i \in 1..Len(q) : \A j \in 1..Len(q) :
            (q[j].kind = "resume" /\ q[j].req = r) <=> j = i
      BY <2>2 DEF OneResume
    <3>2. i \in 1..Len(Rest(q, y))
      BY <1>2
    <3>3. \A j \in 1..Len(Rest(q, y)) :
            (Rest(q, y)[j].kind = "resume" /\ Rest(q, y)[j].req = r) <=> j = i
      BY <1>2, <3>1
    <3> QED BY <3>2, <3>3 DEF OneResume
  <2> QED BY <2>1, <2>2
<1> QED BY <1>1, <1>2, RestElements

\* Appending a task keeps what the queue held and adds what the task is.
LEMMA AppendHas ==
  ASSUME NEW q \in Seq(TaskSet), NEW t \in TaskSet, NEW k, NEW r, NEW x
  PROVE  /\ Has(q, k, r, x) => Has(Append(q, t), k, r, x)
         /\ t.kind = k /\ t.req = r /\ x \in t.to => Has(Append(q, t), k, r, x)
<1>1. /\ Len(q) \in Nat /\ Len(Append(q, t)) = Len(q) + 1
      /\ \A i \in 1..Len(q) : Append(q, t)[i] = q[i]
      /\ Append(q, t)[Len(q) + 1] = t
  OBVIOUS
<1>2. \A i \in 1..Len(q) : i \in 1..Len(q) + 1
  BY <1>1
<1> QED BY <1>1, <1>2 DEF Has

LEMMA AppendResume ==
  ASSUME NEW q \in Seq(TaskSet), NEW t \in TaskSet, NEW r
  PROVE  /\ ~(t.kind = "resume" /\ t.req = r) =>
              /\ NoResume(q, r) <=> NoResume(Append(q, t), r)
              /\ OneResume(q, r) => OneResume(Append(q, t), r)
         /\ t.kind = "resume" /\ t.req = r => ~NoResume(Append(q, t), r)
         /\ t.kind = "resume" /\ t.req = r /\ NoResume(q, r) =>
              OneResume(Append(q, t), r)
<1>1. /\ Len(q) \in Nat /\ Len(Append(q, t)) = Len(q) + 1
      /\ \A i \in 1..Len(q) : Append(q, t)[i] = q[i]
      /\ Append(q, t)[Len(q) + 1] = t
  OBVIOUS
<1>2. \A i \in 1..Len(q) + 1 : i \in 1..Len(q) \/ i = Len(q) + 1
  BY <1>1
<1>3. Len(q) + 1 \in 1..Len(q) + 1 /\ Len(q) + 1 \notin 1..Len(q)
      /\ \A i \in 1..Len(q) : i \in 1..Len(q) + 1
  BY <1>1
<1>4. ASSUME ~(t.kind = "resume" /\ t.req = r), NoResume(q, r)
      PROVE  NoResume(Append(q, t), r)
  BY <1>1, <1>2, <1>4 DEF NoResume
<1>5. ASSUME ~(t.kind = "resume" /\ t.req = r), OneResume(q, r)
      PROVE  OneResume(Append(q, t), r)
  <2>1. PICK i \in 1..Len(q) : \A j \in 1..Len(q) :
          (q[j].kind = "resume" /\ q[j].req = r) <=> j = i
    BY <1>5 DEF OneResume
  <2>2. \A j \in 1..Len(Append(q, t)) :
          (Append(q, t)[j].kind = "resume" /\ Append(q, t)[j].req = r) <=> j = i
    BY <1>1, <1>2, <1>3, <1>5, <2>1
  <2>3. i \in 1..Len(Append(q, t))
    BY <1>1, <1>3
  <2> QED BY <2>2, <2>3 DEF OneResume
<1>6. ASSUME t.kind = "resume", t.req = r, NoResume(q, r)
      PROVE  OneResume(Append(q, t), r)
  <2>1. ASSUME NEW j \in 1..Len(Append(q, t))
        PROVE  (Append(q, t)[j].kind = "resume" /\ Append(q, t)[j].req = r)
                 <=> j = Len(q) + 1
    <3>1. CASE j \in 1..Len(q)
      BY <1>1, <1>3, <1>6, <3>1 DEF NoResume
    <3>2. CASE j = Len(q) + 1
      BY <1>1, <1>6, <3>2
    <3> QED BY <1>1, <1>2, <2>1, <3>1, <3>2
  <2>2. Len(q) + 1 \in 1..Len(Append(q, t))
    BY <1>1, <1>3
  <2> QED BY <2>1, <2>2 DEF OneResume
<1>7. NoResume(Append(q, t), r) => NoResume(q, r) /\ ~(t.kind = "resume" /\ t.req = r)
  BY <1>1, <1>3 DEF NoResume
<1> QED BY <1>4, <1>5, <1>6, <1>7

-----------------------------------------------------------------------------
(* The inductive invariant.                                                *)

\* A call is made to a service that runs; the service may be destroyed since.
CallsToServices ==
  \A r \in Request : call[r] # "new" =>
    home[r] \in Handler /\ service[home[r]] \in {"running", "destroyed"}

\* Where the one resumption of each call stands, unless a race kept its entry.
OneResumption ==
  \A r \in Request \ kept :
    \/ resumed[r] = 0 /\ NoResume(looper, r)
    \/ /\ \/ resumed[r] = 0 /\ OneResume(looper, r)
          \/ resumed[r] = 1 /\ NoResume(looper, r)
       /\ call[r] \notin {"new", "putting"}
       /\ \A h \in Handler : r \notin pending[h]

\* An entry is kept for a call that is answered: it is resumed, or will be.
KeptAnswered ==
  \A r \in kept :
    /\ call[r] \notin {"new", "putting"}
    /\ call[r] = "returned" \/ ~NoResume(looper, r)

\* A receiver is registered while its service runs, and a request is only sent
\* to activities that were created.
Receivers ==
  /\ \A h \in Handler : service[h] = "running" => h \in registered
  /\ \A r \in Request : \A a \in sentTo[r] : activity[a] # "absent"

\* Why a waiting call is not forgotten: each activity it was sent to still has
\* the request to handle or a script to finish, or the response is on its way.
Owed(r, a) ==
  \/ Has(looper, "request", r, a)
  \/ <<r, a>> \in evals
  \/ Has(looper, "response", r, home[r])

Traced ==
  \A r \in Request :
    /\ call[r] \in {"put", "waiting"} /\ r \notin lost
    /\ service[home[r]] = "running"
    => \/ ~NoResume(looper, r)
       \/ /\ r \in pending[home[r]]
          /\ call[r] = "waiting" =>
               \A a \in sentTo[r] : activity[a] = "alive" => Owed(r, a)

IInv ==
  /\ TypeOK
  /\ CallsToServices
  /\ CallbacksAwaited
  /\ OneResumption
  /\ KeptAnswered
  /\ Receivers
  /\ Traced

-----------------------------------------------------------------------------
(* Types.                                                                  *)

LEMMA TaskTypes ==
  /\ StartTask \in TaskSet
  /\ \A A \in Some(Activity) : StartedTask(A) \in TaskSet
  /\ \A r \in Request : \A A \in Some(Activity) : RequestTask(r, A) \in TaskSet
  /\ \A r \in Request : \A H \in Some(Handler) : ResponseTask(r, H) \in TaskSet
  /\ \A r \in Request : ResumeTask(r) \in TaskSet
BY DEF TaskSet, Task, StartTask, StartedTask, RequestTask, ResponseTask,
       ResumeTask, Some

\* The task at the head of the queue.
LEMMA HeadTask ==
  ASSUME NEW q \in Seq(TaskSet), q # <<>>
  PROVE  /\ Head(q) \in TaskSet
         /\ Tail(q) \in Seq(TaskSet)
         /\ Head(q).kind \in {"request", "response", "resume"} => Head(q).req \in Request
         /\ Head(q).kind \in {"start", "resume"} => Head(q).to = {}
         /\ Head(q).kind \in {"started", "request"} => Head(q).to \in Some(Activity)
         /\ Head(q).kind = "response" => Head(q).to \in Some(Handler)
<1>1. Head(q) \in TaskSet /\ Tail(q) \in Seq(TaskSet)
  OBVIOUS
<1> QED BY <1>1 DEF TaskSet

LEMMA BroadcastType ==
  ASSUME NEW q \in Seq(TaskSet), NEW r \in Request
  PROVE  /\ \A A \in SUBSET Activity : Broadcast(q, StartedTask(A)) \in Seq(TaskSet)
         /\ \A A \in SUBSET Activity : Broadcast(q, RequestTask(r, A)) \in Seq(TaskSet)
         /\ \A H \in SUBSET Handler : Broadcast(q, ResponseTask(r, H)) \in Seq(TaskSet)
<1>1. ASSUME NEW A \in SUBSET Activity, A # {}
      PROVE  StartedTask(A) \in TaskSet /\ RequestTask(r, A) \in TaskSet
  BY <1>1, TaskTypes DEF Some
<1>2. ASSUME NEW H \in SUBSET Handler, H # {} PROVE ResponseTask(r, H) \in TaskSet
  BY <1>2, TaskTypes DEF Some
<1>3. \A A : StartedTask(A).to = A /\ RequestTask(r, A).to = A /\ ResponseTask(r, A).to = A
  BY DEF Task, StartedTask, RequestTask, ResponseTask
<1> QED BY <1>1, <1>2, <1>3 DEF Broadcast

LEMMA StartedType ==
  ASSUME NEW q \in Seq(TaskSet), NEW A \in SUBSET Activity
  PROVE  Broadcast(q, StartedTask(A)) \in Seq(TaskSet)
<1>1. A # {} => StartedTask(A) \in TaskSet
  BY TaskTypes DEF Some
<1>2. StartedTask(A).to = A
  BY DEF Task, StartedTask
<1> QED BY <1>1, <1>2 DEF Broadcast

\* Every step keeps the types.
LEMMA TypeStep == TypeOK /\ CallsToServices /\ [Next]_vars => TypeOK'
<1> SUFFICES ASSUME TypeOK, CallsToServices, [Next]_vars PROVE TypeOK'
  OBVIOUS
<1> USE DEF TypeOK
<1> Alive \subseteq Activity
  BY DEF Alive
<1>1. ASSUME NEW a \in Activity, CreateActivity(a) PROVE TypeOK'
  BY <1>1, TaskTypes DEF CreateActivity, bridgeVars
<1>2. ASSUME NEW a \in Activity, DestroyActivity(a) PROVE TypeOK'
  BY <1>2 DEF DestroyActivity, bridgeVars
<1>3. ASSUME NEW h \in Handler, DestroyService(h) PROVE TypeOK'
  <2>1. PICK S \in SUBSET Request : pending' = [pending EXCEPT ![h] = S]
    <3>1. PICK S \in (IF Putting(h) = {} THEN {{}} ELSE SUBSET pending[h]) :
            pending' = [pending EXCEPT ![h] = S]
      BY <1>3 DEF DestroyService
    <3>2. S \in SUBSET Request
      BY <3>1
    <3> QED BY <3>1, <3>2
  <2>2. Putting(h) \subseteq Request
    BY DEF Putting
  <2>3. pending' \in [Handler -> SUBSET Request]
    BY <2>1
  <2> QED BY <1>3, <2>2, <2>3 DEF DestroyService, Unregister
<1>4. ASSUME NEW r \in Request, HttpThread(r) PROVE TypeOK'
  <2>1. ASSUME NEW h \in Handler, CallHealth(r, h) PROVE TypeOK'
    BY <2>1 DEF CallHealth
  <2>2. ASSUME NEW h \in Handler, PutBegin(r, h) PROVE TypeOK'
    BY <2>2 DEF PutBegin, Putting
  <2>3. ASSUME PutEnd(r) PROVE TypeOK'
    <3>1. pending' \in [Handler -> SUBSET Request] /\ lost' \subseteq Request
      <4>1. home[r] \in Handler
        BY <2>3 DEF PutEnd, CallsToServices
      <4>2. PICK L \in SUBSET (pending[home[r]] \cup {r}) :
              /\ pending' = [pending EXCEPT ![home[r]] = (@ \cup {r}) \ L]
              /\ lost' = lost \cup L
        BY <2>3 DEF PutEnd
      <4> QED BY <4>1, <4>2
    <3> QED BY <2>3, <3>1 DEF PutEnd
  <2>4. ASSUME Send(r) PROVE TypeOK'
    <3>1. looper' \in Seq(TaskSet)
      BY <2>4, BroadcastType DEF Send
    <3> QED BY <2>4, <3>1 DEF Send
  <2> QED BY <1>4, <2>1, <2>2, <2>3, <2>4 DEF HttpThread
<1>5. ASSUME StartService PROVE TypeOK'
  <2>1. looper # <<>> /\ Tail(looper) \in Seq(TaskSet)
    BY <1>5 DEF StartService, Is
  <2>2. Broadcast(Tail(looper), StartedTask(Alive)) \in Seq(TaskSet)
    BY <2>1, StartedType
  <2>3. looper' \in Seq(TaskSet)
    BY <1>5, <2>1, <2>2 DEF StartService
  <2>4. PICK h \in Handler : registered' = registered \cup {h}
                             /\ \/ UNCHANGED service
                                \/ service' = [service EXCEPT ![h] = "running"]
                                \/ service' = [service EXCEPT ![h] = "failed"]
    BY <1>5 DEF StartService, Up
  <2> QED BY <1>5, <2>3, <2>4 DEF StartService, bridgeVars
<1>7. ASSUME NEW a \in Activity, DeliverStarted(a) PROVE TypeOK'
  <2>1. looper' \in Seq(TaskSet)
    BY <1>7, RestType DEF DeliverStarted, Is
  <2> QED BY <1>7, <2>1 DEF DeliverStarted, bridgeVars
<1>8. ASSUME NEW a \in Activity, DeliverRequest(a) PROVE TypeOK'
  <2>1. Rest(looper, a) \in Seq(TaskSet) /\ Head(looper).req \in Request
    BY <1>8, RestType, HeadTask DEF DeliverRequest, Is
  <2>2. Broadcast(Rest(looper, a), ResponseTask(Head(looper).req, registered)) \in Seq(TaskSet)
    BY <2>1, BroadcastType
  <2> QED BY <1>8, <2>1, <2>2 DEF DeliverRequest, bridgeVars
<1>9. ASSUME NEW h \in Handler, DeliverResponse(h) PROVE TypeOK'
  <2>1. Rest(looper, h) \in Seq(TaskSet) /\ Head(looper).req \in Request
    BY <1>9, RestType, HeadTask DEF DeliverResponse, Is
  <2>2. Append(Rest(looper, h), ResumeTask(Head(looper).req)) \in Seq(TaskSet)
    BY <2>1, TaskTypes
  <2> QED BY <1>9, <2>1, <2>2 DEF DeliverResponse, Putting, Remove
<1>10. ASSUME Resume PROVE TypeOK'
  BY <1>10, HeadTask DEF Resume, Is
<1>11. ASSUME NEW r \in Request, NEW a \in Activity, JsResult(r, a) PROVE TypeOK'
  <2>1. looper' \in Seq(TaskSet)
    BY <1>11, BroadcastType DEF JsResult
  <2> QED BY <1>11, <2>1 DEF JsResult, bridgeVars
<1>12. CASE UNCHANGED vars
  BY <1>12 DEF vars
<1> QED BY <1>1, <1>2, <1>3, <1>4, <1>5, <1>7, <1>8, <1>9, <1>10, <1>11,
           <1>12 DEF Next, LifeCycle, MainLooper

-----------------------------------------------------------------------------
(* Steps that keep what the looper owes.                                   *)

KeepsResumes(q, p) ==
  \A r \in Request : /\ NoResume(q, r) <=> NoResume(p, r)
                     /\ OneResume(q, r) => OneResume(p, r)

KeepsHas(q, p) ==
  \A r \in Request : /\ \A a \in Activity : Has(q, "request", r, a) => Has(p, "request", r, a)
                     /\ \A h \in Handler : Has(q, "response", r, h) => Has(p, "response", r, h)

Keeps(q, p) == KeepsResumes(q, p) /\ KeepsHas(q, p)

LEMMA AppendKeeps ==
  ASSUME NEW q \in Seq(TaskSet), NEW t \in TaskSet, t.kind # "resume"
  PROVE  Keeps(q, Append(q, t))
BY AppendHas, AppendResume DEF Keeps, KeepsResumes, KeepsHas

\* A queued broadcast disturbs nothing and is owed to each of its receivers.
LEMMA BroadcastKeeps ==
  ASSUME NEW q \in Seq(TaskSet), NEW t, t.to # {} => t \in TaskSet, t.kind # "resume"
  PROVE  /\ Keeps(q, Broadcast(q, t))
         /\ \A x \in t.to : Has(Broadcast(q, t), t.kind, t.req, x)
<1>1. CASE t.to = {}
  BY <1>1 DEF Broadcast, Keeps, KeepsResumes, KeepsHas
<1>2. CASE t.to # {}
  <2>1. Broadcast(q, t) = Append(q, t) /\ t \in TaskSet
    BY <1>2 DEF Broadcast
  <2>2. Keeps(q, Append(q, t))
    BY <2>1, AppendKeeps
  <2>3. \A x \in t.to : Has(Append(q, t), t.kind, t.req, x)
    BY <2>1, AppendHas
  <2> QED BY <2>1, <2>2, <2>3
<1> QED BY <1>1, <1>2

LEMMA TailKeeps ==
  ASSUME NEW q \in Seq(TaskSet), q # <<>>,
         Head(q).kind \notin {"request", "response", "resume"}
  PROVE  Keeps(q, Tail(q))
BY TailHas, TailResume DEF Keeps, KeepsResumes, KeepsHas

LEMMA KeepsTwice ==
  ASSUME NEW q, NEW p, NEW o, Keeps(q, p), Keeps(p, o)
  PROVE  Keeps(q, o)
BY DEF Keeps, KeepsResumes, KeepsHas

\* A step that leaves the calls and the maps alone, and keeps what is owed.
LEMMA QuietStep ==
  ASSUME IInv, TypeOK',
         UNCHANGED <<service, pending, call, home, sentTo, lost, kept, resumed>>,
         registered \subseteq registered',
         \A a \in Activity : activity'[a] # activity[a] =>
           \/ activity[a] = "absent"
           \/ activity'[a] = "destroyed",
         \A a \in Activity : activity[a] # "absent" => activity'[a] # "absent",
         KeepsResumes(looper, looper'),
         \A r \in Request : \A a \in Activity :
           /\ home[r] \in Handler /\ service[home[r]] = "running"
           /\ activity[a] = "alive" /\ activity'[a] = "alive"
           /\ Owed(r, a)
           => Owed(r, a)'
  PROVE  IInv'
<1> USE DEF IInv, TypeOK
<1>1. CallsToServices' /\ CallbacksAwaited' /\ Receivers'
  BY DEF CallsToServices, CallbacksAwaited, Receivers
<1>2. OneResumption' /\ KeptAnswered'
  BY DEF OneResumption, KeptAnswered, KeepsResumes
<1>3. Traced'
  <2> SUFFICES ASSUME NEW r \in Request, call[r] \in {"put", "waiting"},
                      r \notin lost, service[home[r]] = "running",
                      NoResume(looper', r)
               PROVE  /\ r \in pending[home[r]]
                      /\ call[r] = "waiting" =>
                           \A a \in sentTo[r] : activity'[a] = "alive" => Owed(r, a)'
    BY DEF Traced
  <2>1. NoResume(looper, r)
    BY DEF KeepsResumes
  <2>2. r \in pending[home[r]] /\ home[r] \in Handler
    BY <2>1 DEF Traced, CallsToServices
  <2>3. ASSUME NEW a \in sentTo[r], activity'[a] = "alive", call[r] = "waiting"
        PROVE  Owed(r, a)'
    <3>1. a \in Activity /\ activity[a] # "absent"
      BY DEF Receivers
    <3>2. activity[a] = "alive"
      BY <2>3, <3>1
    <3>3. Owed(r, a)
      BY <2>1, <2>3, <3>2 DEF Traced
    <3> QED BY <2>2, <2>3, <3>1, <3>2, <3>3
  <2> QED BY <2>2, <2>3
<1> QED BY <1>1, <1>2, <1>3

\* What a step that takes no task for a request off the looper keeps.
LEMMA KeepsOwed ==
  ASSUME Keeps(looper, looper'), evals \subseteq evals', UNCHANGED home,
         NEW r \in Request, NEW a \in Activity, home[r] \in Handler, Owed(r, a)
  PROVE  Owed(r, a)'
BY DEF Keeps, KeepsHas, Owed

-----------------------------------------------------------------------------
(* One lemma per action.                                                   *)

LEMMA CreateActivityStep ==
  ASSUME IInv, TypeOK', NEW a \in Activity, CreateActivity(a)
  PROVE  IInv'
<1> USE DEF IInv, TypeOK
<1>1. Keeps(looper, looper')
  <2>1. StartTask \in TaskSet /\ StartTask.kind # "resume"
    BY TaskTypes DEF StartTask, Task
  <2> QED BY <2>1, AppendKeeps DEF CreateActivity
<1>2. UNCHANGED <<service, registered, pending, call, home, sentTo, lost, kept, resumed, evals>>
  BY DEF CreateActivity, bridgeVars
<1>3. \A b \in Activity : activity'[b] = IF b = a THEN "alive" ELSE activity[b]
  BY DEF CreateActivity
<1>4. activity[a] = "absent"
  BY DEF CreateActivity
<1>5. \A r \in Request : \A b \in Activity : home[r] \in Handler /\ Owed(r, b) => Owed(r, b)'
  BY <1>1, <1>2, KeepsOwed
<1> QED BY <1>1, <1>2, <1>3, <1>4, <1>5, QuietStep DEF Keeps

LEMMA DestroyActivityStep ==
  ASSUME IInv, TypeOK', NEW a \in Activity, DestroyActivity(a)
  PROVE  IInv'
<1> USE DEF IInv, TypeOK
<1>1. UNCHANGED <<service, registered, pending, call, home, sentTo, lost, kept, resumed,
                  evals, looper>>
  BY DEF DestroyActivity, bridgeVars
<1>2. \A b \in Activity : activity'[b] = IF b = a THEN "destroyed" ELSE activity[b]
  BY DEF DestroyActivity
<1>3. \A r \in Request : \A b \in Activity : Owed(r, b) => Owed(r, b)'
  BY <1>1 DEF Owed
<1>4. KeepsResumes(looper, looper')
  BY <1>1 DEF KeepsResumes
<1> QED BY <1>1, <1>2, <1>3, <1>4, QuietStep

\* Handling a task that is neither a request, a response nor a resumption.
LEMMA RestKeeps ==
  ASSUME NEW q \in Seq(TaskSet), q # <<>>, NEW x,
         Head(q).kind \notin {"request", "response", "resume"}
  PROVE  Keeps(q, Rest(q, x))
BY RestHas, RestResume DEF Keeps, KeepsResumes, KeepsHas

LEMMA DeliverStartedStep ==
  ASSUME IInv, TypeOK', NEW a \in Activity, DeliverStarted(a)
  PROVE  IInv'
<1> USE DEF IInv, TypeOK
<1>1. Keeps(looper, looper')
  BY RestKeeps DEF DeliverStarted, Is
<1>2. UNCHANGED <<activity, service, registered, pending, call, home, sentTo, lost, kept,
                  resumed, evals>>
  BY DEF DeliverStarted, bridgeVars
<1>3. \A r \in Request : \A b \in Activity : home[r] \in Handler /\ Owed(r, b) => Owed(r, b)'
  BY <1>1, <1>2, KeepsOwed
<1> QED BY <1>1, <1>2, <1>3, QuietStep DEF Keeps

\* A response queued for every registered handler.
LEMMA ReplyKeeps ==
  ASSUME NEW q \in Seq(TaskSet), NEW r \in Request, NEW H \in SUBSET Handler
  PROVE  /\ Keeps(q, Broadcast(q, ResponseTask(r, H)))
         /\ \A h \in H : Has(Broadcast(q, ResponseTask(r, H)), "response", r, h)
<1> DEFINE t == ResponseTask(r, H)
<1>1. t.kind = "response" /\ t.req = r /\ t.to = H
  BY DEF ResponseTask, Task
<1>2. t.to # {} => t \in TaskSet
  BY <1>1, TaskTypes DEF Some
<1>3. t.kind # "resume"
  BY <1>1
<1> HIDE DEF t
<1>4. Keeps(q, Broadcast(q, t)) /\ \A x \in t.to : Has(Broadcast(q, t), t.kind, t.req, x)
  BY <1>2, <1>3, BroadcastKeeps
<1> QED BY <1>1, <1>4 DEF t

LEMMA JsResultStep ==
  ASSUME IInv, TypeOK', NEW r \in Request, NEW a \in Activity, JsResult(r, a)
  PROVE  IInv'
<1> USE DEF IInv, TypeOK
<1>1. /\ Keeps(looper, looper')
      /\ \A h \in registered : Has(looper', "response", r, h)
  BY ReplyKeeps DEF JsResult
<1>2. /\ UNCHANGED <<activity, service, registered, pending, call, home, sentTo, lost, kept,
                     resumed>>
      /\ evals' = evals \ {<<r, a>>}
  BY DEF JsResult, bridgeVars
<1>3. ASSUME NEW s \in Request, NEW b \in Activity, home[s] \in Handler,
             service[home[s]] = "running", Owed(s, b)
      PROVE  Owed(s, b)'
  <2>1. home[s] \in registered
    BY <1>3 DEF Receivers
  <2>2. <<s, b>> \in evals => <<s, b>> \in evals' \/ s = r
    BY <1>2
  <2> QED BY <1>1, <1>2, <1>3, <2>1, <2>2 DEF Owed, Keeps, KeepsHas
<1> QED BY <1>1, <1>2, <1>3, QuietStep DEF Keeps

LEMMA DeliverRequestStep ==
  ASSUME IInv, TypeOK', NEW a \in Activity, DeliverRequest(a)
  PROVE  IInv'
<1> USE DEF IInv, TypeOK
<1> DEFINE r == Head(looper).req
           q == Rest(looper, a)
<1>1. looper # <<>> /\ Head(looper).kind = "request" /\ a \in Head(looper).to /\ r \in Request
  BY HeadTask DEF DeliverRequest, Is
<1>2. UNCHANGED <<activity, service, registered, pending, call, home, sentTo, lost, kept,
                  resumed>>
  BY DEF DeliverRequest, bridgeVars
<1>3. q \in Seq(TaskSet)
  BY <1>1, RestType
<1>4. KeepsResumes(looper, q)
  BY <1>1, RestResume DEF KeepsResumes
<1>5. \A s \in Request : \A b \in Activity :
        Has(looper, "request", s, b) => Has(q, "request", s, b) \/ (s = r /\ b = a)
  BY <1>1, RestHas
<1>6. \A s \in Request : \A h \in Handler :
        Has(looper, "response", s, h) => Has(q, "response", s, h)
  BY <1>1, RestHas
<1>7. \/ activity[a] # "alive" /\ looper' = q /\ evals' = evals
      \/ activity[a] = "alive" /\ looper' = q /\ evals' = evals \cup {<<r, a>>}
      \/ looper' = Broadcast(q, ResponseTask(r, registered)) /\ evals' = evals
  BY DEF DeliverRequest
<1> HIDE DEF q, r
<1>8. CASE looper' = q /\ (activity[a] # "alive" \/ <<r, a>> \in evals') /\ evals \subseteq evals'
  <2>1. ASSUME NEW s \in Request, NEW b \in Activity, home[s] \in Handler,
               activity[b] = "alive", Owed(s, b)
        PROVE  Owed(s, b)'
    BY <1>2, <1>5, <1>6, <1>8, <2>1 DEF Owed
  <2> QED BY <1>2, <1>4, <1>8, <2>1, QuietStep
<1>9. CASE looper' = Broadcast(q, ResponseTask(r, registered)) /\ evals' = evals
  <2>1. Keeps(q, looper') /\ \A h \in registered : Has(looper', "response", r, h)
    BY <1>1, <1>3, <1>9, ReplyKeeps
  <2>2. KeepsResumes(looper, looper')
    BY <1>4, <2>1 DEF Keeps, KeepsResumes
  <2>3. ASSUME NEW s \in Request, NEW b \in Activity, home[s] \in Handler,
               service[home[s]] = "running", Owed(s, b)
        PROVE  Owed(s, b)'
    <3>1. home[s] \in registered
      BY <2>3 DEF Receivers
    <3>2. CASE Has(looper, "request", s, b)
      BY <1>2, <1>5, <2>1, <3>1, <3>2 DEF Owed, Keeps, KeepsHas
    <3>3. CASE Has(looper, "response", s, home[s])
      BY <1>2, <1>6, <2>1, <2>3, <3>3 DEF Owed, Keeps, KeepsHas
    <3> QED BY <1>9, <2>3, <3>2, <3>3 DEF Owed
  <2> QED BY <1>2, <2>2, <2>3, QuietStep
<1> QED BY <1>7, <1>8, <1>9

LEMMA StartServiceStep ==
  ASSUME IInv, TypeOK', StartService
  PROVE  IInv'
<1> USE DEF IInv, TypeOK
<1>1. looper # <<>> /\ Head(looper).kind = "start"
  BY DEF StartService, Is
<1>2. PICK h \in Handler :
        /\ service[h] \in {"running", "failed", "absent"}
        /\ registered' = registered \cup {h}
        /\ \/ looper' = Tail(looper) /\ UNCHANGED service
           \/ /\ service[h] # "running"
              /\ service' = [service EXCEPT ![h] = "running"]
              /\ looper' = Broadcast(Tail(looper), StartedTask(Alive))
           \/ /\ service[h] # "running"
              /\ service' = [service EXCEPT ![h] = "failed"]
              /\ looper' = Tail(looper)
  BY DEF StartService, Up
<1>3. UNCHANGED <<activity, pending, call, home, sentTo, lost, kept, resumed, evals>>
  BY DEF StartService, bridgeVars
<1>4. Keeps(looper, looper')
  <2>1. Keeps(looper, Tail(looper)) /\ Tail(looper) \in Seq(TaskSet)
    <3>1. Head(looper).kind \notin {"request", "response", "resume"}
      BY <1>1
    <3>2. Tail(looper) \in Seq(TaskSet)
      BY <1>1, HeadTask
    <3> QED BY <1>1, <3>1, <3>2, TailKeeps
  <2>2. /\ StartedTask(Alive).to = Alive /\ StartedTask(Alive).kind = "started"
        /\ Alive # {} => StartedTask(Alive) \in TaskSet
    BY TaskTypes DEF StartedTask, Task, Alive, Some
  <2>3. Keeps(Tail(looper), Broadcast(Tail(looper), StartedTask(Alive)))
    BY <2>1, <2>2, BroadcastKeeps
  <2> QED BY <1>2, <2>1, <2>3, KeepsTwice
\* No call was made to a service that starts.
<1>5. \A r \in Request : call[r] # "new" =>
        home[r] \in Handler /\ service'[home[r]] = service[home[r]]
  BY <1>2 DEF CallsToServices
<1>6. CallsToServices' /\ CallbacksAwaited'
  BY <1>3, <1>5 DEF CallsToServices, CallbacksAwaited
<1>7. OneResumption' /\ KeptAnswered'
  BY <1>3, <1>4 DEF OneResumption, KeptAnswered, Keeps, KeepsResumes
<1>8. Receivers'
  BY <1>2, <1>3 DEF Receivers
<1>9. Traced'
  <2>1. \A r \in Request : \A b \in Activity : home[r] \in Handler /\ Owed(r, b) => Owed(r, b)'
    BY <1>3, <1>4, KeepsOwed
  <2> QED BY <1>3, <1>4, <1>5, <2>1 DEF Traced, Keeps, KeepsResumes
<1> QED BY <1>6, <1>7, <1>8, <1>9

LEMMA DestroyServiceStep ==
  ASSUME IInv, TypeOK', NEW h \in Handler, DestroyService(h)
  PROVE  IInv'
<1> USE DEF IInv, TypeOK
<1>1. /\ service' = [service EXCEPT ![h] = "destroyed"]
      /\ \A g \in Handler : pending'[g] \subseteq pending[g] /\ (g # h => pending'[g] = pending[g])
      /\ UNCHANGED <<activity, registered, call, home, sentTo, lost, kept, resumed, evals, looper>>
  BY DEF DestroyService, Unregister
<1>2. CallsToServices' /\ CallbacksAwaited' /\ Receivers'
  BY <1>1 DEF CallsToServices, CallbacksAwaited, Receivers
<1>3. OneResumption' /\ KeptAnswered'
  BY <1>1 DEF OneResumption, KeptAnswered
<1>4. Traced'
  BY <1>1 DEF Traced, Owed, CallsToServices
<1> QED BY <1>2, <1>3, <1>4

LEMMA CallHealthStep ==
  ASSUME IInv, TypeOK', NEW r \in Request, NEW h \in Handler, CallHealth(r, h)
  PROVE  IInv'
<1> USE DEF IInv, TypeOK
<1>1. /\ service[h] = "running" /\ call[r] = "new"
      /\ call' = [call EXCEPT ![r] = "returned"]
      /\ home' = [home EXCEPT ![r] = h]
      /\ UNCHANGED <<activity, service, registered, pending, sentTo, lost, kept, evals,
                     resumed, looper>>
  BY DEF CallHealth
<1>2. r \notin kept /\ \A g \in Handler : r \notin pending[g]
  BY <1>1 DEF CallbacksAwaited, KeptAnswered
<1>3. CallsToServices' /\ CallbacksAwaited' /\ Receivers'
  BY <1>1, <1>2 DEF CallsToServices, CallbacksAwaited, Receivers
<1>4. OneResumption' /\ KeptAnswered'
  BY <1>1, <1>2 DEF OneResumption, KeptAnswered
<1>5. Traced'
  BY <1>1 DEF Traced, Owed
<1> QED BY <1>3, <1>4, <1>5

LEMMA PutBeginStep ==
  ASSUME IInv, TypeOK', NEW r \in Request, NEW h \in Handler, PutBegin(r, h)
  PROVE  IInv'
<1> USE DEF IInv, TypeOK
<1>1. /\ service[h] = "running" /\ call[r] = "new"
      /\ call' = [call EXCEPT ![r] = "putting"]
      /\ home' = [home EXCEPT ![r] = h]
      /\ UNCHANGED <<activity, service, registered, pending, sentTo, lost, kept, evals,
                     resumed, looper>>
  BY DEF PutBegin
<1>2. r \notin kept /\ \A g \in Handler : r \notin pending[g]
  BY <1>1 DEF CallbacksAwaited, KeptAnswered
<1>3. CallsToServices' /\ CallbacksAwaited' /\ Receivers'
  BY <1>1, <1>2 DEF CallsToServices, CallbacksAwaited, Receivers
<1>4. OneResumption' /\ KeptAnswered'
  BY <1>1, <1>2 DEF OneResumption, KeptAnswered
<1>5. Traced'
  BY <1>1 DEF Traced, Owed
<1> QED BY <1>3, <1>4, <1>5

LEMMA PutEndStep ==
  ASSUME IInv, TypeOK', NEW r \in Request, PutEnd(r)
  PROVE  IInv'
<1> USE DEF IInv, TypeOK
<1> DEFINE h == home[r]
<1>1. /\ call[r] = "putting" /\ h \in Handler
      /\ call' = [call EXCEPT ![r] = "put"]
      /\ UNCHANGED <<activity, service, registered, home, sentTo, kept, evals, resumed, looper>>
  BY DEF PutEnd, CallsToServices
<1>2. PICK L \in SUBSET (pending[h] \cup {r}) :
        /\ pending' = [pending EXCEPT ![h] = (@ \cup {r}) \ L]
        /\ lost' = lost \cup L
  BY DEF PutEnd
<1> HIDE DEF h
<1>3. \A s \in Request : call'[s] = IF s = r THEN "put" ELSE call[s]
  BY <1>1
<1>4. \A g \in Handler : pending'[g] = IF g = h THEN (pending[g] \cup {r}) \ L ELSE pending[g]
  BY <1>1, <1>2
<1>5. home[r] = h
  BY DEF h
<1>6. CallsToServices' /\ CallbacksAwaited' /\ Receivers'
  <2>1. CallsToServices'
    BY <1>1, <1>3 DEF CallsToServices
  <2>2. ASSUME NEW g \in Handler, NEW s \in pending'[g]
        PROVE  home[s] = g /\ (s \notin kept => call'[s] \in {"put", "waiting"})
    <3>1. s \in Request /\ (s \in pending[g] \/ (s = r /\ g = h))
      BY <1>1, <1>4, <2>2
    <3> QED BY <1>3, <1>5, <3>1 DEF CallbacksAwaited
  <2>3. CallbacksAwaited'
    BY <1>1, <2>2 DEF CallbacksAwaited
  <2>4. Receivers'
    BY <1>1 DEF Receivers
  <2> QED BY <2>1, <2>3, <2>4
<1>7. r \notin kept /\ resumed[r] = 0 /\ NoResume(looper, r)
  BY <1>1 DEF OneResumption, KeptAnswered
<1>8. OneResumption' /\ KeptAnswered'
  <2>1. OneResumption'
    BY <1>1, <1>3, <1>4, <1>7 DEF OneResumption
  <2>2. KeptAnswered'
    BY <1>1, <1>3, <1>7 DEF KeptAnswered
  <2> QED BY <2>1, <2>2
<1>9. Traced'
  <2> SUFFICES ASSUME NEW s \in Request, call'[s] \in {"put", "waiting"}, s \notin lost',
                      service[home[s]] = "running", NoResume(looper, s)
               PROVE  /\ s \in pending'[home[s]]
                      /\ call'[s] = "waiting" =>
                           \A a \in sentTo[s] : activity[a] = "alive" => Owed(s, a)'
    BY <1>1 DEF Traced
  <2>1. \A a : Owed(s, a)' <=> Owed(s, a)
    BY <1>1 DEF Owed
  <2>2. CASE s = r
    BY <1>2, <1>3, <1>4, <1>5, <1>1, <2>2
  <2>3. CASE s # r
    <3>1. s \in pending[home[s]] /\ home[s] \in Handler /\ s \notin L
      BY <1>2, <1>3, <2>3 DEF Traced, CallsToServices
    <3> QED BY <1>3, <1>4, <2>1, <2>3, <3>1, <1>2 DEF Traced
  <2> QED BY <2>2, <2>3
<1> QED BY <1>6, <1>8, <1>9

LEMMA SendStep ==
  ASSUME IInv, TypeOK', NEW r \in Request, Send(r)
  PROVE  IInv'
<1> USE DEF IInv, TypeOK
<1> DEFINE t == RequestTask(r, Alive)
<1>1. /\ call[r] = "put"
      /\ call' = [call EXCEPT ![r] = "waiting"]
      /\ sentTo' = [sentTo EXCEPT ![r] = Alive]
      /\ looper' = Broadcast(looper, t)
      /\ UNCHANGED <<activity, service, registered, pending, home, lost, kept, evals, resumed>>
  BY DEF Send
<1>2. t.kind = "request" /\ t.req = r /\ t.to = Alive /\ (Alive # {} => t \in TaskSet)
  BY TaskTypes DEF RequestTask, Task, Alive, Some
<1> HIDE DEF t
<1>3. Keeps(looper, looper') /\ \A a \in Alive : Has(looper', "request", r, a)
  BY <1>1, <1>2, BroadcastKeeps
<1>4. CallsToServices' /\ CallbacksAwaited'
  BY <1>1 DEF CallsToServices, CallbacksAwaited
<1>5. Receivers'
  BY <1>1 DEF Receivers, Alive
<1>6. OneResumption' /\ KeptAnswered'
  BY <1>1, <1>3 DEF OneResumption, KeptAnswered, Keeps, KeepsResumes
<1>7. Traced'
  <2> SUFFICES ASSUME NEW s \in Request, call'[s] \in {"put", "waiting"}, s \notin lost,
                      service[home[s]] = "running", NoResume(looper', s)
               PROVE  /\ s \in pending[home[s]]
                      /\ call'[s] = "waiting" =>
                           \A a \in sentTo'[s] : activity[a] = "alive" => Owed(s, a)'
    BY <1>1 DEF Traced
  <2>1. call[s] \in {"put", "waiting"} /\ NoResume(looper, s)
    BY <1>1, <1>3 DEF Keeps, KeepsResumes
  <2>2. s \in pending[home[s]] /\ home[s] \in Handler
    BY <2>1 DEF Traced, CallsToServices
  <2>3. CASE s = r
    BY <1>1, <1>3, <2>2, <2>3 DEF Owed
  <2>4. CASE s # r
    <3>1. \A a \in Activity : Owed(s, a) => Owed(s, a)'
      BY <1>1, <1>3, <2>2 DEF Owed, Keeps, KeepsHas
    <3> QED BY <1>1, <2>1, <2>2, <2>4, <3>1 DEF Traced
  <2> QED BY <2>3, <2>4
<1> QED BY <1>4, <1>5, <1>6, <1>7

LEMMA DeliverResponseStep ==
  ASSUME IInv, TypeOK', NEW h \in Handler, DeliverResponse(h)
  PROVE  IInv'
<1> USE DEF IInv, TypeOK
<1> DEFINE r == Head(looper).req
           q == Rest(looper, h)
<1>1. /\ looper # <<>> /\ Head(looper).kind = "response" /\ h \in Head(looper).to
      /\ r \in Request
  BY HeadTask DEF DeliverResponse, Is
<1>2. UNCHANGED <<activity, service, registered, call, home, sentTo, evals, resumed>>
  BY DEF DeliverResponse
<1>3. q \in Seq(TaskSet)
  BY <1>1, RestType
<1>4. KeepsResumes(looper, q)
  BY <1>1, RestResume DEF KeepsResumes
<1>5. \A s \in Request : \A b \in Activity :
        Has(looper, "request", s, b) => Has(q, "request", s, b)
  BY <1>1, RestHas
<1>6. \A s \in Request : \A g \in Handler :
        Has(looper, "response", s, g) => Has(q, "response", s, g) \/ (s = r /\ g = h)
  BY <1>1, RestHas
<1>7. \/ /\ r \in pending[h]
         /\ \/ pending' = [pending EXCEPT ![h] = @ \ {r}] /\ kept' = kept
            \/ pending' = pending /\ kept' = kept \cup {r}
         /\ looper' = Append(q, ResumeTask(r))
         /\ lost' = lost
      \/ /\ looper' = q /\ pending' = pending /\ kept' = kept /\ lost \subseteq lost'
         /\ r \in pending[h] => r \in lost'
  BY DEF DeliverResponse, Remove
<1> HIDE DEF q, r
<1>8. CallsToServices' /\ Receivers'
  BY <1>2 DEF CallsToServices, Receivers
\* The callback is found: the call's one resumption is queued.
<1>9. CASE /\ r \in pending[h]
           /\ \/ pending' = [pending EXCEPT ![h] = @ \ {r}] /\ kept' = kept
              \/ pending' = pending /\ kept' = kept \cup {r}
           /\ looper' = Append(q, ResumeTask(r))
           /\ lost' = lost
  <2>12. \/ /\ kept' = kept \cup {r}
            /\ \A g \in Handler : pending'[g] = pending[g]
         \/ /\ kept' = kept
            /\ \A g \in Handler :
                 pending'[g] = IF g = h THEN pending[g] \ {r} ELSE pending[g]
    BY <1>9
  <2>1. /\ ResumeTask(r) \in TaskSet /\ ResumeTask(r).kind = "resume" /\ ResumeTask(r).req = r
    BY <1>1, TaskTypes DEF ResumeTask, Task
  <2>2. /\ home[r] = h /\ call[r] \notin {"new", "putting"}
        /\ \A g \in Handler : r \in pending[g] => g = h
    <3>1. r \in pending[h]
      BY <1>9
    <3>2. home[r] = h /\ (r \notin kept => call[r] \in {"put", "waiting"})
      BY <3>1 DEF CallbacksAwaited
    <3>3. r \in kept => call[r] \notin {"new", "putting"}
      BY DEF KeptAnswered
    <3>4. \A g \in Handler : r \in pending[g] => home[r] = g
      BY DEF CallbacksAwaited
    <3> QED BY <3>2, <3>3, <3>4
  <2>3. r \notin kept => resumed[r] = 0 /\ NoResume(looper, r)
    BY <1>1, <1>9 DEF OneResumption
  <2>4. /\ ~NoResume(looper', r)
        /\ r \notin kept => OneResume(looper', r)
    BY <1>1, <1>3, <1>4, <1>9, <2>1, <2>3, AppendResume DEF KeepsResumes
  <2>5. ASSUME NEW s \in Request, s # r
        PROVE  /\ NoResume(looper, s) <=> NoResume(looper', s)
               /\ OneResume(looper, s) => OneResume(looper', s)
    BY <1>3, <1>4, <1>9, <2>1, <2>5, AppendResume DEF KeepsResumes
  <2>6. CallbacksAwaited'
    BY <1>2, <2>12 DEF CallbacksAwaited
  <2>7. /\ \A g \in Handler : pending'[g] \subseteq pending[g]
        /\ kept \subseteq kept' /\ kept' \subseteq kept \cup {r}
        /\ r \in kept' \/ \A g \in Handler : r \notin pending'[g]
    BY <2>2, <2>12
  <2>8. OneResumption'
    BY <1>2, <2>2, <2>3, <2>4, <2>5, <2>7 DEF OneResumption
  <2>11. KeptAnswered'
    BY <1>2, <2>2, <2>4, <2>5, <2>7 DEF KeptAnswered
  <2>9. ASSUME NEW s \in Request, s # r, NEW b \in Activity, home[s] \in Handler, Owed(s, b)
        PROVE  Owed(s, b)'
    <3>1. \/ Has(q, "request", s, b) \/ <<s, b>> \in evals \/ Has(q, "response", s, home[s])
      BY <1>5, <1>6, <2>9 DEF Owed
    <3> QED BY <1>2, <1>3, <1>9, <2>1, <3>1, AppendHas DEF Owed
  <2>10. Traced'
    <3> SUFFICES ASSUME NEW s \in Request, call[s] \in {"put", "waiting"}, s \notin lost,
                        service[home[s]] = "running", NoResume(looper', s)
                 PROVE  /\ s \in pending'[home[s]]
                        /\ call[s] = "waiting" =>
                             \A a \in sentTo[s] : activity[a] = "alive" => Owed(s, a)'
      BY <1>2, <1>9 DEF Traced
    <3>1. s # r
      BY <2>4
    <3>2. s \in pending[home[s]] /\ home[s] \in Handler
      BY <2>5, <3>1 DEF Traced, CallsToServices
    <3>3. s \in pending'[home[s]]
      BY <2>12, <3>1, <3>2
    <3> QED BY <2>5, <2>9, <3>1, <3>2, <3>3 DEF Traced
  <2> QED BY <1>8, <2>6, <2>8, <2>10, <2>11
\* It is not: the reply is dropped.
<1>10. CASE /\ looper' = q /\ pending' = pending /\ kept' = kept /\ lost \subseteq lost'
            /\ r \in pending[h] => r \in lost'
  <2>1. CallbacksAwaited' /\ OneResumption' /\ KeptAnswered'
    BY <1>2, <1>4, <1>10 DEF CallbacksAwaited, OneResumption, KeptAnswered, KeepsResumes
  <2>2. Traced'
    <3> SUFFICES ASSUME NEW s \in Request, call[s] \in {"put", "waiting"}, s \notin lost',
                        service[home[s]] = "running", NoResume(looper', s)
                 PROVE  /\ s \in pending[home[s]]
                        /\ call[s] = "waiting" =>
                             \A a \in sentTo[s] : activity[a] = "alive" => Owed(s, a)'
      BY <1>2, <1>10 DEF Traced
    <3>1. NoResume(looper, s) /\ s \notin lost
      BY <1>4, <1>10 DEF KeepsResumes
    <3>2. s \in pending[home[s]] /\ home[s] \in Handler
      BY <3>1 DEF Traced, CallsToServices
    <3>3. ~(s = r /\ home[s] = h)
      BY <1>10, <3>2
    <3>4. \A a \in Activity : Owed(s, a) => Owed(s, a)'
      BY <1>2, <1>5, <1>6, <1>10, <3>2, <3>3 DEF Owed
    <3> QED BY <3>1, <3>2, <3>4 DEF Traced
  <2> QED BY <1>8, <2>1, <2>2
<1> QED BY <1>7, <1>9, <1>10

LEMMA ResumeStep ==
  ASSUME IInv, TypeOK', Resume
  PROVE  IInv'
<1> USE DEF IInv, TypeOK
<1> DEFINE r == Head(looper).req
<1>1. looper # <<>> /\ Head(looper).kind = "resume" /\ r \in Request
  BY HeadTask DEF Resume, Is
<1>2. /\ resumed' = [resumed EXCEPT ![r] = @ + 1]
      /\ call' = [call EXCEPT ![r] = "returned"]
      /\ looper' = Tail(looper)
      /\ UNCHANGED <<activity, service, registered, pending, home, sentTo, lost, kept, evals>>
  BY DEF Resume
<1>3. ~NoResume(looper, r) /\ (OneResume(looper, r) => NoResume(looper', r))
  BY <1>1, <1>2, TailResume
<1>4. ASSUME NEW s \in Request, s # r
      PROVE  /\ NoResume(looper, s) <=> NoResume(looper', s)
             /\ OneResume(looper, s) => OneResume(looper', s)
  BY <1>1, <1>2, <1>4, TailResume
<1>5. \A s \in Request : \A b \in Activity :
        Has(looper, "request", s, b) => Has(looper', "request", s, b)
  BY <1>1, <1>2, TailHas
<1>6. \A s \in Request : \A g \in Handler :
        Has(looper, "response", s, g) => Has(looper', "response", s, g)
  BY <1>1, <1>2, TailHas
<1> HIDE DEF r
<1>7. /\ call[r] \notin {"new", "putting"}
      /\ r \notin kept => /\ resumed[r] = 0 /\ OneResume(looper, r)
                          /\ \A g \in Handler : r \notin pending[g]
  BY <1>1, <1>3 DEF OneResumption, KeptAnswered
<1>8. CallsToServices' /\ CallbacksAwaited' /\ Receivers'
  BY <1>1, <1>2, <1>7 DEF CallsToServices, CallbacksAwaited, Receivers
<1>9. OneResumption'
  <2>1. r \notin kept => resumed'[r] = 1 /\ NoResume(looper', r) /\ call'[r] = "returned"
    BY <1>1, <1>2, <1>3, <1>7
  <2>2. \A s \in Request : s # r => resumed'[s] = resumed[s] /\ call'[s] = call[s]
    BY <1>2
  <2> QED BY <1>2, <1>4, <1>7, <2>1, <2>2 DEF OneResumption
<1>10. Traced'
  <2> SUFFICES ASSUME NEW s \in Request, call'[s] \in {"put", "waiting"}, s \notin lost,
                      service[home[s]] = "running", NoResume(looper', s)
               PROVE  /\ s \in pending[home[s]]
                      /\ call'[s] = "waiting" =>
                           \A a \in sentTo[s] : activity[a] = "alive" => Owed(s, a)'
    BY <1>2 DEF Traced
  <2>1. s # r /\ call'[s] = call[s]
    BY <1>1, <1>2
  <2>2. NoResume(looper, s)
    BY <1>4, <2>1
  <2>3. s \in pending[home[s]] /\ home[s] \in Handler
    BY <2>1, <2>2 DEF Traced, CallsToServices
  <2>4. \A a \in Activity : Owed(s, a) => Owed(s, a)'
    BY <1>2, <1>5, <1>6, <2>3 DEF Owed
  <2> QED BY <2>1, <2>2, <2>3, <2>4 DEF Traced
<1>11. KeptAnswered'
  BY <1>1, <1>2, <1>4 DEF KeptAnswered
<1> QED BY <1>8, <1>9, <1>10, <1>11

-----------------------------------------------------------------------------
(* The theorems.                                                           *)

LEMMA IInvInit == Init => IInv
<1> SUFFICES ASSUME Init PROVE IInv
  OBVIOUS
<1> USE DEF Init
<1>1. TypeOK
  BY DEF TypeOK
<1>2. CallsToServices /\ CallbacksAwaited /\ Receivers /\ Traced /\ KeptAnswered
  BY DEF CallsToServices, CallbacksAwaited, Receivers, Traced, KeptAnswered
<1>3. OneResumption
  <2>1. Len(looper) = 0
    OBVIOUS
  <2>2. \A r \in Request : NoResume(looper, r)
    BY <2>1 DEF NoResume
  <2>3. \A r \in Request : resumed[r] = 0
    OBVIOUS
  <2> QED BY <2>2, <2>3 DEF OneResumption
<1> QED BY <1>1, <1>2, <1>3 DEF IInv

LEMMA IInvStep == IInv /\ [Next]_vars => IInv'
<1> SUFFICES ASSUME IInv, [Next]_vars PROVE IInv'
  OBVIOUS
<1>1. TypeOK'
  BY TypeStep DEF IInv
<1>2. CASE LifeCycle
  BY <1>1, <1>2, CreateActivityStep, DestroyActivityStep, DestroyServiceStep DEF LifeCycle
<1>3. ASSUME NEW r \in Request, HttpThread(r) PROVE IInv'
  BY <1>1, <1>3, CallHealthStep, PutBeginStep, PutEndStep, SendStep DEF HttpThread
<1>4. CASE MainLooper
  BY <1>1, <1>4, StartServiceStep, DeliverStartedStep, DeliverRequestStep,
     DeliverResponseStep, ResumeStep DEF MainLooper
<1>5. ASSUME NEW r \in Request, NEW a \in Activity, JsResult(r, a) PROVE IInv'
  BY <1>1, <1>5, JsResultStep
<1>6. CASE UNCHANGED vars
  <2>1. /\ UNCHANGED <<service, pending, call, home, sentTo, lost, kept, resumed, registered,
                       activity, looper, evals>>
    BY <1>6 DEF vars
  <2>2. KeepsResumes(looper, looper')
    BY <2>1 DEF KeepsResumes
  <2>3. \A r \in Request : \A a \in Activity : Owed(r, a) => Owed(r, a)'
    BY <2>1 DEF Owed
  <2> QED BY <1>1, <2>1, <2>2, <2>3, QuietStep
<1> QED BY <1>2, <1>3, <1>4, <1>5, <1>6 DEF Next

THEOREM Invariance == Spec => []IInv
<1>1. Init => IInv
  BY IInvInit
<1>2. IInv /\ [Next]_vars => IInv'
  BY IInvStep
<1> QED BY <1>1, <1>2, PTL DEF Spec

\* The state of the bridge has its types, whatever the number of requests,
\* services and activities.
THEOREM TypeCorrect == Spec => []TypeOK
<1>1. IInv => TypeOK
  BY DEF IInv
<1> QED BY <1>1, Invariance, PTL

\* No continuation is resumed twice, unless the put of another call restored
\* the entry of its callback while the callback was being removed.
THEOREM ResumptionSafe == Spec => []ResumedAtMostOnce
<1>1. IInv => ResumedAtMostOnce
  <2> SUFFICES ASSUME IInv, NEW r \in Request \ kept
               PROVE  /\ resumed[r] <= 1
                      /\ Queued("resume", r) # {} => resumed[r] = 0
                      /\ \A i, j \in Queued("resume", r) : i = j
                      /\ (\E h \in Handler : r \in pending[h]) =>
                           resumed[r] = 0 /\ Queued("resume", r) = {}
    BY DEF ResumedAtMostOnce
  <2>1. DOMAIN looper = 1..Len(looper)
    BY DEF IInv, TypeOK
  <2>2. NoResume(looper, r) => Queued("resume", r) = {}
    BY <2>1 DEF NoResume, Queued
  <2>3. OneResume(looper, r) => \A i, j \in Queued("resume", r) : i = j
    BY <2>1 DEF OneResume, Queued
  <2> QED BY <2>2, <2>3 DEF IInv, OneResumption
<1> QED BY <1>1, Invariance, PTL

\* A map holds the callbacks of calls that wait, and of answered calls whose
\* entry a race kept, and no others.
THEOREM CallbacksSafe == Spec => []CallbacksAwaited
<1>1. IInv => CallbacksAwaited
  BY DEF IInv
<1> QED BY <1>1, Invariance, PTL

\* A waiting call is not forgotten while its service and an activity it was
\* sent to live and the map has not lost it.
THEOREM NothingForgotten == Spec => []NotForgotten
<1>1. IInv => NotForgotten
  <2> SUFFICES ASSUME IInv, NEW r \in Request, call[r] = "waiting", r \notin lost,
                      service[home[r]] = "running", NEW a \in sentTo[r] \cap Alive
               PROVE  InFlight(r)
    BY DEF NotForgotten
  <2>1. DOMAIN looper = 1..Len(looper) /\ a \in Alive /\ activity[a] = "alive"
    BY DEF IInv, TypeOK, Alive
  <2>2. ~NoResume(looper, r) => Queued("resume", r) # {}
    BY <2>1 DEF NoResume, Queued
  <2>3. \A x : Has(looper, "request", r, x) => Queued("request", r) # {}
    BY <2>1 DEF Has, Queued
  <2>4. \A x : Has(looper, "response", r, x) => Queued("response", r) # {}
    BY <2>1 DEF Has, Queued
  <2>5. ~NoResume(looper, r) \/ Owed(r, a)
    BY <2>1 DEF IInv, Traced
  <2> QED BY <2>1, <2>2, <2>3, <2>4, <2>5 DEF InFlight, Owed
<1> QED BY <1>1, Invariance, PTL

-----------------------------------------------------------------------------
(* Induction: a set of natural numbers has a least one.                    *)

LEMMA LeastExists ==
  ASSUME NEW T \in SUBSET Nat, T # {}
  PROVE  \E m \in T : \A k \in T : m <= k
<1> DEFINE R == OpToRel(<, Nat)
<1>1. IsWellFoundedOn(R, Nat)
  BY NatLessThanWellFounded
<1>2. R = {ss \in Nat \X Nat : ss[1] < ss[2]}
  BY DEF OpToRel
<1> HIDE DEF R
<1>3. PICK m \in T : \A k \in T : ~(<<k, m>> \in R)
  BY <1>1, WFMin
<1>4. ASSUME NEW k \in T
      PROVE  m <= k
  <2>1. ~(k < m) /\ k \in Nat /\ m \in Nat
    BY <1>2, <1>3
  <2> QED BY <2>1
<1> QED BY <1>4

LEMMA AllFromZero ==
  ASSUME NEW T \in SUBSET Nat, 0 \in T, \A n \in T : n + 1 \in T
  PROVE  T = Nat
<1>1. SUFFICES ASSUME Nat \ T # {}
               PROVE  FALSE
  OBVIOUS
<1>2. PICK m \in Nat \ T : \A k \in Nat \ T : m <= k
  BY <1>1, LeastExists
<1>3. m # 0 /\ m - 1 \in Nat /\ m - 1 + 1 = m
  BY <1>2
<1>4. m - 1 \in T
  BY <1>2, <1>3
<1> QED BY <1>2, <1>3, <1>4

-----------------------------------------------------------------------------
(* The command line.                                                       *)

Fields == DOMAIN Default

\* The values by default, and those that the arguments or their completion set.
Values ==
  {Default[f] : f \in Fields} \cup BOOLEAN \cup
  {"mkv", "opus", "mp4", "unknown", "raw", "flac", "50", "uhid or aoa", "aoa", "uhid",
   "sdk", "disabled", "--prefer-text", "--raw-key-events", "custom", "mic",
   "120", "shortcuts", "forward", "playback", "output"}

\* What each argument keeps: an address comes with --tcpip, and the gamepads have
\* no mode of their own by default.
Regular(o) ==
  /\ o \in [Fields -> Values]
  /\ o.address => o.tcpip
  /\ o.gamepad \in {"disabled", "uhid or aoa"}

LEMMA DefaultRegular == Regular(Default)
<1>1. Default \in [Fields -> Values]
  BY DEF Default, Fields, Values
<1>2. Default.address = FALSE /\ Default.gamepad = "disabled"
  BY DEF Default
<1> QED BY <1>1, <1>2 DEF Regular

LEMMA DeviceRegular ==
  ASSUME NEW a, NEW o, Regular(o)
  PROVE  Regular(DeviceEffect(a, o))
BY DEF DeviceEffect, Regular, Default, Fields, Values

LEMMA LaterRegular ==
  ASSUME NEW a, NEW o, Regular(o)
  PROVE  Regular(LaterEffect(a, o))
BY DEF LaterEffect, Regular, Default, Fields, Values

LEMMA LastRegular ==
  ASSUME NEW a, NEW o, Regular(o)
  PROVE  Regular(LastEffect(a, o))
BY DEF LastEffect, Regular, Default, Fields, Values

LEMMA EffectRegular ==
  ASSUME NEW a, NEW o, Regular(o)
  PROVE  Regular(Effect(a, o))
BY DeviceRegular, LaterRegular, LastRegular DEF Effect

\* The options after each argument, as a function.
Folded(g, args, n) ==
  g = [k \in 0 .. n |-> IF k = 0 THEN Default ELSE Effect(args[k], g[k - 1])]

LEMMA FoldExists ==
  ASSUME NEW args, NEW n \in Nat
  PROVE  \E g : Folded(g, args, n)
<1> DEFINE T == {m \in Nat : \E g : Folded(g, args, m)}
<1>1. 0 \in T
  <2>1. Folded([k \in 0 .. 0 |-> Default], args, 0)
    BY DEF Folded
  <2> QED BY <2>1
<1>2. ASSUME NEW m \in T
      PROVE  m + 1 \in T
  <2>1. PICK g : Folded(g, args, m)
    OBVIOUS
  <2> DEFINE h == [k \in 0 .. m + 1 |-> IF k = m + 1 THEN Effect(args[m + 1], g[m]) ELSE g[k]]
  <2>2. ASSUME NEW k \in 0 .. m + 1
        PROVE  h[k] = IF k = 0 THEN Default ELSE Effect(args[k], h[k - 1])
    <3>1. CASE k = 0
      BY <2>1, <3>1 DEF Folded
    <3>2. CASE k \in 1 .. m
      <4>1. k - 1 \in 0 .. m /\ k \in 0 .. m /\ k # 0 /\ k # m + 1 /\ k - 1 # m + 1
        BY <3>2
      <4>2. h[k] = g[k] /\ h[k - 1] = g[k - 1]
        BY <4>1
      <4>3. g[k] = Effect(args[k], g[k - 1])
        BY <2>1, <4>1 DEF Folded
      <4> QED BY <4>1, <4>2, <4>3
    <3>3. CASE k = m + 1
      <4>1. m \in 0 .. m + 1 /\ m # m + 1 /\ k - 1 = m /\ k # 0
        BY <3>3
      <4>2. h[m] = g[m] /\ h[k] = Effect(args[k], g[m])
        BY <3>3, <4>1
      <4> QED BY <4>1, <4>2
    <3> QED BY <3>1, <3>2, <3>3
  <2>3. Folded(h, args, m + 1)
    BY <2>2 DEF Folded
  <2> QED BY <2>3
<1>3. T = Nat
  <2> HIDE DEF T
  <2>1. T \in SUBSET Nat
    BY DEF T
  <2> QED BY <1>1, <1>2, <2>1, AllFromZero
<1> QED BY <1>3

\* Whatever the arguments, and however many.
LEMMA GivenRegular ==
  ASSUME NEW args, Len(args) \in Nat
  PROVE  Regular(Given(args))
<1> DEFINE n == Len(args)
           f == CHOOSE g : g = [k \in 0 .. n |->
                  IF k = 0 THEN Default ELSE Effect(args[k], g[k - 1])]
           T == {m \in Nat : m <= n => Regular(f[m])}
<1>1. Folded(f, args, n)
  <2>1. PICK g : Folded(g, args, n)
    BY FoldExists
  <2> QED BY <2>1 DEF Folded
<1>2. Given(args) = f[n]
  BY DEF Given
<1> HIDE DEF f
<1>3. 0 \in T
  BY <1>1, DefaultRegular DEF Folded
<1>4. ASSUME NEW m \in T
      PROVE  m + 1 \in T
  <2>1. CASE m + 1 <= n
    <3>1. f[m + 1] = Effect(args[m + 1], f[m])
      BY <1>1, <2>1 DEF Folded
    <3>2. Regular(f[m])
      BY <2>1
    <3> QED BY <3>1, <3>2, EffectRegular
  <2>2. CASE ~(m + 1 <= n)
    BY <2>2
  <2> QED BY <2>1, <2>2
<1>5. T = Nat
  <2> HIDE DEF T
  <2>1. T \in SUBSET Nat
    BY DEF T
  <2> QED BY <1>3, <1>4, <2>1, AllFromZero
<1> QED BY <1>2, <1>5

Options == [Fields -> Values]

\* What each completion sets, and what it leaves.
LEMMA StreamsFacts ==
  ASSUME NEW o \in Options
  PROVE  LET s == Streams(o) IN
         /\ s \in Options
         /\ s.videoPlayback => s.video /\ s.window
         /\ s.audioPlayback => s.audio
         /\ \A f \in Fields \ {"video", "audio", "videoPlayback", "audioPlayback", "powerOn"} :
              s[f] = o[f]
<1> DEFINE s == Streams(o)
<1>1. {"video", "audio", "videoPlayback", "audioPlayback", "powerOn", "window"} \subseteq Fields
  BY DEF Fields, Default
<1>2. {TRUE, FALSE} \subseteq Values
  BY DEF Values
<1> DEFINE plays == o.videoPlayback /\ o.window /\ o.video
           hears == o.audioPlayback /\ o.audio
           records == o.record # "none"
<1>3. s = [o EXCEPT !.videoPlayback = plays, !.audioPlayback = hears,
                    !.video = @ /\ (plays \/ records \/ o.v4l2),
                    !.audio = @ /\ (hears \/ records),
                    !.powerOn = @ /\ o.video]
  BY DEF Streams
<1>4. s \in Options
  BY <1>1, <1>2, <1>3 DEF Options
<1>5. /\ s.videoPlayback = plays /\ s.audioPlayback = hears
      /\ s.video = (o.video /\ (plays \/ records \/ o.v4l2))
      /\ s.audio = (o.audio /\ (hears \/ records))
  BY <1>1, <1>3 DEF Options
<1>6. \A f \in Fields \ {"video", "audio", "videoPlayback", "audioPlayback", "powerOn"} :
        s[f] = o[f]
  BY <1>1, <1>3 DEF Options
<1> QED BY <1>1, <1>4, <1>5, <1>6

LEMMA BuffersFacts ==
  ASSUME NEW o \in Options
  PROVE  LET s == Buffers(o) IN
         /\ s \in Options
         /\ \A f \in Fields \ {"requireAudio", "audioBuffer", "downsize"} : s[f] = o[f]
<1> DEFINE s == Buffers(o)
           required == o.requireAudio \/ (~o.video /\ ~o.otg)
           buffer == IF ~o.audioPlayback \/ o.audioBuffer # "unset" THEN o.audioBuffer
                     ELSE IF o.audioCodec = "flac" THEN "120" ELSE "50"
           smaller == o.downsize /\ ~o.v4l2
<1>1. {"requireAudio", "audioBuffer", "downsize"} \subseteq Fields
  BY DEF Fields, Default
<1>2. required \in Values /\ buffer \in Values /\ smaller \in Values
  BY <1>1 DEF Values, Options
<1>3. s = [o EXCEPT !.requireAudio = required, !.audioBuffer = buffer, !.downsize = smaller]
  BY <1>1 DEF Buffers, Options
<1> HIDE DEF required, buffer, smaller
<1> QED BY <1>1, <1>2, <1>3 DEF Options

LEMMA ModesFacts ==
  ASSUME NEW o \in Options, o.gamepad \in {"disabled", "uhid or aoa"}
  PROVE  LET s == Modes(o) IN
         /\ s \in Options
         /\ \A f \in Fields \ {"keyboard", "mouse", "gamepad"} : s[f] = o[f]
         /\ o.control => {s.keyboard, s.mouse, s.gamepad} \cap {"auto", "uhid or aoa"} = {}
<1> DEFINE s == Modes(o)
           k == IF o.keyboard = "auto" THEN IF o.otg THEN "aoa" ELSE "sdk"
                ELSE IF o.keyboard = "uhid or aoa" THEN Hid(o) ELSE o.keyboard
           m == IF o.mouse = "auto"
                THEN IF o.otg THEN "aoa" ELSE IF o.videoPlayback THEN "sdk" ELSE "disabled"
                ELSE IF o.mouse = "uhid or aoa" THEN Hid(o) ELSE o.mouse
           g == IF o.gamepad = "uhid or aoa" THEN Hid(o) ELSE o.gamepad
<1>1. {"keyboard", "mouse", "gamepad"} \subseteq Fields
  BY DEF Fields, Default
<1>2. CASE ~o.control
  BY <1>2 DEF Modes
<1>3. CASE o.control
  <2>1. s = [o EXCEPT !.keyboard = k, !.mouse = m, !.gamepad = g]
    BY <1>1, <1>3 DEF Modes, Options
  <2>2. k \in Values /\ m \in Values /\ g \in Values
    BY <1>1 DEF Values, Options, Hid
  <2>3. {k, m, g} \cap {"auto", "uhid or aoa"} = {}
    BY DEF Hid
  <2> HIDE DEF k, m, g
  <2>4. s.keyboard = k /\ s.mouse = m /\ s.gamepad = g
    BY <1>1, <2>1 DEF Options
  <2>5. s \in Options /\ \A f \in Fields \ {"keyboard", "mouse", "gamepad"} : s[f] = o[f]
    BY <1>1, <2>1, <2>2 DEF Options
  <2> QED BY <2>3, <2>4, <2>5
<1> QED BY <1>2, <1>3

LEMMA BindingsFacts ==
  ASSUME NEW o \in Options
  PROVE  LET s == Bindings(o) IN
         /\ s \in Options
         /\ \A f \in Fields \ {"bindings"} : s[f] = o[f]
         /\ s.bindings # "auto"
BY DEF Bindings, Options, Fields, Values, Default

LEMMA SourcesFacts ==
  ASSUME NEW o \in Options
  PROVE  LET s == Sources(o) IN
         /\ \A f \in Fields \ {"control", "forward", "audioSource", "fps"} : s[f] = o[f]
         /\ s.control => o.control
         /\ s.audio => s.audioSource # "auto"
<1> DEFINE s == Sources(o)
           c == o.control /\ ~o.camera
           w == o.forward \/ o.tunnel
           a == IF ~o.audio \/ o.audioSource # "auto" THEN o.audioSource
                ELSE IF o.camera THEN "mic" ELSE IF o.audioDup THEN "playback" ELSE "output"
           p == o.fps /\ o.videoPlayback
<1>1. {"control", "forward", "audioSource", "fps", "audio"} \subseteq Fields
  BY DEF Fields, Default
<1>2. s = [o EXCEPT !.control = c, !.forward = w, !.audioSource = a, !.fps = p]
  BY <1>1 DEF Sources, Options
<1>3. o.audio => a # "auto"
  OBVIOUS
<1> HIDE DEF w, a, p
<1>4. s.control = c /\ s.audioSource = a
  BY <1>1, <1>2 DEF Options
<1>5. \A f \in Fields \ {"control", "forward", "audioSource", "fps"} : s[f] = o[f]
  BY <1>1, <1>2 DEF Options
<1> QED BY <1>1, <1>3, <1>4, <1>5

LEMMA OneDevice ==
  ASSUME NEW o, NEW d, ~RefusedStreams(o, d)
  PROVE  ~(o.serial /\ o.usb) /\ ~(o.serial /\ o.address)
<1> DEFINE D == {i \in 1 .. 4 : <<o.serial, o.address, o.network, o.usb>>[i]}
<1>1. ~(Cardinality(D) > 1)
  BY DEF RefusedStreams
<1>2. IsFiniteSet(D)
  <2>1. D \in SUBSET Nat /\ \A i \in D : i <= 4
    OBVIOUS
  <2> HIDE DEF D
  <2> QED BY <2>1, FS_BoundedSetOfNaturals
<1>3. ASSUME NEW i \in D, NEW j \in D, i # j
      PROVE  FALSE
  <2>1. IsFiniteSet({i}) /\ Cardinality({i}) = 1
    BY FS_Singleton
  <2>2. Cardinality({i} \cup {j}) = 2
    BY <1>3, <2>1, FS_AddElement
  <2>3. {i} \cup {j} \subseteq D
    OBVIOUS
  <2>4. Cardinality({i} \cup {j}) <= Cardinality(D)
    BY <1>2, <2>3, FS_Subset
  <2> HIDE DEF D
  <2>5. Cardinality(D) \in Nat
    BY <1>2, FS_CardinalityType
  <2> QED BY <1>1, <2>2, <2>4, <2>5
<1> QED BY <1>3

\* The options are completed one group after the other.
LEMMA Completed ==
  ASSUME NEW args, Len(args) \in Nat
  PROVE  LET g == Given(args)
             s == Opened(args)
             t == Typed(args)
             o == Parse(args) IN
         /\ Regular(g)
         /\ \A f \in Fields \ {"video", "audio", "videoPlayback", "audioPlayback", "powerOn"} :
              s[f] = g[f]
         /\ s.videoPlayback => s.video /\ s.window
         /\ s.audioPlayback => s.audio
         /\ \A f \in Fields \ {"requireAudio", "audioBuffer", "downsize", "keyboard", "mouse",
                               "gamepad", "bindings"} : t[f] = s[f]
         /\ t.control => {t.keyboard, t.mouse, t.gamepad} \cap {"auto", "uhid or aoa"} = {}
         /\ t.bindings # "auto"
         /\ \A f \in Fields \ {"control", "forward", "audioSource", "fps"} : o[f] = t[f]
         /\ o.control => t.control
         /\ o.audio => o.audioSource # "auto"
<1> DEFINE g == Given(args)
           s == Opened(args)
           b == Buffers(s)
           m == Modes(b)
           t == Typed(args)
<1>1. Regular(g)
  BY GivenRegular
<1>2. g \in Options /\ g.gamepad \in {"disabled", "uhid or aoa"}
  BY <1>1 DEF Regular, Options
<1>3. /\ s \in Options
      /\ s.videoPlayback => s.video /\ s.window
      /\ s.audioPlayback => s.audio
      /\ \A f \in Fields \ {"video", "audio", "videoPlayback", "audioPlayback", "powerOn"} :
           s[f] = g[f]
  BY <1>2, StreamsFacts DEF Opened
<1> HIDE DEF g, s
<1>4. b \in Options /\ \A f \in Fields \ {"requireAudio", "audioBuffer", "downsize"} : b[f] = s[f]
  BY <1>3, BuffersFacts
<1>5. {"gamepad", "control", "keyboard", "mouse", "bindings"} \subseteq Fields
  BY DEF Fields, Default
<1>6. b.gamepad \in {"disabled", "uhid or aoa"}
  BY <1>2, <1>3, <1>4, <1>5
<1> HIDE DEF b
<1>7. /\ m \in Options
      /\ \A f \in Fields \ {"keyboard", "mouse", "gamepad"} : m[f] = b[f]
      /\ b.control => {m.keyboard, m.mouse, m.gamepad} \cap {"auto", "uhid or aoa"} = {}
  BY <1>4, <1>6, ModesFacts
<1>8. t = Bindings(m)
  BY DEF Typed, m, b, s
<1> HIDE DEF m
<1>9. /\ t \in Options
      /\ \A f \in Fields \ {"bindings"} : t[f] = m[f]
      /\ t.bindings # "auto"
  BY <1>7, <1>8, BindingsFacts
<1>10. \A f \in Fields \ {"requireAudio", "audioBuffer", "downsize", "keyboard", "mouse",
                          "gamepad", "bindings"} : t[f] = s[f]
  BY <1>4, <1>7, <1>9
<1>11. t.control => {t.keyboard, t.mouse, t.gamepad} \cap {"auto", "uhid or aoa"} = {}
  <2>1. t.control = b.control /\ t.keyboard = m.keyboard /\ t.mouse = m.mouse
        /\ t.gamepad = m.gamepad
    BY <1>5, <1>7, <1>9
  <2> QED BY <1>7, <2>1
<1> HIDE DEF t
<1>12. LET o == Parse(args) IN
       /\ \A f \in Fields \ {"control", "forward", "audioSource", "fps"} : o[f] = t[f]
       /\ o.control => t.control
       /\ o.audio => o.audioSource # "auto"
  BY <1>9, SourcesFacts DEF Parse, t
<1> QED BY <1>1, <1>3, <1>9, <1>10, <1>11, <1>12 DEF g, s, t

\* What the rest of the client relies on, for whatever command line is accepted.
LEMMA AcceptedOptions ==
  ASSUME NEW args, Len(args) \in Nat, Accepted(args)
  PROVE  LET o == Parse(args) IN
         /\ IF o.otg THEN OtgAssertions(o) ELSE SessionAssertions(o)
         /\ o.videoPlayback => o.window
<1> DEFINE g == Given(args)
           s == Opened(args)
           t == Typed(args)
           o == Parse(args)
<1>1. /\ ~RefusedStreams(s, g.v4l2) /\ ~RefusedModes(t, g) /\ ~RefusedRecording(o)
  BY DEF Accepted
<1>2. /\ Regular(g)
      /\ \A f \in Fields \ {"video", "audio", "videoPlayback", "audioPlayback", "powerOn"} :
           s[f] = g[f]
      /\ s.videoPlayback => s.video /\ s.window
      /\ s.audioPlayback => s.audio
      /\ \A f \in Fields \ {"requireAudio", "audioBuffer", "downsize", "keyboard", "mouse",
                            "gamepad", "bindings"} : t[f] = s[f]
      /\ t.control => {t.keyboard, t.mouse, t.gamepad} \cap {"auto", "uhid or aoa"} = {}
      /\ t.bindings # "auto"
      /\ \A f \in Fields \ {"control", "forward", "audioSource", "fps"} : o[f] = t[f]
      /\ o.control => t.control
      /\ o.audio => o.audioSource # "auto"
  BY Completed
<1> HIDE DEF g, s, t, o
<1>3. {"video", "audio", "videoPlayback", "audioPlayback", "window", "otg", "record", "mirrored",
       "v4l2", "serial", "usb", "address", "tcpip", "keyboard", "mouse", "gamepad", "bindings"}
        \subseteq Fields
  BY DEF Fields, Default
<1>4. /\ o.video = s.video /\ o.audio = s.audio /\ o.window = s.window /\ o.v4l2 = g.v4l2
      /\ o.videoPlayback = s.videoPlayback /\ o.audioPlayback = s.audioPlayback
      /\ o.serial = s.serial /\ o.usb = s.usb /\ o.address = s.address
      /\ o.address = g.address /\ o.tcpip = g.tcpip /\ o.otg = t.otg
      /\ o.keyboard = t.keyboard /\ o.mouse = t.mouse /\ o.gamepad = t.gamepad
      /\ o.bindings = t.bindings
  BY <1>2, <1>3
<1>5. ~(o.serial /\ o.usb) /\ ~(o.serial /\ o.address)
  BY <1>1, <1>4, OneDevice
<1>6. o.v4l2 => o.video
  BY <1>1, <1>4 DEF RefusedStreams
<1>7. o.record # "none" => (o.video \/ o.audio) /\ ~o.mirrored
  BY <1>1 DEF RefusedRecording
<1>8. o.address => o.tcpip
  BY <1>2, <1>4 DEF Regular
<1>9. o.otg => OtgAssertions(o)
  BY <1>1, <1>4 DEF RefusedModes, OtgAssertions
<1>10. SessionAssertions(o)
  BY <1>2, <1>4, <1>5, <1>6, <1>7, <1>8 DEF SessionAssertions
<1> QED BY <1>2, <1>4, <1>9, <1>10 DEF o

-----------------------------------------------------------------------------
(* Tables.                                                                 *)

LEMMA SeekFacts ==
  ASSUME NEW table, NEW taken, NEW i, Len(table) \in Nat, i \in 1 .. Len(table) + 1
  PROVE  LET j == Seek(table, i, taken) IN
         /\ j \in i .. Len(table) + 1
         /\ j <= Len(table) => table[j] \in taken
         /\ \A k \in i .. j - 1 : table[k] \notin taken
<1> DEFINE n == Len(table)
           T == {j \in i .. n + 1 : j <= n => table[j] \in taken}
<1>1. T \in SUBSET Nat /\ n + 1 \in T
  OBVIOUS
<1>2. PICK j \in T : \A k \in T : j <= k
  <2> HIDE DEF T
  <2> QED BY <1>1, LeastExists
<1>3. \A k \in i .. j - 1 : table[k] \notin taken
  <2>1. SUFFICES ASSUME NEW k \in i .. j - 1, table[k] \in taken
                 PROVE  FALSE
    OBVIOUS
  <2>2. k \in T /\ ~(j <= k)
    BY <2>1
  <2> QED BY <1>2, <2>2
<1> QED BY <1>2, <1>3 DEF Seek

\* Where the table of the start initialises a component and starts a thread, and
\* where the table of the end joins a thread and destroys a component: 99 for what
\* is not in the table of the start, and 0 in that of the end.
InitAt(o) ==
  IF o.otg
  THEN [server |-> 99, pusher |-> 99, recorder |-> 99, controller |-> 99, acksync |-> 99,
        usb |-> 1, handle |-> 3, aoa |-> 4, screen |-> 7, v4l2 |-> 99, timeout |-> 99]
  ELSE [server |-> 1, pusher |-> 5, recorder |-> 6, controller |-> 8, acksync |-> 9,
        usb |-> 10, handle |-> 12, aoa |-> 13, screen |-> 18, v4l2 |-> 19, timeout |-> 22]

\* Threads that start once main loops: after the last step of the start.
StartAt(o) ==
  IF o.otg
  THEN [server |-> 99, video |-> 99, audio |-> 99, recorder |-> 99, controller |-> 99,
        receiver |-> 99, aoa |-> 6, timeout |-> 99, pusher |-> 99, fps |-> 99, usbev |-> 3]
  ELSE [server |-> 2, video |-> 20, audio |-> 21, recorder |-> 7, controller |-> 17,
        receiver |-> 17, aoa |-> 15, timeout |-> 23, pusher |-> 24, fps |-> 24, usbev |-> 99]

JoinAt(o) ==
  IF o.otg
  THEN [server |-> 0, video |-> 0, audio |-> 0, recorder |-> 0, controller |-> 0,
        receiver |-> 0, aoa |-> 3, timeout |-> 0, pusher |-> 0, fps |-> 0, usbev |-> 5]
  ELSE [server |-> 29, video |-> 12, audio |-> 13, recorder |-> 25, controller |-> 22,
        receiver |-> 23, aoa |-> 15, timeout |-> 10, pusher |-> 27, fps |-> 20, usbev |-> 17]

DestroyAt(o) ==
  IF o.otg
  THEN [server |-> 0, pusher |-> 0, recorder |-> 0, controller |-> 0, acksync |-> 0,
        usb |-> 7, handle |-> 6, aoa |-> 4, screen |-> 0, v4l2 |-> 0, timeout |-> 0]
  ELSE [server |-> 30, pusher |-> 28, recorder |-> 26, controller |-> 24, acksync |-> 4,
        usb |-> 19, handle |-> 18, aoa |-> 16, screen |-> 21, v4l2 |-> 14, timeout |-> 11]

LEMMA StartLengths ==
  ASSUME NEW o
  PROVE  Len(StartTable(o)) = IF o.otg THEN 7 ELSE 24
BY DEF StartTable, OtgStart, MirrorStart

LEMMA InitPositions ==
  ASSUME NEW o, NEW c \in Components
  PROVE  /\ InitAt(o)[c] \in Nat
         /\ InitAt(o)[c] \in 1 .. Len(StartTable(o)) => StartTable(o)[InitAt(o)[c]] = <<"init", c>>
         /\ \A k \in 1 .. Len(StartTable(o)) :
              StartTable(o)[k] = <<"init", c>> => k = InitAt(o)[c]
<1>1. CASE o.otg
  BY <1>1 DEF StartTable, OtgStart, InitAt, Components
<1>2. CASE ~o.otg
  BY <1>2 DEF StartTable, MirrorStart, InitAt, Components
<1> QED BY <1>1, <1>2

LEMMA StartPositions ==
  ASSUME NEW o, NEW t \in Threads
  PROVE  /\ StartAt(o)[t] \in Nat
         /\ \A k \in 1 .. Len(StartTable(o)) :
              \/ StartTable(o)[k] = <<"start", t>>
              \/ StartTable(o)[k] = <<"start", "controller">> /\ t = "receiver"
              => k = StartAt(o)[t]
<1>1. CASE o.otg
  BY <1>1 DEF StartTable, OtgStart, StartAt, Threads
<1>2. CASE ~o.otg
  BY <1>2 DEF StartTable, MirrorStart, StartAt, Threads
<1> QED BY <1>1, <1>2

LEMMA EndLengths ==
  ASSUME NEW o
  PROVE  Len(EndTable(o)) = IF o.otg THEN 7 ELSE 30
BY DEF EndTable, OtgEnd, MirrorEnd, MirrorTable

LEMMA JoinPositions ==
  ASSUME NEW o, NEW t \in Threads
  PROVE  /\ JoinAt(o)[t] \in 0 .. Len(EndTable(o))
         /\ JoinAt(o)[t] # 0 => EndTable(o)[JoinAt(o)[t]] = <<"join", t>>
<1>1. CASE o.otg
  BY <1>1 DEF EndTable, OtgEnd, JoinAt, Threads
<1>2. CASE ~o.otg
  BY <1>2 DEF EndTable, MirrorEnd, MirrorTable, JoinAt, Threads
<1> QED BY <1>1, <1>2

LEMMA DestroyPositions ==
  ASSUME NEW o, NEW c \in Components
  PROVE  /\ DestroyAt(o)[c] \in 0 .. Len(EndTable(o))
         /\ DestroyAt(o)[c] # 0 => EndTable(o)[DestroyAt(o)[c]] = <<"destroy", c>>
         /\ \A k \in 1 .. Len(EndTable(o)) :
              EndTable(o)[k][1] = "destroy" /\ EndTable(o)[k][2] = c => k = DestroyAt(o)[c]
<1>1. CASE o.otg
  BY <1>1 DEF EndTable, OtgEnd, DestroyAt, Components
<1>2. CASE ~o.otg
  BY <1>2 DEF EndTable, MirrorEnd, MirrorTable, DestroyAt, Components
<1> QED BY <1>1, <1>2

-----------------------------------------------------------------------------
(* The invariant.                                                          *)

\* What the options are known to satisfy.
Kept ==
  main # "refused" =>
    /\ IF options.otg THEN OtgAssertions(options)
       ELSE options.list \/ SessionAssertions(options)
    /\ options.videoPlayback => options.window

\* While main starts and loops: what was initialised and started is what the steps
\* taken called for.
Going == main \in {"starting", "looping"}

Starting ==
  /\ main = "starting" => /\ at \in 1 .. Len(StartTable(options))
                           /\ StartTable(options)[at] \in CalledFor(options)
  /\ main = "looping" => at = Len(StartTable(options)) + 1
  /\ Going =>
       /\ ~options.otg /\ at > 4 => ~options.list
       /\ \A c \in Components :
            life[c] = IF InitAt(options)[c] < at /\ Needed(c, options) THEN "ready" ELSE "none"
       /\ \A t \in Threads : thread[t] # "none" => StartAt(options)[t] < at
       /\ ~options.otg /\ 15 < at /\ Needed("aoa", options) => thread["aoa"] # "none"

\* Once it ends: the threads that were to be joined are, the components that were
\* to be destroyed are, and those of AOA were undone unless its thread was started.
Finishing ==
  main \in {"ending", "done"} =>
    /\ at \in 1 .. Len(EndTable(options)) + 1
    /\ main = "done" => at = Len(EndTable(options)) + 1
    /\ main = "ending" => at # Len(EndTable(options)) + 1
    /\ \A t \in Threads : JoinAt(options)[t] < at => thread[t] \in {"none", "joined"}
    /\ \A c \in Components \ KnownLeaks : DestroyAt(options)[c] < at => life[c] # "ready"
    /\ ~options.otg /\ thread["aoa"] = "none" =>
         \A c \in {"acksync", "aoa", "handle", "usb"} \ KnownLeaks : life[c] # "ready"

Rejected ==
  main \in {"ending", "done"} /\ failed = NoStep =>
    runnables = "rejected" /\ "runnable" \notin events

SessionInvariant ==
  /\ SessionTypeOK /\ Kept /\ Starting /\ Finishing /\ Rejected
  /\ NothingUsedAfterDestroy

LEMMA NeededIs ==
  ASSUME NEW o
  PROVE  /\ o.otg => \A x : Needed(x, o)
         /\ ~o.otg => Needed("server", o)
         /\ ~o.otg => (Needed("screen", o) <=> o.window /\ ~o.list)
         /\ \A x \in {"acksync", "usb", "handle", "aoa", "hid"} : Needed(x, o) <=> Needed("aoa", o)
<1>1. o.otg => \A x : Needed(x, o)
  BY DEF Needed
<1>2. ~o.otg => Needed("server", o)
  BY DEF Needed
<1>3. ~o.otg => (Needed("screen", o) <=> o.window /\ ~o.list)
  BY DEF Needed
<1>4. \A x \in {"acksync", "usb", "handle", "aoa", "hid"} : Needed(x, o) <=> Needed("aoa", o)
  BY DEF Needed
<1> QED BY <1>1, <1>2, <1>3, <1>4

-----------------------------------------------------------------------------
(* The initial states.                                                     *)

LEMMA SessionInitial == SessionInit => SessionInvariant
<1> SUFFICES ASSUME SessionInit
             PROVE  SessionInvariant
  OBVIOUS
<1>1. PICK n \in 0 .. MaxArgs :
        \E args \in [1 .. n -> Arguments] \cup Launched :
          /\ options = Parse(args)
          /\ main = IF ~Accepted(args) THEN "refused"
                    ELSE IF args \in Launched THEN "starting" ELSE "parsed"
          /\ at = IF args \in Launched THEN 1 ELSE 0
  BY DEF SessionInit
<1>2. PICK args \in [1 .. n -> Arguments] \cup Launched :
        /\ options = Parse(args)
        /\ main = IF ~Accepted(args) THEN "refused"
                  ELSE IF args \in Launched THEN "starting" ELSE "parsed"
        /\ at = IF args \in Launched THEN 1 ELSE 0
  BY <1>1
<1>3. Len(args) \in Nat
  <2>1. n \in Nat
    BY SessionAssumption
  <2>2. CASE args \in [1 .. n -> Arguments]
    BY <2>1, <2>2
  <2>3. CASE args \in Launched
    BY <2>3, SessionAssumption
  <2> QED BY <2>2, <2>3
<1>4. Kept
  BY <1>2, <1>3, AcceptedOptions DEF Kept
<1>5. life = [c \in Components |-> "none"] /\ thread = [t \in Threads |-> "none"]
  BY DEF SessionInit
<1>6. SessionTypeOK
  BY <1>2, <1>5 DEF SessionInit, SessionTypeOK
<1>7. Starting
  <2>1. SUFFICES ASSUME main = "starting"
                 PROVE  Starting
    BY <1>2 DEF Starting, Going
  <2>2. at = 1
    BY <1>2, <2>1
  <2>3. 1 \in 1 .. Len(StartTable(options))
    <3>1. Len(StartTable(options)) = 7 \/ Len(StartTable(options)) = 24
      BY StartLengths
    <3> QED BY <3>1
  <2>4. StartTable(options)[1] \in CalledFor(options)
    <3>1. StartTable(options)[1] \in StepsOf(StartTable(options))
      <4>1. 1 \in DOMAIN StartTable(options)
        BY DEF StartTable, OtgStart, MirrorStart
      <4> QED BY <4>1 DEF StepsOf
    <3>2. Needed(StartTable(options)[1][2], options)
      <4>1. CASE options.otg
        BY <4>1, NeededIs
      <4>2. CASE ~options.otg
        <5>1. StartTable(options)[1][2] = "server"
          BY <4>2 DEF StartTable, MirrorStart
        <5> QED BY <4>2, <5>1, NeededIs
      <4> QED BY <4>1, <4>2
    <3> QED BY <3>1, <3>2 DEF CalledFor
  <2>5. \A c \in Components : ~(InitAt(options)[c] < 1)
    BY DEF InitAt, Components
  <2> QED BY <1>5, <2>1, <2>2, <2>3, <2>4, <2>5 DEF Starting, Going
<1>8. Finishing /\ Rejected
  BY <1>2 DEF Finishing, Rejected
<1>9. NothingUsedAfterDestroy
  BY <1>5 DEF NothingUsedAfterDestroy
<1> QED BY <1>4, <1>6, <1>7, <1>8, <1>9 DEF SessionInvariant

-----------------------------------------------------------------------------
(* The start.                                                              *)

\* The domain of a table.
LEMMA StartSteps ==
  ASSUME NEW k \in 1 .. Len(StartTable(options))
  PROVE  /\ StartTable(options)[k] \in StepsOf(StartTable(options))
         /\ StartTable(options)[k] = <<StartTable(options)[k][1], StartTable(options)[k][2]>>
<1>1. CASE options.otg
  BY <1>1 DEF StartTable, OtgStart, StepsOf
<1>2. CASE ~options.otg
  BY <1>2 DEF StartTable, MirrorStart, StepsOf
<1> QED BY <1>1, <1>2

LEMMA EndSteps ==
  ASSUME NEW k \in 1 .. Len(EndTable(options))
  PROVE  /\ EndTable(options)[k] \in StepsOf(EndTable(options))
         /\ EndTable(options)[k] = <<EndTable(options)[k][1], EndTable(options)[k][2]>>
         /\ EndTable(options)[k][1] = "stop" => EndTable(options)[k][2] \in Components
<1>1. CASE options.otg
  BY <1>1 DEF EndTable, OtgEnd, StepsOf, Components
<1>2. CASE ~options.otg
  <2>1. DOMAIN EndTable(options) = 1 .. 30 /\ Len(EndTable(options)) = 30
    BY <1>2 DEF EndTable, MirrorEnd, MirrorTable
  <2>2. /\ EndTable(options)[k][1] = "stop" => EndTable(options)[k][2] \in Components
        /\ EndTable(options)[k] = <<EndTable(options)[k][1], EndTable(options)[k][2]>>
    <3>1. CASE k \in 1 .. 10
      BY <1>2, <3>1 DEF EndTable, MirrorEnd, MirrorTable, Components
    <3>2. CASE k \in 11 .. 20
      BY <1>2, <3>2 DEF EndTable, MirrorEnd, MirrorTable
    <3>3. CASE k \in 21 .. 30
      BY <1>2, <3>3 DEF EndTable, MirrorEnd, MirrorTable
    <3>4. k \in 1 .. 30
      BY <2>1
    <3> QED BY <3>1, <3>2, <3>3, <3>4
  <2> QED BY <2>1, <2>2 DEF StepsOf
<1> QED BY <1>1, <1>2

\* The indices that a move of a table skips.
LEMMA Skipped ==
  ASSUME NEW n \in Nat, NEW a \in Nat, NEW b \in a + 1 .. n + 1
  PROVE  /\ b \in Nat /\ a < b /\ b <= n + 1
         /\ \A k \in a + 1 .. b - 1 : k \in Nat /\ a < k /\ k < b /\ k \in 1 .. n
         /\ \A k \in Nat : a < k /\ k < b => k \in a + 1 .. b - 1 /\ k \in 1 .. n
OBVIOUS

LEMMA StartBounds ==
  ASSUME SessionInvariant, main = "starting"
  PROVE  /\ Len(StartTable(options)) \in Nat /\ at \in 1 .. Len(StartTable(options))
         /\ StartTable(options)[at] \in CalledFor(options)
         /\ Needed(StartTable(options)[at][2], options)
<1>1. Len(StartTable(options)) \in Nat
  BY StartLengths
<1>2. /\ at \in 1 .. Len(StartTable(options))
      /\ StartTable(options)[at] \in CalledFor(options)
  BY DEF SessionInvariant, Starting
<1> QED BY <1>1, <1>2 DEF CalledFor

\* What main goes to after a step of the start.
LEMMA AdvanceFacts ==
  ASSUME SessionInvariant, main = "starting", Advance
  PROVE  /\ at' \in at + 1 .. Len(StartTable(options)) + 1
         /\ at' <= Len(StartTable(options)) => StartTable(options)[at'] \in CalledFor(options)
         /\ \A k \in at + 1 .. at' - 1 : ~Needed(StartTable(options)[k][2], options)
<1>1. Len(StartTable(options)) \in Nat /\ at + 1 \in 1 .. Len(StartTable(options)) + 1
  BY StartBounds
<1>2. at' = Seek(StartTable(options), at + 1, CalledFor(options))
  BY DEF Advance
<1>3. /\ at' \in at + 1 .. Len(StartTable(options)) + 1
      /\ at' <= Len(StartTable(options)) => StartTable(options)[at'] \in CalledFor(options)
      /\ \A k \in at + 1 .. at' - 1 : StartTable(options)[k] \notin CalledFor(options)
  BY <1>1, <1>2, SeekFacts
<1>4. ASSUME NEW k \in at + 1 .. at' - 1
      PROVE  ~Needed(StartTable(options)[k][2], options)
  <2>1. k \in 1 .. Len(StartTable(options))
    <3>1. at \in Nat
      BY <1>1, StartBounds
    <3> QED BY <1>1, <1>3, <3>1, Skipped
  <2>2. StartTable(options)[k] \in StepsOf(StartTable(options))
    BY <2>1, StartSteps
  <2> QED BY <1>3, <2>2 DEF CalledFor
<1> QED BY <1>3, <1>4

\* A step of the start that succeeds.
LEMMA AdvanceKeeps ==
  ASSUME SessionInvariant, main = "starting", Advance, options' = options,
         \A c \in Components :
           life'[c] = IF StartTable(options)[at] = <<"init", c>> THEN "ready" ELSE life[c],
         \A t \in Threads : thread'[t] # "none" => thread[t] # "none" \/ StartAt(options)[t] <= at,
         thread["aoa"] # "none" \/ StartTable(options)[at] = <<"start", "aoa">>
           => thread'["aoa"] # "none",
         ~options.otg /\ at = 4 => ~options.list
  PROVE  Starting' /\ main' \in {"starting", "looping"}
<1> DEFINE T == StartTable(options)
           n == Len(StartTable(options))
<1>1. /\ n \in Nat /\ at \in 1 .. n /\ T[at] \in CalledFor(options) /\ Needed(T[at][2], options)
  BY StartBounds
<1>2. /\ at' \in at + 1 .. n + 1 /\ (at' <= n => T[at'] \in CalledFor(options))
      /\ \A k \in at + 1 .. at' - 1 : ~Needed(T[k][2], options)
  BY AdvanceFacts
<1>0. /\ at \in Nat /\ n \in Nat /\ at' \in Nat /\ at < at' /\ at' <= n + 1
      /\ \A k \in Nat : at < k /\ k < at' => k \in at + 1 .. at' - 1 /\ k \in 1 .. n
  <2> HIDE DEF n, T
  <2>1. at \in Nat
    BY <1>1
  <2> QED BY <1>1, <1>2, <2>1, Skipped
<1>3. main' = IF at' > n THEN "looping" ELSE "starting"
  BY DEF Advance
<1>4. /\ ~options.otg /\ at > 4 => ~options.list
      /\ \A c \in Components :
           life[c] = IF InitAt(options)[c] < at /\ Needed(c, options) THEN "ready" ELSE "none"
      /\ \A t \in Threads : thread[t] # "none" => StartAt(options)[t] < at
      /\ ~options.otg /\ 15 < at /\ Needed("aoa", options) => thread["aoa"] # "none"
  BY DEF SessionInvariant, Starting, Going
<1>5. ~options.otg /\ at' > 4 => ~options.list
  <2>1. SUFFICES ASSUME ~options.otg, at < 4, at' > 4
                 PROVE  FALSE
    BY <1>1, <1>2, <1>4
  <2>2. T[4][2] = "server"
    BY <2>1 DEF StartTable, MirrorStart
  <2>3. Needed("server", options)
    BY <2>1, NeededIs
  <2>4. 4 \in at + 1 .. at' - 1
    <3> HIDE DEF n, T
    <3> QED BY <1>0, <2>1
  <2> QED BY <1>2, <2>2, <2>3, <2>4
<1>6. ASSUME NEW c \in Components
      PROVE  life'[c] = IF InitAt(options)[c] < at' /\ Needed(c, options) THEN "ready" ELSE "none"
  <2> DEFINE i == InitAt(options)[c]
  <2>1. /\ i \in Nat /\ (i \in 1 .. n => T[i] = <<"init", c>>)
        /\ T[at] = <<"init", c>> => at = i
    BY <1>1, InitPositions
  <2>2. i # 0
    BY DEF InitAt, Components
  <2> HIDE DEF i, T, n
  <2>3. CASE i = at
    <3>1. T[at] = <<"init", c>> /\ Needed(c, options)
      BY <1>1, <2>1, <2>3
    <3> QED BY <1>1, <1>2, <2>3, <3>1 DEF T, i
  <2>4. CASE i # at
    <3>1. life'[c] = IF i < at /\ Needed(c, options) THEN "ready" ELSE "none"
      BY <1>4, <2>1, <2>4 DEF i, T
    <3>2. CASE i < at \/ i >= at'
      BY <1>1, <1>2, <2>1, <3>1, <3>2 DEF i
    <3>3. CASE at < i /\ i < at'
      <4>1. i \in at + 1 .. at' - 1 /\ i \in 1 .. n
        BY <1>0, <2>1, <3>3
      <4>2. T[i] = <<"init", c>> /\ ~Needed(T[i][2], options)
        BY <1>2, <2>1, <4>1
      <4>3. T[i][2] = c
        BY <4>2
      <4> QED BY <3>1, <4>2, <4>3 DEF i
    <3> QED BY <1>1, <1>2, <2>1, <2>4, <3>2, <3>3
  <2> QED BY <2>3, <2>4
<1>7. ASSUME NEW t \in Threads, thread'[t] # "none"
      PROVE  StartAt(options)[t] < at'
  <2>1. StartAt(options)[t] \in Nat
    BY StartPositions
  <2>2. StartAt(options)[t] <= at
    BY <1>1, <1>4, <1>7, <2>1
  <2> QED BY <1>1, <1>2, <2>1, <2>2
<1>8. ASSUME ~options.otg, 15 < at', Needed("aoa", options)
      PROVE  thread'["aoa"] # "none"
  <2>1. T[15] = <<"start", "aoa">>
    BY <1>8 DEF StartTable, MirrorStart
  <2>2. CASE at > 15
    BY <1>4, <1>8, <2>2
  <2>3. CASE at = 15
    BY <2>1, <2>3
  <2>4. CASE at < 15
    <3>1. 15 \in at + 1 .. at' - 1
      <4> HIDE DEF n, T
      <4> QED BY <1>0, <1>8, <2>4
    <3>2. T[15][2] = "aoa"
      BY <2>1
    <3> HIDE DEF T
    <3>3. ~Needed(T[15][2], options)
      BY <1>2, <3>1
    <3> QED BY <1>8, <3>2, <3>3
  <2> QED BY <1>1, <2>2, <2>3, <2>4
<1> HIDE DEF T, n
<1>9. /\ main' = "starting" => at' \in 1 .. n /\ T[at'] \in CalledFor(options)
      /\ main' = "looping" => at' = n + 1
  BY <1>1, <1>2, <1>3
<1> QED BY <1>3, <1>5, <1>6, <1>7, <1>8, <1>9 DEF Starting, Going, T, n


\* What a thread uses, with the same options.
LEMMA UsesSame == options' = options => \A t : Uses(t)' = Uses(t)
BY DEF Uses

\* What a thread uses is initialised before it starts, and called for with it.
LEMMA UsesBefore ==
  ASSUME NEW t \in Threads, t # "usbev", StartAt(options)[t] <= 24, NEW c \in Uses(t)
  PROVE  c \in Components /\ InitAt(options)[c] < StartAt(options)[t]
<1>1. CASE options.otg
  <2>1. t = "aoa"
    BY <1>1 DEF StartAt, Threads
  <2>2. c \in {"aoa", "usb", "handle"}
    BY <1>1, <2>1 DEF Uses
  <2> QED BY <1>1, <2>1, <2>2 DEF InitAt, StartAt, Components
<1>2. CASE ~options.otg
  <2>1. CASE t = "video"
    BY <1>2, <2>1 DEF Uses, InitAt, StartAt, Components
  <2>2. CASE t = "audio"
    BY <1>2, <2>2 DEF Uses, InitAt, StartAt, Components
  <2>3. CASE t = "receiver"
    BY <1>2, <2>3 DEF Uses, InitAt, StartAt, Components
  <2>4. CASE t = "aoa"
    BY <1>2, <2>4 DEF Uses, InitAt, StartAt, Components
  <2>5. CASE t = "fps"
    BY <1>2, <2>5 DEF Uses, InitAt, StartAt, Components
  <2>6. CASE t \in {"server", "recorder", "controller", "timeout", "pusher"}
    BY <1>2, <2>6 DEF Uses, InitAt, StartAt, Components
  <2> QED BY <2>1, <2>2, <2>3, <2>4, <2>5, <2>6 DEF Threads
<1> QED BY <1>1, <1>2

LEMMA UsesReady ==
  ASSUME SessionInvariant, main = "starting", NEW t \in Threads,
         \/ StartTable(options)[at] = <<"start", t>>
         \/ StartTable(options)[at] = <<"start", "controller">> /\ t = "receiver",
         NEW c \in Uses(t)
  PROVE  c \in Components /\ life[c] = "ready"
<1> DEFINE object == StartTable(options)[at][2]
<1>1. /\ Len(StartTable(options)) \in Nat /\ at \in 1 .. Len(StartTable(options))
      /\ Needed(object, options)
  BY StartBounds
<1>2. at = StartAt(options)[t]
  BY <1>1, StartPositions
<1>3. at <= 24
  <2>1. Len(StartTable(options)) = 7 \/ Len(StartTable(options)) = 24
    BY StartLengths
  <2> HIDE DEF object
  <2>2. CASE Len(StartTable(options)) = 7
    BY <1>1, <2>2
  <2>3. CASE Len(StartTable(options)) = 24
    BY <1>1, <2>3
  <2> QED BY <2>1, <2>2, <2>3
<1>4. object = IF t = "receiver" THEN "controller" ELSE t
  <2>1. StartTable(options)[at] # <<"start", "receiver">>
    <3>1. CASE options.otg
      BY <1>1, <3>1 DEF StartTable, OtgStart
    <3>2. CASE ~options.otg
      BY <1>1, <3>2 DEF StartTable, MirrorStart
    <3> QED BY <3>1, <3>2
  <2> QED BY <2>1
<1>5. object \notin {"usbev", "fps"}
  <2>1. CASE options.otg
    BY <1>1, <2>1 DEF StartTable, OtgStart
  <2>2. CASE ~options.otg
    BY <1>1, <2>2 DEF StartTable, MirrorStart
  <2> QED BY <2>1, <2>2
<1>6. t \notin {"usbev", "fps"}
  BY <1>4, <1>5
<1>7. c \in Components /\ InitAt(options)[c] < at
  BY <1>2, <1>3, <1>6, UsesBefore
<1>8. Needed(c, options)
  <2>1. CASE options.otg
    BY <2>1, NeededIs
  <2>2. CASE ~options.otg
    <3> HIDE DEF object
    <3>1. CASE t = "video" \/ t = "audio"
      BY <3>1 DEF Uses
    <3>2. CASE t = "receiver"
      BY <1>1, <1>4, <3>2 DEF Uses
    <3>3. CASE t = "aoa"
      <4>1. c \in {"acksync", "usb", "handle", "aoa", "hid"}
        BY <3>3 DEF Uses
      <4>2. Needed("aoa", options)
        BY <1>1, <1>4, <3>3
      <4> QED BY <4>1, <4>2, NeededIs
    <3>4. CASE t \notin {"video", "audio", "receiver", "aoa"}
      <4>1. c = t /\ object = t
        BY <1>4, <1>6, <3>4 DEF Uses
      <4> QED BY <1>1, <4>1
    <3> QED BY <3>1, <3>2, <3>3, <3>4
  <2> QED BY <2>1, <2>2
<1> QED BY <1>7, <1>8 DEF SessionInvariant, Starting, Going

\* What remains to show of a step of the start.
LEMMA StartKeeps ==
  ASSUME SessionInvariant, main = "starting", main' \in {"starting", "looping"},
         options' = options, SessionTypeOK', Starting', NothingUsedAfterDestroy'
  PROVE  SessionInvariant'
BY DEF SessionInvariant, Kept, Finishing, Rejected

LEMMA InitKeeps ==
  ASSUME SessionInvariant, InitComponent
  PROVE  SessionInvariant'
<1>1. /\ main = "starting" /\ Verb \in {"init", "select"} /\ options' = options /\ Advance
      /\ told' = told /\ asleep' = asleep /\ stopped' = stopped /\ deadline' = deadline
      /\ life' = IF Object \in Components /\ Verb = "init"
                 THEN [life EXCEPT ![Object] = "ready"] ELSE life
      /\ \/ thread' = thread
         \/ /\ Object = "handle" /\ options.otg
            /\ thread' = [thread EXCEPT !["usbev"] = "running"]
  BY DEF InitComponent, mainFrame
<1>2. /\ Len(StartTable(options)) \in Nat /\ at \in 1 .. Len(StartTable(options))
      /\ Verb = StartTable(options)[at][1] /\ Object = StartTable(options)[at][2]
  BY <1>1, StartBounds DEF Verb, Object, Step
<1>3. StartTable(options)[at] = <<Verb, Object>>
  BY <1>2, StartSteps
<1>4. SessionTypeOK
  BY DEF SessionInvariant
<1>5. \A c \in Components :
        life'[c] = IF StartTable(options)[at] = <<"init", c>> THEN "ready" ELSE life[c]
  BY <1>1, <1>3, <1>4 DEF SessionTypeOK
<1>6. Object = "handle" /\ options.otg => at = 3
  <2>1. SUFFICES ASSUME Object = "handle", options.otg
                 PROVE  at = 3
    OBVIOUS
  <2> QED BY <1>2, <2>1 DEF StartTable, OtgStart
<1>7. /\ \A t \in Threads : thread'[t] # "none" => thread[t] # "none" \/ StartAt(options)[t] <= at
      /\ thread["aoa"] # "none" => thread'["aoa"] # "none"
  <2>1. CASE thread' = thread
    BY <2>1
  <2>2. CASE /\ Object = "handle" /\ options.otg
             /\ thread' = [thread EXCEPT !["usbev"] = "running"]
    <3>1. StartAt(options)["usbev"] <= at
      BY <1>6, <2>2 DEF StartAt
    <3>2. \A t \in Threads : t # "usbev" => thread'[t] = thread[t]
      BY <1>4, <2>2 DEF SessionTypeOK
    <3> QED BY <3>1, <3>2 DEF Threads
  <2> QED BY <1>1, <2>1, <2>2
<1>8. ~options.otg /\ at = 4 => ~options.list
  BY <1>1, <1>2 DEF StartTable, MirrorStart
<1>9. Starting' /\ main' \in {"starting", "looping"}
  <2>1. StartTable(options)[at] # <<"start", "aoa">>
    BY <1>1, <1>3
  <2> QED BY <1>1, <1>5, <1>7, <1>8, <2>1, AdvanceKeeps
<1>10. SessionTypeOK'
  BY <1>1, <1>4, <1>9 DEF SessionTypeOK, Threads, Components
<1>11. NothingUsedAfterDestroy'
  <2>1. SUFFICES ASSUME NEW t \in Threads, thread'[t] = "running", NEW c \in Uses(t),
                        life'[c] # "ready"
                 PROVE  <<t, c>> \in KnownEarly
    BY <1>1, UsesSame DEF NothingUsedAfterDestroy, KnownEarly
  <2>2. CASE thread[t] = "running"
    <3>1. life[c] # "ready"
      BY <1>1, <1>4, <2>1 DEF SessionTypeOK
    <3> QED BY <2>1, <2>2, <3>1 DEF SessionInvariant, NothingUsedAfterDestroy
  <2>3. CASE thread[t] # "running"
    <3>1. t = "usbev" /\ Object = "handle" /\ options.otg
      BY <1>1, <1>4, <2>1, <2>3 DEF SessionTypeOK
    <3>2. at = 3 /\ Verb = "init"
      <4>1. at = 3
        BY <1>6, <3>1
      <4> QED BY <1>2, <3>1, <4>1 DEF StartTable, OtgStart
    <3>3. c = "usb" \/ c = "handle"
      BY <3>1 DEF Uses
    <3>4. life["usb"] = "ready"
      <4>1. InitAt(options)["usb"] < at /\ Needed("usb", options)
        BY <3>1, <3>2, NeededIs DEF InitAt
      <4> QED BY <1>1, <4>1 DEF SessionInvariant, Starting, Going, Components
    <3>5. life'["usb"] = "ready" /\ life'["handle"] = "ready"
      BY <1>1, <1>4, <3>1, <3>2, <3>4 DEF SessionTypeOK, Components
    <3> QED BY <2>1, <3>3, <3>5
  <2> QED BY <2>2, <2>3
<1> QED BY <1>1, <1>9, <1>10, <1>11, StartKeeps

LEMMA StartThreadKeeps ==
  ASSUME SessionInvariant, StartThread
  PROVE  SessionInvariant'
<1>1. /\ main = "starting" /\ Verb = "start" /\ options' = options /\ Advance
      /\ told' = told /\ asleep' = asleep /\ life' = life /\ stopped' = stopped
      /\ deadline' = deadline
      /\ thread' = [t \in Threads |->
           IF t = Object \/ (t = "receiver" /\ Object = "controller") THEN "running"
           ELSE thread[t]]
  BY DEF StartThread, mainFrame, sharedVars
<1>2. /\ Len(StartTable(options)) \in Nat /\ at \in 1 .. Len(StartTable(options))
      /\ Verb = StartTable(options)[at][1] /\ Object = StartTable(options)[at][2]
  BY <1>1, StartBounds DEF Verb, Object, Step
<1>3. StartTable(options)[at] = <<"start", Object>>
  BY <1>1, <1>2, StartSteps
<1>4. SessionTypeOK
  BY DEF SessionInvariant
<1>5. \A t \in Threads : thread'[t] = "running" =>
        thread[t] = "running" \/ StartTable(options)[at] = <<"start", t>>
          \/ (StartTable(options)[at] = <<"start", "controller">> /\ t = "receiver")
  BY <1>1, <1>3
<1>6. \A t \in Threads : thread'[t] # "none" => thread[t] # "none" \/ StartAt(options)[t] <= at
  <2>1. SUFFICES ASSUME NEW t \in Threads, thread'[t] # "none", thread[t] = "none"
                 PROVE  StartAt(options)[t] <= at
    OBVIOUS
  <2>2. at = StartAt(options)[t]
    <3>1. thread'[t] = "running"
      BY <1>1, <2>1
    <3> QED BY <1>2, <1>5, <2>1, <3>1, StartPositions
  <2> QED BY <1>2, <2>2
<1>7. ~options.otg /\ at = 4 => ~options.list
  BY <1>1, <1>2 DEF StartTable, MirrorStart
<1>8. Starting' /\ main' \in {"starting", "looping"}
  <2>1. \A c \in Components :
          life'[c] = IF StartTable(options)[at] = <<"init", c>> THEN "ready" ELSE life[c]
    BY <1>1, <1>3
  <2>2. thread["aoa"] # "none" \/ StartTable(options)[at] = <<"start", "aoa">>
          => thread'["aoa"] # "none"
    BY <1>1, <1>3 DEF Threads
  <2> QED BY <1>1, <1>6, <1>7, <2>1, <2>2, AdvanceKeeps
<1>9. SessionTypeOK'
  BY <1>1, <1>4, <1>8 DEF SessionTypeOK
<1>10. NothingUsedAfterDestroy'
  <2>1. SUFFICES ASSUME NEW t \in Threads, thread'[t] = "running", NEW c \in Uses(t),
                        life[c] # "ready"
                 PROVE  <<t, c>> \in KnownEarly
    BY <1>1, UsesSame DEF NothingUsedAfterDestroy, KnownEarly
  <2>2. thread[t] = "running"
    BY <1>1, <1>5, <2>1, UsesReady
  <2> QED BY <2>1, <2>2 DEF SessionInvariant, NothingUsedAfterDestroy
<1> QED BY <1>1, <1>8, <1>9, <1>10, StartKeeps

\* A step of the start that only advances.
LEMMA AdvanceOnly ==
  ASSUME SessionInvariant, main = "starting", Advance, Verb \notin {"init", "start"},
         options' = options, life' = life, thread' = thread, stopped' = stopped,
         told' = told, asleep' = asleep, deadline' \in {"set", "unset"},
         ~options.otg /\ at = 4 => ~options.list
  PROVE  SessionInvariant'
<1>1. Verb = StartTable(options)[at][1]
  BY DEF Verb, Step
<1>2. Starting' /\ main' \in {"starting", "looping"}
  <2>1. \A x : StartTable(options)[at] # <<"init", x>> /\ StartTable(options)[at] # <<"start", x>>
    BY <1>1
  <2> QED BY <2>1, AdvanceKeeps
<1>3. SessionTypeOK'
  BY <1>2 DEF SessionInvariant, SessionTypeOK
<1>4. NothingUsedAfterDestroy'
  BY UsesSame DEF SessionInvariant, NothingUsedAfterDestroy, KnownEarly
<1> QED BY <1>2, <1>3, <1>4, StartKeeps

LEMMA SetDeadlineKeeps ==
  ASSUME SessionInvariant, SetDeadline
  PROVE  SessionInvariant'
<1>1. ~options.otg => at # 4
  <2>1. SUFFICES ASSUME ~options.otg, at = 4
                 PROVE  FALSE
    OBVIOUS
  <2>2. Verb = "await"
    BY <2>1 DEF SetDeadline, Verb, Step, StartTable, MirrorStart
  <2> QED BY <2>2 DEF SetDeadline
<1>2. /\ main = "starting" /\ Advance /\ Verb = "set" /\ options' = options /\ life' = life
      /\ thread' = thread /\ stopped' = stopped /\ told' = told /\ asleep' = asleep
      /\ deadline' = "set"
  BY DEF SetDeadline, mainFrame
<1> QED BY <1>1, <1>2, AdvanceOnly


-----------------------------------------------------------------------------
(* The end.                                                                *)

\* What is known where a step of the end is skipped.
LEMMA JoinNotDue ==
  ASSUME NEW alive, NEW t \in Threads, JoinAt(options)[t] # 0,
         EndTable(options)[JoinAt(options)[t]] \notin DueSteps(alive)
  PROVE  thread[t] = "none"
<1> DEFINE k == JoinAt(options)[t]
<1>1. k \in 1 .. Len(EndTable(options)) /\ EndTable(options)[k] = <<"join", t>>
  <2>1. Len(EndTable(options)) \in Nat
    BY EndLengths
  <2>2. k \in 0 .. Len(EndTable(options)) /\ EndTable(options)[k] = <<"join", t>>
    BY JoinPositions
  <2> HIDE DEF k
  <2> QED BY <2>1, <2>2 DEF k
<1>2. <<"join", t>> \in StepsOf(EndTable(options))
  BY <1>1, EndSteps
<1>3. ~Due(<<"join", t>>, alive)
  BY <1>1, <1>2 DEF DueSteps
<1>4. <<"join", t>>[1] = "join" /\ <<"join", t>>[2] = t
  OBVIOUS
<1>5. thread[t] # "none" => Due(<<"join", t>>, alive)
  BY <1>4 DEF Due
<1> QED BY <1>3, <1>5

LEMMA DestroyNotDue ==
  ASSUME NEW alive, NEW c \in Components, DestroyAt(options)[c] # 0,
         EndTable(options)[DestroyAt(options)[c]] \notin DueSteps(alive)
  PROVE  \/ alive[c] # "ready"
         \/ ~options.otg /\ c \in {"acksync", "aoa", "handle", "usb"} /\ thread["aoa"] = "none"
<1> DEFINE k == DestroyAt(options)[c]
<1>1. k \in 1 .. Len(EndTable(options)) /\ EndTable(options)[k] = <<"destroy", c>>
  <2>1. Len(EndTable(options)) \in Nat
    BY EndLengths
  <2>2. k \in 0 .. Len(EndTable(options)) /\ EndTable(options)[k] = <<"destroy", c>>
    BY DestroyPositions
  <2> HIDE DEF k
  <2> QED BY <2>1, <2>2 DEF k
<1>2. <<"destroy", c>> \in StepsOf(EndTable(options))
  BY <1>1, EndSteps
<1>3. ~Due(<<"destroy", c>>, alive)
  BY <1>1, <1>2 DEF DueSteps
<1> QED BY <1>3 DEF Due

\* What the table of the end does not join was never started, and what it does not
\* destroy was never initialised, the window of OTG mode left aside.
LEMMA NeverThere ==
  ASSUME SessionInvariant, Going
  PROVE  /\ \A t \in Threads : JoinAt(options)[t] = 0 => thread[t] = "none"
         /\ \A c \in Components \ KnownLeaks : DestroyAt(options)[c] = 0 => life[c] # "ready"
<1>1. Len(StartTable(options)) = IF options.otg THEN 7 ELSE 24
  BY StartLengths
<1>2. at \in Nat /\ (options.otg => at <= 8)
  BY <1>1 DEF SessionInvariant, Starting, Going
<1>3. ASSUME NEW t \in Threads, JoinAt(options)[t] = 0
      PROVE  thread[t] = "none"
  <2>1. options.otg /\ StartAt(options)[t] = 99
    BY <1>3 DEF JoinAt, StartAt, Threads
  <2> QED BY <1>2, <2>1 DEF SessionInvariant, Starting
<1>4. ASSUME NEW c \in Components \ KnownLeaks, DestroyAt(options)[c] = 0
      PROVE  life[c] # "ready"
  <2>1. options.otg /\ InitAt(options)[c] = 99
    <3>1. options.otg
      BY <1>4 DEF DestroyAt, Components
    <3>2. c # "screen"
      BY <1>4, <3>1 DEF KnownLeaks
    <3> QED BY <1>4, <3>1, <3>2 DEF DestroyAt, InitAt, Components
  <2> QED BY <1>2, <2>1 DEF SessionInvariant, Starting
<1> QED BY <1>3, <1>4

LEMMA GoToEndKeeps ==
  ASSUME SessionInvariant, Going, NEW alive, GoToEnd(alive), life' = alive,
         options' = options, thread' = thread, SessionTypeOK,
         \A c \in Components : alive[c] = "ready" => life[c] = "ready",
         ~options.otg /\ thread["aoa"] = "none" =>
           \A c \in {"acksync", "aoa", "handle", "usb"} \ KnownLeaks' : alive[c] # "ready"
  PROVE  Finishing' /\ main' \in {"ending", "done"}
<1> DEFINE E == EndTable(options)
           n == Len(EndTable(options))
<1>1. n \in Nat /\ n >= 7
  <2>1. n = 7 \/ n = 30
    BY EndLengths
  <2> HIDE DEF n
  <2> QED BY <2>1
<1>2. /\ at' = Seek(E, 1, DueSteps(alive))
      /\ main' = IF at' > n THEN "done" ELSE "ending"
  BY DEF GoToEnd
<1>3. /\ at' \in 1 .. n + 1
      /\ \A k \in 1 .. at' - 1 : E[k] \notin DueSteps(alive)
  <2>1. 1 \in 1 .. n + 1
    BY <1>1
  <2> QED BY <1>1, <1>2, <2>1, SeekFacts
<1>4. ASSUME NEW t \in Threads, JoinAt(options)[t] < at'
      PROVE  thread[t] = "none"
  <2> DEFINE k == JoinAt(options)[t]
  <2>1. k \in 0 .. n
    BY JoinPositions
  <2>2. CASE k = 0
    BY <2>2, NeverThere
  <2>3. CASE k # 0
    <3>1. k \in 1 .. at' - 1
      <4> HIDE DEF k, n
      <4> QED BY <1>1, <1>3, <1>4, <2>1, <2>3 DEF k
    <3> QED BY <1>3, <2>3, <3>1, JoinNotDue
  <2> QED BY <2>2, <2>3
<1>5. ASSUME NEW c \in Components \ KnownLeaks', DestroyAt(options)[c] < at'
      PROVE  alive[c] # "ready"
  <2> DEFINE k == DestroyAt(options)[c]
  <2>1. k \in 0 .. n
    BY DestroyPositions
  <2>2. CASE k = 0
    <3>1. options.otg
      BY <2>2 DEF DestroyAt, Components
    <3>2. c \in Components \ KnownLeaks
      BY <3>1, <1>5 DEF KnownLeaks
    <3> QED BY <2>2, <3>2, NeverThere
  <2>3. CASE k # 0
    <3>1. k \in 1 .. at' - 1
      <4> HIDE DEF k, n
      <4> QED BY <1>1, <1>3, <1>5, <2>1, <2>3 DEF k
    <3>2. \/ alive[c] # "ready"
          \/ ~options.otg /\ c \in {"acksync", "aoa", "handle", "usb"} /\ thread["aoa"] = "none"
      BY <1>3, <2>3, <3>1, DestroyNotDue
    <3> QED BY <1>5, <3>2
  <2> QED BY <2>2, <2>3
<1>6. /\ main' \in {"ending", "done"} /\ at' \in 1 .. n + 1
      /\ main' = "done" => at' = n + 1
      /\ main' = "ending" => at' # n + 1
  <2> HIDE DEF n, E
  <2> QED BY <1>1, <1>2, <1>3
<1> HIDE DEF n
<1>7. Finishing'
  <2>1. EndTable(options)' = EndTable(options) /\ JoinAt(options)' = JoinAt(options)
        /\ DestroyAt(options)' = DestroyAt(options)
    OBVIOUS
  <2>2. ~options.otg /\ thread["aoa"] = "none" =>
           \A c \in {"acksync", "aoa", "handle", "usb"} \ KnownLeaks' : life'[c] # "ready"
    OBVIOUS
  <2> QED BY <1>4, <1>5, <1>6, <2>1, <2>2 DEF Finishing, n
<1> QED BY <1>6, <1>7

\* A step of the start or of the loop that goes to the end.
LEMMA EndKeeps ==
  ASSUME SessionInvariant, Finishing', main' \in {"ending", "done"}, options' = options,
         SessionTypeOK', Rejected', NothingUsedAfterDestroy', main # "refused"
  PROVE  SessionInvariant'
BY DEF SessionInvariant, Kept, Starting, Going

LEMMA AwaitKeeps ==
  ASSUME SessionInvariant, Await
  PROVE  SessionInvariant'
<1>1. /\ main = "starting" /\ Verb = "await" /\ options' = options /\ life' = life
      /\ thread' = thread /\ stopped' = stopped /\ told' = told /\ asleep' = asleep
      /\ deadline' = deadline
  BY DEF Await, mainFrame, sharedVars
<1>2. PICK e \in events :
        /\ events' = events \ {e}
        /\ IF e \notin {"quit", "failed", "connected"} THEN UNCHANGED <<main, at, failed>>
           ELSE IF e = "connected" /\ ~options.list THEN Advance
           ELSE GoToEnd(life) /\ failed' = Step
  BY DEF Await
<1>3. SessionTypeOK /\ deadline \in {"set", "unset"}
  BY DEF SessionInvariant, SessionTypeOK
<1>4. CASE ~options.list /\ Advance
  BY <1>1, <1>3, <1>4, AdvanceOnly
<1>5. CASE GoToEnd(life) /\ failed' = Step
  <2>1. ~options.otg /\ at = 4
    <3>1. at \in 1 .. Len(StartTable(options)) /\ StartTable(options)[at][1] = "await"
      BY <1>1, StartBounds DEF Verb, Step
    <3>2. CASE options.otg
      BY <3>1, <3>2 DEF StartTable, OtgStart
    <3>3. CASE ~options.otg
      BY <3>1, <3>3 DEF StartTable, MirrorStart
    <3> QED BY <3>2, <3>3
  <2>2. \A c \in {"acksync", "aoa", "handle", "usb"} : life[c] # "ready"
    <3>1. \A c \in {"acksync", "aoa", "handle", "usb"} : ~(InitAt(options)[c] < at)
      BY <2>1 DEF InitAt
    <3> QED BY <1>1, <3>1 DEF SessionInvariant, Starting, Going, Components
  <2>3. Finishing' /\ main' \in {"ending", "done"}
    BY <1>1, <1>3, <1>5, <2>2, GoToEndKeeps DEF Going
  <2>4. failed' # NoStep
    <3>1. failed'[1] = "await"
      BY <1>1, <1>5 DEF Verb
    <3> QED BY <3>1 DEF NoStep
  <2>5. SessionTypeOK'
    BY <1>1, <1>3, <2>3 DEF SessionTypeOK
  <2>6. NothingUsedAfterDestroy'
    BY <1>1, UsesSame DEF SessionInvariant, NothingUsedAfterDestroy, KnownEarly
  <2> QED BY <1>1, <2>3, <2>4, <2>5, <2>6, EndKeeps DEF Rejected
<1>6. CASE UNCHANGED <<main, at, failed>>
  <2>1. SessionTypeOK'
    BY <1>1, <1>3, <1>6 DEF SessionTypeOK
  <2>2. Starting'
    BY <1>1, <1>6 DEF SessionInvariant, Starting, Going
  <2>3. NothingUsedAfterDestroy'
    BY <1>1, UsesSame DEF SessionInvariant, NothingUsedAfterDestroy, KnownEarly
  <2> QED BY <1>1, <1>6, <2>1, <2>2, <2>3, StartKeeps
<1> QED BY <1>2, <1>4, <1>5, <1>6

LEMMA LeaveLoopKeeps ==
  ASSUME SessionInvariant, LeaveLoop
  PROVE  SessionInvariant'
<1>1. /\ main = "looping" /\ GoToEnd(life) /\ runnables' = "rejected" /\ events' = {}
      /\ options' = options /\ failed' = failed /\ life' = life /\ thread' = thread
      /\ stopped' = stopped /\ deadline' = deadline /\ told' = told /\ asleep' = asleep
  BY DEF LeaveLoop, sharedVars
<1>2. SessionTypeOK
  BY DEF SessionInvariant
<1>3. ~options.otg /\ thread["aoa"] = "none" =>
        \A c \in {"acksync", "aoa", "handle", "usb"} : life[c] # "ready"
  <2>1. SUFFICES ASSUME ~options.otg, thread["aoa"] = "none"
                 PROVE  \A c \in {"acksync", "aoa", "handle", "usb"} : life[c] # "ready"
    OBVIOUS
  <2>2. at = 25
    <3>1. Len(StartTable(options)) = 24
      BY <2>1, StartLengths
    <3> QED BY <1>1, <3>1 DEF SessionInvariant, Starting
  <2>3. ~Needed("aoa", options)
    BY <1>1, <2>1, <2>2 DEF SessionInvariant, Starting, Going
  <2>4. \A c \in {"acksync", "aoa", "handle", "usb"} : ~Needed(c, options)
    BY <2>3, NeededIs
  <2> QED BY <1>1, <2>4 DEF SessionInvariant, Starting, Going, Components
<1>4. Finishing' /\ main' \in {"ending", "done"}
  BY <1>1, <1>2, <1>3, GoToEndKeeps DEF Going
<1>5. SessionTypeOK'
  BY <1>1, <1>2, <1>4 DEF SessionTypeOK
<1>6. NothingUsedAfterDestroy'
  BY <1>1, UsesSame DEF SessionInvariant, NothingUsedAfterDestroy, KnownEarly
<1> QED BY <1>1, <1>4, <1>5, <1>6, EndKeeps DEF Rejected

\* What fails before the AOA thread is started finds at most the threads of the
\* server and of the recorder.
LEMMA EarlyThreads ==
  ASSUME SessionInvariant, main = "starting", ~options.otg, at <= 15, NEW t \in Threads,
         thread[t] # "none"
  PROVE  t \in {"server", "recorder"}
<1>1. at \in Nat /\ StartAt(options)[t] < at
  BY StartLengths DEF SessionInvariant, Starting, Going
<1>2. StartAt(options)[t] \in Nat /\ StartAt(options)[t] < 15
  BY <1>1, StartPositions
<1> QED BY <1>2 DEF StartAt, Threads

LEMMA StepFailsKeeps ==
  ASSUME SessionInvariant, StepFails
  PROVE  SessionInvariant'
<1>1. /\ main = "starting" /\ Verb \in {"init", "select", "start"} /\ failed' = Step
      /\ life' = [c \in Components |->
           IF c \in Undo(Step) /\ life[c] = "ready" THEN "gone" ELSE life[c]]
      /\ GoToEnd(life') /\ options' = options /\ thread' = thread
      /\ stopped' = stopped /\ deadline' = deadline /\ told' = told /\ asleep' = asleep
  BY DEF StepFails, mainFrame
<1>2. SessionTypeOK
  BY DEF SessionInvariant
<1>3. /\ Len(StartTable(options)) \in Nat /\ at \in 1 .. Len(StartTable(options))
      /\ Step = StartTable(options)[at] /\ Needed(Step[2], options)
  BY <1>1, StartBounds DEF Step
<1>4. Step # NoStep
  BY <1>1 DEF Verb, NoStep
<1>5. \A c \in Components : life'[c] = "ready" => life[c] = "ready" /\ c \notin Undo(Step)
  BY <1>1
<1>6. \A c \in Components : life[c] = "ready" => InitAt(options)[c] < at /\ Needed(c, options)
  BY <1>1 DEF SessionInvariant, Starting, Going
<1>7. ASSUME ~options.otg
      PROVE  /\ Undo(Step) # {} => at <= 15
             /\ at <= 15 => \A c \in {"acksync", "aoa", "handle", "usb"} \ KnownLeaks' :
                              c \in Undo(Step) \/ ~(InitAt(options)[c] < at)
  <2>1. at \in 1 .. 24 /\ Step = MirrorStart[at]
    <3>1. Len(StartTable(options)) = 24 /\ StartTable(options) = MirrorStart
      BY <1>7, StartLengths DEF StartTable
    <3> QED BY <1>3, <3>1
  <2>2. CASE at \in 1 .. 9
    <3>1. \A c \in {"acksync", "aoa", "handle", "usb"} : ~(InitAt(options)[c] < at)
      BY <1>7, <2>2 DEF InitAt
    <3> QED BY <2>2, <3>1
  <2>3. CASE at = 10
    <3>1. Step = <<"init", "usb">>
      BY <2>1, <2>3 DEF MirrorStart
    <3>2. Undo(Step) = {"acksync"}
      BY <1>7, <3>1 DEF Undo
    <3> QED BY <1>7, <2>3, <3>2 DEF InitAt
  <2>4. CASE at = 11
    <3>1. Step = <<"select", "usb">>
      BY <2>1, <2>4 DEF MirrorStart
    <3>2. Undo(Step) = {"usb"}
      BY <1>7, <3>1 DEF Undo
    <3>3. KnownLeaks' = {"acksync"}
      BY <1>1, <1>7, <3>1 DEF KnownLeaks
    <3> QED BY <1>7, <2>4, <3>2, <3>3 DEF InitAt
  <2>5. CASE at = 12
    <3>1. Step = <<"init", "handle">>
      BY <2>1, <2>5 DEF MirrorStart
    <3>2. Undo(Step) = {"usb", "acksync"}
      BY <1>7, <3>1 DEF Undo
    <3> QED BY <1>7, <2>5, <3>2 DEF InitAt
  <2>6. CASE at = 13
    <3>1. Step = <<"init", "aoa">>
      BY <2>1, <2>6 DEF MirrorStart
    <3>2. Undo(Step) = {"handle", "usb", "acksync"}
      BY <1>7, <3>1 DEF Undo
    <3> QED BY <1>7, <2>6, <3>2 DEF InitAt
  <2>7. CASE at = 14 \/ at = 15
    <3>1. Step \in {<<"init", "hid">>, <<"start", "aoa">>}
      BY <2>1, <2>7 DEF MirrorStart
    <3>2. Undo(Step) = {"acksync", "handle", "usb", "aoa"}
      BY <1>7, <3>1 DEF Undo
    <3> QED BY <2>7, <3>2
  <2>8. CASE at \in 16 .. 24
    <3>1. Step \notin {<<"init", "usb">>, <<"select", "usb">>, <<"init", "handle">>,
                       <<"init", "aoa">>, <<"init", "hid">>, <<"start", "aoa">>}
      BY <2>1, <2>8 DEF MirrorStart
    <3>2. Undo(Step) = {}
      BY <1>7, <3>1 DEF Undo
    <3> QED BY <2>8, <3>2
  <2> QED BY <2>1, <2>2, <2>3, <2>4, <2>5, <2>6, <2>7, <2>8
<1>8. ~options.otg /\ thread["aoa"] = "none" =>
        \A c \in {"acksync", "aoa", "handle", "usb"} \ KnownLeaks' : life'[c] # "ready"
  <2>1. SUFFICES ASSUME ~options.otg, thread["aoa"] = "none",
                        NEW c \in {"acksync", "aoa", "handle", "usb"} \ KnownLeaks',
                        life'[c] = "ready"
                 PROVE  FALSE
    OBVIOUS
  <2>2. /\ c \in Components /\ c \notin Undo(Step) /\ InitAt(options)[c] < at
        /\ Needed("aoa", options)
    <3>1. c \in Components
      BY <2>1 DEF Components
    <3> QED BY <1>5, <1>6, <2>1, <3>1, NeededIs
  <2>3. at <= 15
    <3>1. at \in Nat /\ ~(15 < at)
      BY <1>1, <1>3, <2>1, <2>2 DEF SessionInvariant, Starting, Going
    <3> QED BY <3>1
  <2> QED BY <1>7, <2>1, <2>2, <2>3
<1>9. Finishing' /\ main' \in {"ending", "done"}
  BY <1>1, <1>2, <1>5, <1>8, GoToEndKeeps DEF Going
<1>10. SessionTypeOK'
  BY <1>1, <1>2, <1>9 DEF SessionTypeOK
<1>11. NothingUsedAfterDestroy'
  <2>1. SUFFICES ASSUME NEW t \in Threads, thread[t] = "running", NEW c \in Uses(t),
                        life'[c] # "ready"
                 PROVE  <<t, c>> \in KnownEarly
    BY <1>1, UsesSame DEF NothingUsedAfterDestroy, KnownEarly
  <2>2. CASE life[c] # "ready"
    BY <2>1, <2>2 DEF SessionInvariant, NothingUsedAfterDestroy
  <2>3. CASE life[c] = "ready"
    <3>1. c \in Components
      BY <2>1 DEF Uses, Components, Threads
    <3>2. c \in Undo(Step)
      BY <1>1, <2>1, <2>3, <3>1
    <3>3. ~options.otg
      BY <3>2 DEF Undo
    <3>4. t \in {"server", "recorder"}
      BY <1>1, <1>7, <2>1, <3>2, <3>3, EarlyThreads
    <3>5. c \in {"acksync", "usb", "handle", "aoa"}
      BY <3>2 DEF Undo
    <3> QED BY <2>1, <3>4, <3>5 DEF Uses
  <2> QED BY <2>2, <2>3
<1> QED BY <1>1, <1>4, <1>9, <1>10, <1>11, EndKeeps DEF Rejected

-----------------------------------------------------------------------------
(* The other steps.                                                        *)

\* The other threads, the device, the user and time: threads end, and events are
\* pushed as long as they are polled.
LEMMA WorldKeeps ==
  ASSUME SessionInvariant, options' = options, main' = main, at' = at, failed' = failed,
         life' = life, stopped' = stopped, deadline' = deadline,
         told' \in {"nothing", "connected", "failed"}, asleep' \in {"nothing", "unset", "set"},
         thread' \in [Threads -> {"none", "running", "over", "joined"}],
         \A t \in Threads : thread'[t] = thread[t] \/ (thread[t] = "running" /\ thread'[t] = "over"),
         Rejected'
  PROVE  SessionInvariant'
<1>1. SessionTypeOK'
  BY DEF SessionInvariant, SessionTypeOK
<1>2. Kept'
  BY DEF SessionInvariant, Kept
<1>3. Starting'
  BY DEF SessionInvariant, Starting, Going, Threads
<1>4. Finishing'
  <2>1. SUFFICES ASSUME main \in {"ending", "done"}
                 PROVE  Finishing'
    BY DEF Finishing
  <2>2. \A t \in Threads : thread[t] \in {"none", "joined"} => thread'[t] = thread[t]
    OBVIOUS
  <2>3. thread'["aoa"] = "none" => thread["aoa"] = "none"
    BY DEF Threads
  <2>4. KnownLeaks' = KnownLeaks
    BY DEF KnownLeaks
  <2> QED BY <2>1, <2>2, <2>3, <2>4 DEF SessionInvariant, Finishing
<1>5. NothingUsedAfterDestroy'
  BY UsesSame DEF SessionInvariant, NothingUsedAfterDestroy, KnownEarly
<1> QED BY <1>1, <1>2, <1>3, <1>4, <1>5 DEF SessionInvariant

LEMMA ReturnKeeps ==
  ASSUME SessionInvariant, Running, NEW t \in Threads, NEW S, Return(t, S),
         told' \in {"nothing", "connected", "failed"}, asleep' \in {"nothing", "unset", "set"}
  PROVE  SessionInvariant'
<1>1. /\ thread[t] = "running" /\ thread' = [thread EXCEPT ![t] = "over"]
      /\ events' = Pushed(S) /\ options' = options /\ main' = main /\ at' = at
      /\ failed' = failed /\ life' = life /\ stopped' = stopped /\ deadline' = deadline
      /\ runnables' = runnables
  BY DEF Return, threadFrame, sharedVars
<1>2. Rejected'
  BY <1>1 DEF SessionInvariant, Rejected, Pushed
<1>3. thread \in [Threads -> {"none", "running", "over", "joined"}]
  BY DEF SessionInvariant, SessionTypeOK
<1>4. /\ thread' \in [Threads -> {"none", "running", "over", "joined"}]
      /\ \A u \in Threads : thread'[u] = thread[u] \/ (thread[u] = "running" /\ thread'[u] = "over")
  BY <1>1, <1>3
<1> QED BY <1>1, <1>2, <1>4, WorldKeeps

LEMMA ThreadTypes ==
  ASSUME SessionInvariant
  PROVE  /\ told \in {"nothing", "connected", "failed"} /\ asleep \in {"nothing", "unset", "set"}
         /\ deadline \in {"unset", "set"}
         /\ thread \in [Threads -> {"none", "running", "over", "joined"}]
BY DEF SessionInvariant, SessionTypeOK

LEMMA ServerKeeps ==
  ASSUME SessionInvariant, Running, Connect \/ Fail \/ EndServer
  PROVE  SessionInvariant'
<1>1. "server" \in Threads
  BY DEF Threads
<1>2. CASE Connect
  <2>1. /\ options' = options /\ main' = main /\ at' = at /\ failed' = failed /\ life' = life
        /\ stopped' = stopped /\ deadline' = deadline /\ runnables' = runnables
        /\ asleep' = asleep /\ told' = "connected" /\ events' = Pushed({"connected"})
        /\ thread["server"] = "running"
        /\ thread' = [thread EXCEPT !["server"] = IF options.list THEN "over" ELSE @]
    BY <1>2 DEF Connect, threadFrame, sharedVars
  <2>2. Rejected'
    BY <2>1 DEF SessionInvariant, Rejected, Pushed
  <2>3. /\ thread' \in [Threads -> {"none", "running", "over", "joined"}]
        /\ \A u \in Threads : thread'[u] = thread[u] \/ (thread[u] = "running" /\ thread'[u] = "over")
    BY <2>1, ThreadTypes
  <2> QED BY <2>1, <2>2, <2>3, ThreadTypes, WorldKeeps
<1>3. CASE Fail
  BY <1>1, <1>3, ThreadTypes, ReturnKeeps DEF Fail
<1>4. CASE EndServer
  BY <1>1, <1>4, ThreadTypes, ReturnKeeps DEF EndServer
<1> QED BY <1>2, <1>3, <1>4

LEMMA StreamKeeps ==
  ASSUME SessionInvariant, Running, NEW t \in Threads,
         EndOfStream(t) \/ StreamFails(t) \/ Obey(t) \/ AudioDisabled
  PROVE  SessionInvariant'
<1>1. told' = told /\ asleep' = asleep
  BY DEF EndOfStream, StreamFails, Obey, AudioDisabled
<1>2. \E u \in Threads : \E S : Return(u, S)
  <2>1. CASE EndOfStream(t)
    BY <2>1 DEF EndOfStream
  <2>2. CASE StreamFails(t)
    BY <2>2 DEF StreamFails
  <2>3. CASE Obey(t)
    BY <2>3 DEF Obey
  <2>4. CASE AudioDisabled
    <3>1. "audio" \in Threads
      BY DEF Threads
    <3> QED BY <2>4, <3>1 DEF AudioDisabled
  <2> QED BY <2>1, <2>2, <2>3, <2>4
<1> QED BY <1>1, <1>2, ThreadTypes, ReturnKeeps

LEMMA QuietKeeps ==
  ASSUME SessionInvariant, Running, options' = options, main' = main, at' = at,
         failed' = failed, sharedVars' = sharedVars, thread' = thread, told' = told,
         asleep' \in {"nothing", "unset", "set"}, runnables' = runnables,
         events' = events \/ runnables = "accepted" \/ main \in {"starting", "looping"}
  PROVE  SessionInvariant'
<1>1. Rejected'
  BY DEF SessionInvariant, Rejected
<1> QED BY <1>1, ThreadTypes, WorldKeeps DEF sharedVars

LEMMA OutsideKeeps ==
  ASSUME SessionInvariant, Running,
         PostRunnable \/ ReadDeadline \/ DeviceDies \/ Quit \/ Elapse \/ RunRunnable
  PROVE  SessionInvariant'
<1>1. CASE PostRunnable
  BY <1>1, ThreadTypes, QuietKeeps DEF PostRunnable, threadFrame
<1>2. CASE ReadDeadline
  <2>1. asleep' = deadline
    BY <1>2 DEF ReadDeadline
  <2> QED BY <1>2, <2>1, ThreadTypes, QuietKeeps DEF ReadDeadline, threadFrame
<1>3. CASE DeviceDies
  BY <1>3, ThreadTypes, QuietKeeps DEF DeviceDies
<1>4. CASE Quit
  BY <1>4, ThreadTypes, QuietKeeps DEF Quit
<1>5. CASE Elapse
  BY <1>5, ThreadTypes, QuietKeeps DEF Elapse
<1>6. CASE RunRunnable
  BY <1>6, ThreadTypes, QuietKeeps DEF RunRunnable, mainFrame
<1> QED BY <1>1, <1>2, <1>3, <1>4, <1>5, <1>6

LEMMA TimeOutKeeps ==
  ASSUME SessionInvariant, Running, TimeOut
  PROVE  SessionInvariant'
<1>1. told' = told /\ asleep' = asleep
  BY DEF TimeOut
<1>2. CASE deadline = "set"
  <2>1. Return("timeout", {"time limit"}) /\ "timeout" \in Threads
    BY <1>2 DEF TimeOut, Threads
  <2> QED BY <1>1, <2>1, ThreadTypes, ReturnKeeps
<1>3. CASE deadline # "set"
  <2>1. /\ main' = "crashed" /\ options' = options /\ life' = life /\ stopped' = stopped
        /\ deadline' = deadline /\ thread' = thread
    BY <1>3 DEF TimeOut, sharedVars
  <2>2. SessionTypeOK'
    BY <1>1, <2>1 DEF SessionInvariant, SessionTypeOK
  <2>3. Kept'
    BY <2>1 DEF SessionInvariant, Kept, Running
  <2>4. NothingUsedAfterDestroy'
    BY <2>1, UsesSame DEF SessionInvariant, NothingUsedAfterDestroy, KnownEarly
  <2> QED BY <2>1, <2>2, <2>3, <2>4 DEF SessionInvariant, Starting, Finishing, Rejected, Going
<1> QED BY <1>2, <1>3

LEMMA UnpluggedKeeps ==
  ASSUME SessionInvariant, Running, NEW t \in Threads, Unplugged(t)
  PROVE  SessionInvariant'
<1>1. /\ told' = told /\ asleep' = asleep /\ options' = options /\ main' = main /\ at' = at
      /\ failed' = failed /\ life' = life /\ stopped' = stopped /\ deadline' = deadline
      /\ runnables' = runnables /\ thread[t] = "running"
      /\ events' = IF options.otg THEN Pushed({"usb disconnected"}) ELSE events
      /\ thread' = IF t = "aoa" THEN [thread EXCEPT !["aoa"] = "over"] ELSE thread
  BY DEF Unplugged, threadFrame, sharedVars
<1>2. Rejected'
  BY <1>1 DEF SessionInvariant, Rejected, Pushed
<1>3. /\ thread' \in [Threads -> {"none", "running", "over", "joined"}]
      /\ \A u \in Threads : thread'[u] = thread[u] \/ (thread[u] = "running" /\ thread'[u] = "over")
  BY <1>1, ThreadTypes
<1> QED BY <1>1, <1>2, <1>3, ThreadTypes, WorldKeeps

\* The file pusher and the frame counter start their thread when it is needed.
LEMMA LazilyKeeps ==
  ASSUME SessionInvariant, NEW t \in Threads, StartLazily(t)
  PROVE  SessionInvariant'
<1>1. /\ main = "looping" /\ options' = options /\ main' = main /\ at' = at
      /\ life' = life /\ stopped' = stopped /\ deadline' = deadline /\ told' = told
      /\ asleep' = asleep /\ thread' = [thread EXCEPT ![t] = "running"]
      /\ \/ t = "pusher" /\ life["pusher"] = "ready"
         \/ t = "fps" /\ options.videoPlayback /\ ~options.otg
  BY DEF StartLazily, mainFrame, sharedVars
<1>2. /\ at = Len(StartTable(options)) + 1
      /\ \A c \in Components :
           life[c] = IF InitAt(options)[c] < at /\ Needed(c, options) THEN "ready" ELSE "none"
      /\ ~options.otg /\ at > 4 => ~options.list
  BY <1>1 DEF SessionInvariant, Starting, Going
<1>3. SessionTypeOK
  BY DEF SessionInvariant
<1>4. ~options.otg /\ at = 25
  <2>1. ~options.otg
    <3>1. SUFFICES ASSUME options.otg, t = "pusher", life["pusher"] = "ready"
                   PROVE  FALSE
      BY <1>1
    <3>2. at = 8
      <4>1. Len(StartTable(options)) = 7
        BY <3>1, StartLengths
      <4> QED BY <1>2, <4>1
    <3>3. InitAt(options)["pusher"] = 99
      BY <3>1 DEF InitAt
    <3> QED BY <1>2, <3>1, <3>2, <3>3 DEF Components
  <2>2. Len(StartTable(options)) = 24
    BY <2>1, StartLengths
  <2> QED BY <1>2, <2>1, <2>2
<1>5. \A c \in Uses(t) : life[c] = "ready"
  <2>1. CASE t = "pusher"
    BY <1>1, <2>1 DEF Uses
  <2>2. CASE t = "fps" /\ options.videoPlayback
    <3>1. options.window /\ ~options.list
      BY <1>1, <1>2, <1>4, <2>2 DEF SessionInvariant, Kept
    <3>2. Needed("screen", options) /\ InitAt(options)["screen"] < at
      BY <1>4, <3>1, NeededIs DEF InitAt
    <3>3. life["screen"] = "ready"
      BY <1>2, <3>2 DEF Components
    <3> QED BY <2>2, <3>3 DEF Uses
  <2> QED BY <1>1, <2>1, <2>2
<1>6. SessionTypeOK'
  BY <1>1, <1>3 DEF SessionTypeOK
<1>7. Starting'
  <2>1. \A u \in Threads : thread'[u] # "none" => StartAt(options)[u] < at
    <3>1. SUFFICES ASSUME NEW u \in Threads, thread'[u] # "none"
                   PROVE  StartAt(options)[u] < at
      OBVIOUS
    <3>2. CASE u = t
      BY <1>1, <1>4, <3>2 DEF StartAt
    <3>3. CASE u # t
      <4>1. thread[u] # "none"
        BY <1>1, <1>3, <3>1, <3>3 DEF SessionTypeOK
      <4> QED BY <1>1, <4>1 DEF SessionInvariant, Starting, Going
    <3> QED BY <3>2, <3>3
  <2>2. thread["aoa"] # "none" => thread'["aoa"] # "none"
    BY <1>1, <1>3 DEF SessionTypeOK
  <2> QED BY <1>1, <2>1, <2>2 DEF SessionInvariant, Starting, Going
<1>8. NothingUsedAfterDestroy'
  <2>1. SUFFICES ASSUME NEW u \in Threads, thread'[u] = "running", NEW c \in Uses(u),
                        life[c] # "ready"
                 PROVE  <<u, c>> \in KnownEarly
    BY <1>1, UsesSame DEF NothingUsedAfterDestroy, KnownEarly
  <2>2. u # t /\ thread[u] = "running"
    BY <1>1, <1>3, <1>5, <2>1 DEF SessionTypeOK
  <2> QED BY <2>1, <2>2 DEF SessionInvariant, NothingUsedAfterDestroy
<1> QED BY <1>1, <1>6, <1>7, <1>8 DEF SessionInvariant, Kept, Finishing, Rejected

\* A step of the end.
LEMMA FinishKeeps ==
  ASSUME SessionInvariant, main = "ending", Finish, SessionTypeOK',
         \A c \in Components : life'[c] = "ready" => life[c] = "ready",
         \A c \in Components : EndTable(options)[at] = <<"destroy", c>> => life'[c] # "ready",
         \A t \in Threads : thread[t] \in {"none", "joined"} => thread'[t] = thread[t],
         \A t \in Threads : EndTable(options)[at] = <<"join", t>> => thread'[t] = "joined",
         thread'["aoa"] = "none" => thread["aoa"] = "none",
         NothingUsedAfterDestroy'
  PROVE  SessionInvariant'
<1> DEFINE E == EndTable(options)
           n == Len(EndTable(options))
<1>1. n \in Nat /\ at \in 1 .. n /\ at \in Nat
  <2>1. n \in Nat
    BY EndLengths
  <2>2. at \in 1 .. n + 1 /\ at # n + 1
    BY DEF SessionInvariant, Finishing
  <2> HIDE DEF n
  <2> QED BY <2>1, <2>2
<1>2. /\ at' = Seek(E, at + 1, DueSteps(life))
      /\ main' = IF at' > n THEN "done" ELSE "ending"
      /\ options' = options /\ failed' = failed /\ runnables' = runnables /\ events' = events
  BY DEF Finish, mainFrame
<1>3. at' \in at + 1 .. n + 1 /\ \A k \in at + 1 .. at' - 1 : E[k] \notin DueSteps(life)
  <2>1. at + 1 \in 1 .. n + 1
    <3> HIDE DEF n
    <3> QED BY <1>1
  <2> QED BY <1>1, <1>2, <2>1, SeekFacts
<1>4. /\ at' \in Nat /\ at < at' /\ at' <= n + 1
      /\ \A k \in Nat : at < k /\ k < at' => k \in at + 1 .. at' - 1
  <2> HIDE DEF n, E
  <2> QED BY <1>1, <1>3, Skipped
<1>5. KnownLeaks' = KnownLeaks
  BY <1>2 DEF KnownLeaks
<1>6. ASSUME NEW t \in Threads, JoinAt(options)[t] < at'
      PROVE  thread'[t] \in {"none", "joined"}
  <2> DEFINE k == JoinAt(options)[t]
  <2>1. k \in Nat /\ (k # 0 => E[k] = <<"join", t>>)
    <3>1. k \in 0 .. n /\ (k # 0 => E[k] = <<"join", t>>)
      BY JoinPositions
    <3> QED BY <3>1
  <2>2. CASE k < at
    BY <2>2 DEF SessionInvariant, Finishing
  <2>3. CASE k = at
    <3>1. k # 0
      BY <1>1, <2>3
    <3> QED BY <2>1, <2>3, <3>1
  <2>4. CASE at < k
    <3>1. k \in at + 1 .. at' - 1 /\ k # 0
      <4> HIDE DEF k
      <4> QED BY <1>1, <1>4, <1>6, <2>1, <2>4 DEF k
    <3> QED BY <1>3, <3>1, JoinNotDue
  <2> HIDE DEF k
  <2> QED BY <1>1, <2>1, <2>2, <2>3, <2>4
<1>7. ASSUME NEW c \in Components \ KnownLeaks, DestroyAt(options)[c] < at'
      PROVE  life'[c] # "ready"
  <2> DEFINE k == DestroyAt(options)[c]
  <2>1. k \in Nat /\ (k # 0 => E[k] = <<"destroy", c>>)
    <3>1. k \in 0 .. n /\ (k # 0 => E[k] = <<"destroy", c>>)
      BY DestroyPositions
    <3> QED BY <3>1
  <2>2. CASE k < at
    BY <2>2 DEF SessionInvariant, Finishing
  <2>3. CASE k = at
    <3>1. k # 0
      BY <1>1, <2>3
    <3> QED BY <2>1, <2>3, <3>1
  <2>4. CASE at < k
    <3>1. k \in at + 1 .. at' - 1 /\ k # 0
      <4> HIDE DEF k
      <4> QED BY <1>1, <1>4, <1>7, <2>1, <2>4 DEF k
    <3>2. \/ life[c] # "ready"
          \/ ~options.otg /\ c \in {"acksync", "aoa", "handle", "usb"} /\ thread["aoa"] = "none"
      BY <1>3, <3>1, DestroyNotDue
    <3> QED BY <3>2 DEF SessionInvariant, Finishing
  <2> HIDE DEF k
  <2> QED BY <1>1, <2>1, <2>2, <2>3, <2>4
<1>8. /\ main' \in {"ending", "done"} /\ at' \in 1 .. n + 1
      /\ main' = "done" => at' = n + 1
      /\ main' = "ending" => at' # n + 1
  <2> HIDE DEF n, E
  <2> QED BY <1>1, <1>2, <1>4
<1>9. ~options.otg /\ thread'["aoa"] = "none" =>
        \A c \in {"acksync", "aoa", "handle", "usb"} \ KnownLeaks : life'[c] # "ready"
  BY DEF SessionInvariant, Finishing, Components
<1> HIDE DEF n
<1>10. Finishing'
  BY <1>2, <1>5, <1>6, <1>7, <1>8, <1>9 DEF Finishing, n
<1>11. Rejected'
  BY <1>2 DEF SessionInvariant, Rejected
<1> QED BY <1>2, <1>8, <1>10, <1>11, EndKeeps

LEMMA EndBounds ==
  ASSUME SessionInvariant, main = "ending"
  PROVE  /\ at \in 1 .. Len(EndTable(options)) /\ Step = EndTable(options)[at]
         /\ EndTable(options)[at] = <<Verb, Object>>
         /\ Verb = "stop" => Object \in Components
<1> DEFINE n == Len(EndTable(options))
<1>1. at \in 1 .. n
  <2>1. n \in Nat
    BY EndLengths
  <2>2. at \in 1 .. n + 1 /\ at # n + 1
    BY DEF SessionInvariant, Finishing
  <2> HIDE DEF n
  <2> QED BY <2>1, <2>2
<1>2. Step = EndTable(options)[at]
  BY DEF Step
<1> QED BY <1>1, <1>2, EndSteps DEF Verb, Object

LEMMA StopKeeps ==
  ASSUME SessionInvariant, StopComponent
  PROVE  SessionInvariant'
<1>1. /\ main = "ending" /\ Verb = "stop" /\ stopped' = stopped \cup {Object} /\ Finish
      /\ life' = life /\ thread' = thread
  BY DEF StopComponent
<1>2. /\ options' = options /\ told' = told /\ asleep' = asleep /\ deadline' = deadline
      /\ main' \in {"ending", "done"}
  BY <1>1 DEF Finish, mainFrame
<1>3. Object \in Components /\ EndTable(options)[at] = <<"stop", Object>>
  BY <1>1, EndBounds
<1>4. SessionTypeOK'
  BY <1>1, <1>2, <1>3 DEF SessionInvariant, SessionTypeOK
<1>5. NothingUsedAfterDestroy'
  BY <1>1, <1>2, UsesSame DEF SessionInvariant, NothingUsedAfterDestroy, KnownEarly
<1>6. \A x : EndTable(options)[at] # <<"join", x>> /\ EndTable(options)[at] # <<"destroy", x>>
  BY <1>3
<1> QED BY <1>1, <1>4, <1>5, <1>6, FinishKeeps

LEMMA JoinKeeps ==
  ASSUME SessionInvariant, JoinThread
  PROVE  SessionInvariant'
<1>1. /\ main = "ending" /\ Verb = "join" /\ thread[Object] = "over" /\ Finish
      /\ thread' = [thread EXCEPT ![Object] = "joined"] /\ life' = life /\ stopped' = stopped
  BY DEF JoinThread
<1>2. /\ options' = options /\ told' = told /\ asleep' = asleep /\ deadline' = deadline
      /\ main' \in {"ending", "done"}
  BY <1>1 DEF Finish, mainFrame
<1>3. EndTable(options)[at] = <<"join", Object>>
  BY <1>1, EndBounds
<1>4. SessionTypeOK
  BY DEF SessionInvariant
<1>5. SessionTypeOK'
  BY <1>1, <1>2, <1>4 DEF SessionTypeOK
<1>6. /\ \A t \in Threads : thread[t] \in {"none", "joined"} => thread'[t] = thread[t]
      /\ \A t \in Threads : EndTable(options)[at] = <<"join", t>> => thread'[t] = "joined"
      /\ \A t \in Threads : thread'[t] \in {"none", "running"} => thread'[t] = thread[t]
  BY <1>1, <1>3, <1>4 DEF SessionTypeOK
<1>7. NothingUsedAfterDestroy'
  BY <1>1, <1>2, <1>6, UsesSame DEF SessionInvariant, NothingUsedAfterDestroy, KnownEarly
<1>8. \A c \in Components : EndTable(options)[at] # <<"destroy", c>>
  BY <1>3
<1>9. thread'["aoa"] = "none" => thread["aoa"] = "none"
  BY <1>6 DEF Threads
<1> QED BY <1>1, <1>5, <1>6, <1>7, <1>8, <1>9, FinishKeeps

\* The order of the table of the end: a thread is joined before what it uses is
\* destroyed.
LEMMA JoinedBeforeDestroyed ==
  ASSUME NEW t \in Threads, NEW c \in Uses(t), DestroyAt(options)[c] # 0
  PROVE  <<t, c>> \in KnownEarly \/ JoinAt(options)[t] < DestroyAt(options)[c]
<1>1. CASE options.otg
  <2>1. c \in Components
    BY DEF Uses, Components, Threads
  <2>2. c \in {"usb", "handle", "aoa"}
    BY <1>1, <2>1 DEF DestroyAt, Components
  <2>3. t \in {"aoa", "usbev"}
    BY <2>2 DEF Uses, Threads
  <2>4. t = "usbev" => c # "aoa"
    BY DEF Uses
  <2> QED BY <1>1, <2>2, <2>3, <2>4 DEF JoinAt, DestroyAt
<1>2. CASE ~options.otg
  <2>1. CASE t = "video"
    BY <1>2, <2>1 DEF Uses, JoinAt, DestroyAt
  <2>2. CASE t = "audio"
    BY <1>2, <2>2 DEF Uses, JoinAt, DestroyAt
  <2>3. CASE t = "receiver"
    BY <1>2, <2>3 DEF Uses, JoinAt, DestroyAt, KnownEarly
  <2>4. CASE t = "aoa"
    BY <1>2, <2>4 DEF Uses, JoinAt, DestroyAt, KnownEarly
  <2>5. CASE t = "fps" \/ t = "usbev"
    BY <1>2, <2>5 DEF Uses, JoinAt, DestroyAt
  <2>6. CASE t \in {"server", "recorder", "controller", "timeout", "pusher"}
    BY <1>2, <2>6 DEF Uses, JoinAt, DestroyAt
  <2> QED BY <2>1, <2>2, <2>3, <2>4, <2>5, <2>6 DEF Threads
<1> QED BY <1>1, <1>2

LEMMA DestroyKeeps ==
  ASSUME SessionInvariant, DestroyComponent
  PROVE  SessionInvariant'
<1>1. /\ main = "ending" /\ Verb = "destroy" /\ Finish
      /\ life' = [life EXCEPT ![Object] = "gone"] /\ thread' = thread /\ stopped' = stopped
  BY DEF DestroyComponent
<1>2. /\ options' = options /\ told' = told /\ asleep' = asleep /\ deadline' = deadline
      /\ main' \in {"ending", "done"}
  BY <1>1 DEF Finish, mainFrame
<1>3. EndTable(options)[at] = <<"destroy", Object>> /\ at \in 1 .. Len(EndTable(options))
  BY <1>1, EndBounds
<1>4. SessionTypeOK
  BY DEF SessionInvariant
<1>5. SessionTypeOK'
  BY <1>1, <1>2, <1>4 DEF SessionTypeOK
<1>6. /\ \A c \in Components : life'[c] = "ready" => life[c] = "ready"
      /\ \A c \in Components : EndTable(options)[at] = <<"destroy", c>> => life'[c] # "ready"
      /\ \A c \in Components : c # Object => life'[c] = life[c]
  BY <1>1, <1>3, <1>4 DEF SessionTypeOK
<1>7. NothingUsedAfterDestroy'
  <2>1. SUFFICES ASSUME NEW t \in Threads, thread[t] = "running", NEW c \in Uses(t),
                        life'[c] # "ready"
                 PROVE  <<t, c>> \in KnownEarly
    BY <1>1, <1>2, UsesSame DEF NothingUsedAfterDestroy, KnownEarly
  <2>2. CASE life[c] # "ready"
    BY <2>1, <2>2 DEF SessionInvariant, NothingUsedAfterDestroy
  <2>3. CASE life[c] = "ready"
    <3>1. c \in Components
      BY <2>1 DEF Uses, Components, Threads
    <3>2. c = Object
      BY <1>6, <2>1, <2>3, <3>1
    <3>3. at = DestroyAt(options)[c]
      BY <1>3, <3>1, <3>2, DestroyPositions
    <3>4. at # 0
      <4>1. Len(EndTable(options)) \in Nat
        BY EndLengths
      <4> QED BY <1>3, <4>1
    <3>5. ~(JoinAt(options)[t] < at)
      BY <1>1, <2>1 DEF SessionInvariant, Finishing
    <3> QED BY <2>1, <3>3, <3>4, <3>5, JoinedBeforeDestroyed
  <2> QED BY <2>2, <2>3
<1>8. \A t \in Threads : EndTable(options)[at] # <<"join", t>>
  BY <1>3
<1> QED BY <1>1, <1>5, <1>6, <1>7, <1>8, FinishKeeps

-----------------------------------------------------------------------------
(* The theorems.                                                           *)

LEMMA SessionStep == SessionInvariant /\ [SessionNext]_sessionVars => SessionInvariant'
<1> SUFFICES ASSUME SessionInvariant, [SessionNext]_sessionVars
             PROVE  SessionInvariant'
  OBVIOUS
<1>1. CASE UNCHANGED sessionVars
  <2>1. /\ options' = options /\ main' = main /\ at' = at /\ failed' = failed /\ life' = life
        /\ stopped' = stopped /\ deadline' = deadline /\ told' = told /\ asleep' = asleep
        /\ thread' = thread /\ events' = events /\ runnables' = runnables
    BY <1>1 DEF sessionVars, sharedVars
  <2>2. Rejected'
    BY <2>1 DEF SessionInvariant, Rejected
  <2> QED BY <2>1, <2>2, ThreadTypes, WorldKeeps
<1>2. CASE SessionNext
  <2>1. Running
    BY <1>2 DEF SessionNext
  <2>2. CASE InitComponent \/ StartThread \/ SetDeadline \/ Await \/ LeaveLoop \/ StepFails
    BY <2>2, InitKeeps, StartThreadKeeps, SetDeadlineKeeps, AwaitKeeps, LeaveLoopKeeps,
       StepFailsKeeps
  <2>3. CASE StopComponent \/ JoinThread \/ DestroyComponent
    BY <2>3, StopKeeps, JoinKeeps, DestroyKeeps
  <2>4. CASE \/ RunRunnable \/ PostRunnable \/ ReadDeadline \/ DeviceDies \/ Quit \/ Elapse
    BY <2>1, <2>4, OutsideKeeps
  <2>5. CASE Connect \/ Fail \/ EndServer
    BY <2>1, <2>5, ServerKeeps
  <2>6. CASE TimeOut
    BY <2>1, <2>6, TimeOutKeeps
  <2>7. CASE AudioDisabled
    <3>1. "audio" \in Threads
      BY DEF Threads
    <3> QED BY <2>1, <2>7, <3>1, StreamKeeps
  <2>8. ASSUME NEW t \in Threads,
               \/ EndOfStream(t) \/ Obey(t) \/ Unplugged(t) \/ StartLazily(t) \/ StreamFails(t)
        PROVE  SessionInvariant'
    BY <2>1, <2>8, StreamKeeps, UnpluggedKeeps, LazilyKeeps
  <2> QED BY <1>2, <2>2, <2>3, <2>4, <2>5, <2>6, <2>7, <2>8 DEF SessionNext, MainStep, Thread
<1> QED BY <1>1, <1>2

\* The inductive invariant of a session.
THEOREM SessionInvariance == SessionSpec => []SessionInvariant
<1>1. SessionInit => SessionInvariant
  BY SessionInitial
<1>2. SessionInvariant /\ [SessionNext]_sessionVars => SessionInvariant'
  BY SessionStep
<1> QED BY <1>1, <1>2, PTL DEF SessionSpec

\* What the other modules of the client assert of the options holds for every
\* command line that cli.c accepts, of any length (scrcpy.c:507, scrcpy_otg.c:145).
THEOREM OptionsKeepAssertions == SessionSpec => []AssertionsHold
<1>1. SessionInvariant => AssertionsHold
  BY DEF SessionInvariant, Kept, AssertionsHold
<1> QED BY <1>1, SessionInvariance, PTL

\* Whatever the options, whatever step of the start failed, no component is
\* destroyed while a thread may use it, the two known cases left aside.
THEOREM UsedBeforeDestroy == SessionSpec => []NothingUsedAfterDestroy
<1>1. SessionInvariant => NothingUsedAfterDestroy
  BY DEF SessionInvariant
<1> QED BY <1>1, SessionInvariance, PTL

\* Components, threads, runnables: nothing of a session outlives it, the known
\* leaks left aside.
THEOREM NothingOutlives == SessionSpec => []NothingLeaks
<1>1. SessionInvariant => NothingLeaks
  <2>1. SUFFICES ASSUME SessionInvariant
                 PROVE  NothingLeaks
    OBVIOUS
  <2>2. NoRunnableLost
    BY <2>1 DEF SessionInvariant, Rejected, NoRunnableLost
  <2>3. ASSUME main = "done"
        PROVE  /\ \A c \in Components \ KnownLeaks : life[c] # "ready"
               /\ \A t \in Threads : thread[t] \in {"none", "joined"}
    <3> DEFINE n == Len(EndTable(options))
    <3>1. n \in Nat /\ at = n + 1
      BY <2>1, <2>3, EndLengths DEF SessionInvariant, Finishing
    <3>2. \A t \in Threads : JoinAt(options)[t] \in 0 .. n
      BY JoinPositions
    <3>3. \A c \in Components : DestroyAt(options)[c] \in 0 .. n
      BY DestroyPositions
    <3> HIDE DEF n
    <3>4. \A k \in 0 .. n : k < at
      BY <3>1
    <3> QED BY <2>1, <2>3, <3>2, <3>3, <3>4 DEF SessionInvariant, Finishing
  <2> QED BY <2>2, <2>3 DEF NothingLeaks, AllReleased
<1> QED BY <1>1, SessionInvariance, PTL
=============================================================================
