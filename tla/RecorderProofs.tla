--------------------------- MODULE RecorderProofs ----------------------------
(***************************************************************************)
(* The recorder, for any bounds and any time base: types, increasing        *)
(* timestamps, no lost wakeup, nothing left in the queues, and nothing lost *)
(* by a recording that succeeds.                                            *)
(***************************************************************************)
EXTENDS Recorder, FiniteSetTheorems, FunctionTheorems, TLAPS

\* The frames in a queue, config packets apart.
MediaAt(q) == {i \in DOMAIN q : q[i] # NoPts}
Frames(q)  == Cardinality(MediaAt(q))

\* Once the thread ended nothing enters the queues, which are empty.
Ended == thread = "done" => stopped /\ \A s \in Streams : queue[s] = <<>>

\* The video frame whose duration is awaited.
Awaited(s) == IF s = "video" THEN Len(previous) ELSE 0

\* While the recording goes on, every frame accepted is in the file, is the video
\* frame whose duration is awaited, is held, or is in the queue.
Balance ==
  thread \notin {"close", "end", "done"} =>
    \A s \in Streams :
      Len(accepted[s]) = Len(written[s]) + Awaited(s) + Len(Frame(s)) + Frames(queue[s])

\* The thread finishes with nothing left to take, and succeeds after that only.
Finished ==
  /\ thread = "finish" => stopped /\ \A s \in Streams : held[s] = <<>> /\ queue[s] = <<>>
  /\ success => thread \in {"close", "end", "done"} /\ stopped /\ CompleteOnSuccess

IInv ==
  /\ TypeOK
  /\ NoLostWakeup
  /\ Ended
  /\ Increasing
  /\ Balance
  /\ Finished

-----------------------------------------------------------------------------
(* Sequences.                                                              *)

LEMMA TailFacts ==
  ASSUME NEW S, NEW s \in Seq(S), s # <<>>
  PROVE  /\ Head(s) = s[1] /\ Head(s) \in S /\ 1 \in DOMAIN s
         /\ Tail(s) \in Seq(S) /\ Len(s) \in Nat /\ Len(Tail(s)) = Len(s) - 1
         /\ \A i \in 1..Len(s) - 1 : Tail(s)[i] = s[i + 1]
OBVIOUS

LEMMA ConcatFacts ==
  ASSUME NEW S, NEW s \in Seq(S), NEW x \in S
  PROVE  /\ s \o <<x>> \in Seq(S) /\ Len(s) \in Nat /\ Len(s \o <<x>>) = Len(s) + 1
         /\ \A i \in 1..Len(s) : (s \o <<x>>)[i] = s[i]
         /\ (s \o <<x>>)[Len(s) + 1] = x
         /\ s \o <<>> = s
OBVIOUS

LEMMA MediaFinite ==
  ASSUME NEW q \in Seq(Packets)
  PROVE  /\ MediaAt(q) = {i \in 1..Len(q) : q[i] # NoPts} /\ Len(q) \in Nat
         /\ IsFiniteSet(MediaAt(q)) /\ Frames(q) \in Nat
<1>1. DOMAIN q = 1..Len(q) /\ Len(q) \in Nat
  OBVIOUS
<1>2. MediaAt(q) = {i \in 1..Len(q) : q[i] # NoPts}
  BY <1>1 DEF MediaAt
<1>3. IsFiniteSet(1..Len(q))
  BY <1>1, FS_Interval
<1>4. IsFiniteSet(MediaAt(q))
  BY <1>2, <1>3, FS_Subset
<1> QED BY <1>1, <1>2, <1>4, FS_CardinalityType DEF Frames

LEMMA FramesEmpty == Frames(<<>>) = 0
<1>1. MediaAt(<<>>) = {}
  BY DEF MediaAt
<1> QED BY <1>1, FS_EmptySet DEF Frames

\* A packet pushed adds one frame, or none if it is a config packet.
LEMMA FramesAppend ==
  ASSUME NEW q \in Seq(Packets), NEW p \in Packets
  PROVE  Frames(Append(q, p)) = Frames(q) + Len(Media(<<p>>))
<1>1. /\ MediaAt(q) = {i \in 1..Len(q) : q[i] # NoPts} /\ Len(q) \in Nat
      /\ IsFiniteSet(MediaAt(q)) /\ Frames(q) \in Nat
  BY MediaFinite
<1>2. /\ Append(q, p) \in Seq(Packets) /\ Len(Append(q, p)) = Len(q) + 1
      /\ \A i \in 1..Len(q) : Append(q, p)[i] = q[i]
      /\ Append(q, p)[Len(q) + 1] = p
  OBVIOUS
<1>3. MediaAt(Append(q, p)) = {i \in 1..Len(q) + 1 : Append(q, p)[i] # NoPts}
  BY <1>2, MediaFinite
<1>4. 1..Len(q) + 1 = 1..Len(q) \cup {Len(q) + 1} /\ Len(q) + 1 \notin 1..Len(q)
  BY <1>1
<1>5. CASE p = NoPts
  <2>1. MediaAt(Append(q, p)) = MediaAt(q)
    BY <1>1, <1>2, <1>3, <1>4, <1>5
  <2>2. Len(Media(<<p>>)) = 0
    BY <1>5 DEF Media
  <2> QED BY <1>1, <2>1, <2>2 DEF Frames
<1>6. CASE p # NoPts
  <2>1. MediaAt(Append(q, p)) = MediaAt(q) \cup {Len(q) + 1}
    BY <1>1, <1>2, <1>3, <1>4, <1>6
  <2>2. Len(q) + 1 \notin MediaAt(q)
    BY <1>1, <1>4
  <2>3. Frames(Append(q, p)) = Frames(q) + 1
    BY <1>1, <2>1, <2>2, FS_AddElement DEF Frames
  <2>4. Len(Media(<<p>>)) = 1
    BY <1>6 DEF Media
  <2> QED BY <2>3, <2>4
<1> QED BY <1>5, <1>6

\* A packet taken removes one frame, or none if it is a config packet.
LEMMA FramesTail ==
  ASSUME NEW q \in Seq(Packets), q # <<>>
  PROVE  Frames(q) = Len(Media(<<Head(q)>>)) + Frames(Tail(q))
<1>1. /\ MediaAt(q) = {i \in 1..Len(q) : q[i] # NoPts} /\ Len(q) \in Nat
      /\ IsFiniteSet(MediaAt(q)) /\ Frames(q) \in Nat
  BY MediaFinite
<1>2. /\ Head(q) = q[1] /\ 1 \in DOMAIN q /\ Tail(q) \in Seq(Packets)
      /\ Len(Tail(q)) = Len(q) - 1 /\ \A i \in 1..Len(q) - 1 : Tail(q)[i] = q[i + 1]
      /\ 1 \in 1..Len(q)
  BY TailFacts
<1>3. MediaAt(Tail(q)) = {i \in 1..Len(q) - 1 : Tail(q)[i] # NoPts}
      /\ IsFiniteSet(MediaAt(Tail(q))) /\ Frames(Tail(q)) \in Nat
  BY <1>2, MediaFinite
<1> DEFINE f == [i \in MediaAt(Tail(q)) |-> i + 1]
           U == MediaAt(q) \ {1}
<1>4. ASSUME NEW i \in MediaAt(Tail(q)) PROVE i + 1 \in U /\ i \in Nat
  BY <1>1, <1>2, <1>3
<1>5. ASSUME NEW j \in U PROVE j - 1 \in MediaAt(Tail(q)) /\ (j - 1) + 1 = j
  <2>1. j \in 1..Len(q) /\ j # 1 /\ q[j] # NoPts
    BY <1>1
  <2>2. j - 1 \in 1..Len(q) - 1 /\ (j - 1) + 1 = j
    BY <1>1, <2>1
  <2> QED BY <1>2, <1>3, <2>1, <2>2
<1>6. f \in Bijection(MediaAt(Tail(q)), U)
  <2>1. f \in [MediaAt(Tail(q)) -> U]
    BY <1>4
  <2>2. \A i, k \in MediaAt(Tail(q)) : f[i] = f[k] => i = k
    BY <1>4
  <2>3. \A j \in U : \E i \in MediaAt(Tail(q)) : f[i] = j
    BY <1>5
  <2> QED BY <2>1, <2>2, <2>3, Fun_IsBij
<1>7. Cardinality(U) = Frames(Tail(q))
  BY <1>3, <1>6, FS_Bijection DEF ExistsBijection, Frames
<1>8. Cardinality(U) = IF 1 \in MediaAt(q) THEN Frames(q) - 1 ELSE Frames(q)
  BY <1>1, FS_RemoveElement DEF Frames
<1>9. 1 \in MediaAt(q) <=> Head(q) # NoPts
  BY <1>1, <1>2
<1>10. Len(Media(<<Head(q)>>)) = IF Head(q) # NoPts THEN 1 ELSE 0
  BY DEF Media
<1> QED BY <1>1, <1>3, <1>7, <1>8, <1>9, <1>10

-----------------------------------------------------------------------------
(* Types.                                                                  *)

LEMMA StreamTypes ==
  ASSUME TypeOK, NEW s \in Streams
  PROVE  /\ queue[s] \in Seq(Packets) /\ held[s] \in Seq(Packets)
         /\ accepted[s] \in Seq(0..MaxPts) /\ written[s] \in Seq(Int)
         /\ previous \in Seq(Int)
BY DEF TypeOK

LEMMA FrameType ==
  ASSUME TypeOK, NEW s \in Streams
  PROVE  /\ Frame(s) \in Seq(0..MaxPts) /\ Frame(s) \in Seq(Packets)
         /\ Frame(s) = <<>> \/ (Frame(s) = <<Frame(s)[1]>> /\ Frame(s)[1] \in 0..MaxPts
                                /\ Head(Frame(s)) = Frame(s)[1] /\ held[s] # <<>>)
         /\ Len(Frame(s)) \in {0, 1} /\ Len(Frame(s)) <= 1
<1>1. held[s] \in Seq(Packets) /\ Len(held[s]) <= 1
  BY DEF TypeOK
<1>2. CASE held[s] = <<>>
  <2>1. Frame(s) = <<>>
    BY <1>2 DEF Frame, Media
  <2> QED BY <2>1
<1>3. CASE held[s] # <<>>
  <2>1. PICK p \in Packets : held[s] = <<p>>
    BY <1>1, <1>3
  <2>2. CASE p = NoPts
    <3>1. Frame(s) = <<>>
      BY <2>1, <2>2 DEF Frame, Media
    <3> QED BY <3>1
  <2>3. CASE p # NoPts
    <3>1. p \in 0..MaxPts
      BY <2>3 DEF Packets
    <3>2. Frame(s) = <<p>>
      BY <2>1, <2>3 DEF Frame, Media
    <3> QED BY <1>3, <2>1, <3>1, <3>2
  <2> QED BY <2>2, <2>3
<1> QED BY <1>2, <1>3

LEMMA RescaleType == ASSUME NEW t \in Int PROVE Rescale(t) \in Int
BY TickAssumption DEF Rescale

\* A timestamp given to a packet is above the last one of its stream.
LEMMA FixedAbove ==
  ASSUME TypeOK, NEW s \in Streams, NEW t \in Int
  PROVE  /\ FixedPts(s, t) \in Int
         /\ written[s] # <<>> => written[s][Len(written[s])] < FixedPts(s, t)
<1>1. PICK r \in Int : r = Rescale(t)
  BY RescaleType
<1>2. written[s] \in Seq(Int)
  BY StreamTypes
<1>3. CASE written[s] = <<>>
  BY <1>1, <1>3 DEF FixedPts, LastPts
<1>4. CASE written[s] # <<>>
  <2>1. PICK l \in Int : l = written[s][Len(written[s])]
    BY <1>2, <1>4
  <2>2. LastPts(s) = l /\ l # NoPts
    BY <1>4, <2>1, NoPtsAssumption DEF LastPts
  <2> QED BY <1>1, <2>1, <2>2 DEF FixedPts
<1> QED BY <1>3, <1>4

LEMMA OriginType ==
  ASSUME TypeOK, NEW s \in Streams, Frame(s) # <<>> \/ origin # NoPts
  PROVE  Origin \in 0..MaxPts
<1>1. CASE origin # NoPts
  BY <1>1 DEF Origin, TypeOK
<1>2. CASE origin = NoPts
  <2>1. Frame("audio") # <<>> \/ Frame("video") # <<>>
    BY <1>2 DEF Streams
  <2>2. /\ Frame("audio") # <<>> => Head(Frame("audio")) \in 0..MaxPts
        /\ Frame("video") # <<>> => Head(Frame("video")) \in 0..MaxPts
    BY FrameType DEF Streams
  <2> QED BY <1>2, <2>1, <2>2 DEF Origin, Min2
<1> QED BY <1>1, <1>2

\* One timestamp at most, and a new one of the stream.
LEMMA FixedType ==
  ASSUME TypeOK, NEW s \in Streams, NEW o \in Seq(Int), Len(o) <= 1
  PROVE  /\ o = <<>> => Fixed(s, o) = <<>>
         /\ o # <<>> => \E x \in Int : /\ Fixed(s, o) = <<x>>
                                       /\ written[s] # <<>> => written[s][Len(written[s])] < x
<1>1. CASE o = <<>>
  BY <1>1 DEF Fixed
<1>2. CASE o # <<>>
  <2>1. o[1] \in Int
    BY <1>2
  <2> QED BY <1>2, <2>1, FixedAbove DEF Fixed
<1> QED BY <1>1, <1>2

LEMMA OutType ==
  ASSUME TypeOK, thread = "process", NEW s \in Streams
  PROVE  /\ Since(s) \in Seq(Int) /\ Len(Since(s)) = Len(Frame(s)) /\ Len(Since(s)) <= 1
         /\ Out(s) \in Seq(Int) /\ Len(Out(s)) <= 1
<1>1. Since(s) \in Seq(Int) /\ Len(Since(s)) = Len(Frame(s)) /\ Len(Since(s)) <= 1
  <2>1. CASE Frame(s) = <<>>
    BY <2>1 DEF Since
  <2>2. CASE Frame(s) # <<>>
    <3>1. /\ Head(Frame(s)) \in 0..MaxPts /\ Origin \in 0..MaxPts /\ Len(Frame(s)) = 1
      BY <2>2, FrameType, OriginType
    <3>2. Head(Frame(s)) - Origin \in Int
      BY <3>1, BoundAssumption
    <3> QED BY <2>2, <3>1, <3>2 DEF Since
  <2> QED BY <2>1, <2>2
<1>2. previous \in Seq(Int) /\ Len(previous) <= 1
  BY DEF TypeOK
<1> QED BY <1>1, <1>2 DEF Out

\* What a write does to a stream: it is longer by one timestamp, and still increases.
LEMMA WrittenStep ==
  ASSUME TypeOK, Increasing, NEW s \in Streams, NEW o \in Seq(Int), Len(o) <= 1
  PROVE  LET w == written[s] \o Fixed(s, o) IN
         /\ w \in Seq(Int)
         /\ Len(w) = Len(written[s]) + Len(o)
         /\ \A i \in 1..Len(w) - 1 : w[i] < w[i + 1]
<1> DEFINE v == written[s]
           w == v \o Fixed(s, o)
<1>1. v \in Seq(Int) /\ Len(v) \in Nat
  BY StreamTypes
<1>2. \A i \in 1..Len(v) - 1 : v[i] < v[i + 1]
  BY DEF Increasing
<1>3. CASE o = <<>>
  <2>1. Fixed(s, o) = <<>>
    BY <1>3, FixedType
  <2>2. w = v /\ Len(o) = 0
    BY <1>1, <1>3, <2>1
  <2> HIDE DEF v, w
  <2>3. /\ w \in Seq(Int) /\ Len(w) = Len(v) + Len(o)
        /\ \A i \in 1..Len(w) - 1 : w[i] < w[i + 1]
    BY <1>1, <1>2, <2>2
  <2> QED BY <2>3 DEF v, w
<1>4. CASE o # <<>>
  <2>1. PICK x \in Int : Fixed(s, o) = <<x>> /\ (v # <<>> => v[Len(v)] < x)
    BY <1>4, FixedType
  <2>2. Len(o) = 1
    BY <1>4
  <2>3. /\ v \o <<x>> \in Seq(Int) /\ Len(v \o <<x>>) = Len(v) + 1
        /\ \A i \in 1..Len(v) : (v \o <<x>>)[i] = v[i]
        /\ (v \o <<x>>)[Len(v) + 1] = x
    BY <1>1, ConcatFacts
  <2>4. w = v \o <<x>>
    BY <2>1
  <2> HIDE DEF v, w
  <2>5. ASSUME NEW i \in 1..Len(w) - 1 PROVE w[i] < w[i + 1]
    <3>1. i \in 1..Len(v) /\ i + 1 \in 1..Len(v) + 1
      BY <1>1, <2>3, <2>4
    <3>2. CASE i = Len(v)
      BY <1>1, <2>1, <2>3, <2>4, <3>1, <3>2
    <3>3. CASE i # Len(v)
      <4>1. i \in 1..Len(v) - 1 /\ i + 1 \in 1..Len(v)
        BY <1>1, <3>1, <3>3
      <4> QED BY <1>2, <2>3, <2>4, <4>1
    <3> QED BY <3>2, <3>3
  <2>6. w \in Seq(Int) /\ Len(w) = Len(v) + Len(o)
    BY <2>2, <2>3, <2>4
  <2> QED BY <2>5, <2>6 DEF v, w
<1> QED BY <1>3, <1>4

LEMMA WakeType ==
  TypeOK => /\ Wake(thread) \in {"open", "header", "loop", "process", "finish", "close", "end", "done"}
            /\ (thread = "process" <=> Wake(thread) = "process")
<1> SUFFICES ASSUME TypeOK
             PROVE  /\ Wake(thread) \in {"open", "header", "loop", "process", "finish", "close", "end", "done"}
                    /\ (thread = "process" <=> Wake(thread) = "process")
  OBVIOUS
<1>1. thread \in {"open", "header", "headerWait", "loop", "loopWait", "process",
                  "finish", "close", "end", "done"}
  BY DEF TypeOK
<1>2. Wake(thread) = IF thread = "headerWait" THEN "header"
                     ELSE IF thread = "loopWait" THEN "loop" ELSE thread
  BY DEF Wake
<1> QED BY <1>1, <1>2

\* The part of a packet that is a frame.
LEMMA MediaType ==
  ASSUME NEW p \in Packets
  PROVE  Media(<<p>>) \in Seq(0..MaxPts) /\ Len(Media(<<p>>)) <= 1
<1>1. CASE p = NoPts
  <2>1. Media(<<p>>) = <<>>
    BY <1>1 DEF Media
  <2> QED BY <2>1
<1>2. CASE p # NoPts
  <2>1. PICK x \in 0..MaxPts : x = p
    BY <1>2 DEF Packets
  <2>2. Media(<<p>>) = <<x>>
    BY <1>2, <2>1 DEF Media
  <2>3. <<x>> \in Seq(0..MaxPts) /\ Len(<<x>>) <= 1
    OBVIOUS
  <2> QED BY <2>2, <2>3
<1> QED BY <1>1, <1>2

LEMMA TypeStep == TypeOK /\ Increasing /\ [Next]_vars => TypeOK'
<1> SUFFICES ASSUME TypeOK, Increasing, [Next]_vars PROVE TypeOK'
  OBVIOUS
<1> USE DEF TypeOK
<1>1. ASSUME NEW s \in Streams, OpenSink(s) PROVE TypeOK'
  <2>1. /\ demux' \in [Streams -> {"none", "starting", "open", "done"}]
        /\ inited' \in [Streams -> BOOLEAN] /\ expects' \in BOOLEAN
        /\ crash' \in {"no", "assert", "ctx"}
    BY <1>1 DEF OpenSink, shared
  <2>2. UNCHANGED <<received, main, ctx, enabled, stopped, queue, local, accepted>>
    BY <1>1 DEF OpenSink, shared
  <2>3. thread' \in {thread, Wake(thread)}
    BY <1>1 DEF OpenSink
  <2> QED BY <2>1, <2>2, <2>3, WakeType DEF local
<1>2. ASSUME NEW s \in Streams, FailSink(s) PROVE TypeOK'
  BY <1>2 DEF FailSink, shared, local
<1>3. ASSUME NEW s \in Streams, CloseSink(s) PROVE TypeOK'
  BY <1>3, WakeType DEF CloseSink, local
<1>4. CASE DisableSink
  BY <1>4, WakeType DEF DisableSink, local, Streams
<1>5. ASSUME NEW s \in Streams, NEW p \in Packets, PushPacket(s, p) PROVE TypeOK'
  <2>1. received' \in [Streams -> 0..MaxPackets]
    BY <1>5, BoundAssumption DEF PushPacket
  <2>2. queue' \in [Streams -> Seq(Packets)]
    <3>1. Append(queue[s], p) \in Seq(Packets)
      BY StreamTypes
    <3>2. queue' = [queue EXCEPT ![s] = Append(queue[s], p)]
      BY <1>5 DEF PushPacket
    <3> QED BY <3>1, <3>2
  <2>3. accepted' \in [Streams -> Seq(0..MaxPts)]
    <3>1. accepted[s] \o Media(<<p>>) \in Seq(0..MaxPts)
      BY StreamTypes, MediaType
    <3>2. accepted' = [accepted EXCEPT ![s] = accepted[s] \o Media(<<p>>)]
      BY <1>5 DEF PushPacket
    <3> QED BY <3>1, <3>2
  <2>4. thread' = Wake(thread)
        /\ UNCHANGED <<demux, main, ctx, enabled, inited, expects, stopped, local, crash>>
    BY <1>5 DEF PushPacket
  <2> QED BY <2>1, <2>2, <2>3, <2>4, WakeType DEF local
<1>6. CASE Stop \/ Join
  <2>1. CASE Stop
    BY <2>1, WakeType DEF Stop, local
  <2>2. CASE Join
    BY <2>2 DEF Join, shared, local
  <2> QED BY <1>6, <2>1, <2>2
<1>7. CASE OpenOutput \/ AwaitHeader \/ AwaitPacket \/ CloseOutput \/ SpuriousWakeup
  BY <1>7, WakeType DEF OpenOutput, AwaitHeader, AwaitPacket, CloseOutput, SpuriousWakeup,
                        Goto, shared, local
<1>8. CASE ProcessHeader
  <2>1. queue' \in [Streams -> Seq(Packets)]
    <3>1. CASE UNCHANGED queue
      BY <3>1
    <3>2. ASSUME NEW first \in SUBSET Streams, \A s \in first : Queued(s),
                 queue' = [s \in Streams |-> IF s \in first THEN Tail(queue[s]) ELSE queue[s]]
          PROVE  queue' \in [Streams -> Seq(Packets)]
      <4>1. \A s \in first : Tail(queue[s]) \in Seq(Packets)
        BY <3>2, StreamTypes, TailFacts DEF Queued
      <4> QED BY <3>2, <4>1
    <3> QED BY <1>8, <3>1, <3>2 DEF ProcessHeader
  <2>2. /\ thread' \in {"close", "loop"}
        /\ UNCHANGED <<demux, received, main, accepted, ctx, enabled, inited, expects, stopped,
                       local, crash>>
    BY <1>8 DEF ProcessHeader, Goto
  <2> QED BY <2>1, <2>2 DEF local
<1>9. CASE TakePackets
  <2>1. queue' \in [Streams -> Seq(Packets)] /\ held' \in [Streams -> Seq(Packets)]
        /\ \A s \in Streams : Len(held'[s]) <= 1
    <3>1. \A s \in Streams : Poppable(s) =>
            Head(queue[s]) \in Packets /\ Tail(queue[s]) \in Seq(Packets)
      BY StreamTypes, TailFacts DEF Poppable, Queued
    <3>2. \A s \in Streams : Poppable(s) => <<Head(queue[s])>> \in Seq(Packets)
      BY <3>1
    <3> QED BY <1>9, <3>1, <3>2 DEF TakePackets
  <2>2. thread' = IF \A s \in Streams : held'[s] = <<>> THEN "finish" ELSE "process"
    BY <1>9 DEF TakePackets, Goto
  <2>3. thread' \in {"finish", "process"}
        /\ (thread' = "process" => \E s \in Streams : held'[s] # <<>>)
    BY <2>2
  <2>4. UNCHANGED <<demux, received, main, accepted, ctx, enabled, inited, expects, stopped,
                    previous, origin, success, written, trailer, crash>>
    BY <1>9 DEF TakePackets, Goto
  <2> QED BY <2>1, <2>3, <2>4
<1>10. CASE ProcessAssert
  BY <1>10 DEF ProcessAssert, shared, local
<1>11. CASE ProcessLater
  <2>1. held' \in [Streams -> Seq(Packets)] /\ \A s \in Streams : Len(held'[s]) <= 1
    <3>1. \A s \in Streams : Frame(s) \in Seq(Packets) /\ Len(Frame(s)) <= 1
      BY FrameType
    <3> QED BY <1>11, <3>1 DEF ProcessLater
  <2>2. thread' = "loop" /\ UNCHANGED <<demux, received, main, accepted, ctx, shared, previous,
                                        origin, success, written, trailer, crash>>
    BY <1>11 DEF ProcessLater, Goto
  <2> QED BY <2>1, <2>2 DEF shared
<1>12. CASE ProcessNoVideo
  BY <1>12 DEF ProcessNoVideo, Goto, shared
<1>13. CASE Process
  <2>1. thread = "process"
    BY <1>13 DEF Process
  <2>2. origin' \in 0..MaxPts
    <3>1. \E s \in Streams : Frame(s) # <<>> \/ origin # NoPts
      BY <1>13 DEF Process, Streams
    <3> QED BY <1>13, <3>1, OriginType DEF Process
  <2>3. held' \in [Streams -> Seq(Packets)] /\ \A s \in Streams : Len(held'[s]) <= 1
    BY <1>13 DEF Process
  <2>4. previous' \in Seq(Int) /\ Len(previous') <= 1
    BY <1>13, <2>1, OutType DEF Process, Streams
  <2>5. written' \in [Streams -> Seq(Int)]
    <3>1. \A s \in Streams : written[s] \o Fixed(s, Out(s)) \in Seq(Int) /\ written[s] \in Seq(Int)
      BY <2>1, OutType, WrittenStep, StreamTypes
    <3>2. ASSUME NEW S PROVE File(S) \in [Streams -> Seq(Int)]
      <4> DEFINE v(s) == IF s \in S THEN written[s] \o Fixed(s, Out(s)) ELSE written[s]
      <4>1. \A s \in Streams : v(s) \in Seq(Int)
        BY <3>1
      <4>2. File(S) = [s \in Streams |-> v(s)]
        BY DEF File
      <4> HIDE DEF v
      <4> QED BY <4>1, <4>2
    <3> QED BY <1>13, <3>2 DEF Process, Goto
  <2>6. thread' \in {"loop", "close"}
        /\ UNCHANGED <<demux, received, main, accepted, ctx, shared, success, trailer, crash>>
    BY <1>13 DEF Process, Goto
  <2> QED BY <2>2, <2>3, <2>4, <2>5, <2>6 DEF shared
<1>14. CASE Finish
  <2>1. written' \in [Streams -> Seq(Int)]
    <3>1. written["video"] \o Fixed("video", previous) \in Seq(Int)
      BY WrittenStep DEF Streams
    <3>2. written' \in {written,
                        [written EXCEPT !["video"] = written["video"] \o Fixed("video", previous)]}
      BY <1>14 DEF Finish
    <3> QED BY <3>1, <3>2
  <2>2. /\ thread' = "close" /\ previous' = <<>> /\ success' = TRUE
        /\ trailer' \in {"written", "failed"}
        /\ UNCHANGED <<demux, received, main, accepted, ctx, shared, held, origin, crash>>
    BY <1>14 DEF Finish, Goto
  <2> QED BY <2>1, <2>2 DEF shared
<1>15. CASE End
  BY <1>15 DEF End, Goto, local
<1>16. CASE UNCHANGED vars
  BY <1>16 DEF vars, shared, local
<1> QED BY <1>1, <1>2, <1>3, <1>4, <1>5, <1>6, <1>7, <1>8, <1>9, <1>10, <1>11, <1>12, <1>13,
           <1>14, <1>15, <1>16 DEF Next, Demuxers, Thread

-----------------------------------------------------------------------------
\* Whoever changes what the thread waits for wakes it up.
LEMMA WakeupStep == NoLostWakeup /\ [Next]_vars => NoLostWakeup'
<1> SUFFICES ASSUME NoLostWakeup, [Next]_vars PROVE NoLostWakeup'
  OBVIOUS
<1>1. CASE thread' \notin {"headerWait", "loopWait"}
  BY <1>1 DEF NoLostWakeup
<1>2. CASE UNCHANGED <<thread, enabled, inited, expects, stopped, queue, held>>
  BY <1>2 DEF NoLostWakeup, HeaderReady, Poppable, Queued
<1>3. Wake(thread) \notin {"headerWait", "loopWait"}
  BY DEF Wake
<1>4. CASE AwaitHeader
  BY <1>4 DEF AwaitHeader, Goto, shared, local, NoLostWakeup, HeaderReady, Queued
<1>5. CASE AwaitPacket
  BY <1>5 DEF AwaitPacket, Goto, shared, local, NoLostWakeup, Poppable, Queued
<1>6. ASSUME NEW s \in Streams, OpenSink(s) \/ FailSink(s) \/ CloseSink(s) PROVE NoLostWakeup'
  BY <1>1, <1>2, <1>3, <1>6 DEF OpenSink, FailSink, CloseSink, shared, local
<1>7. CASE DisableSink \/ Stop \/ Join
  BY <1>1, <1>2, <1>3, <1>7 DEF DisableSink, Stop, Join, shared, local
<1>8. ASSUME NEW s \in Streams, NEW p \in Packets, PushPacket(s, p) PROVE NoLostWakeup'
  BY <1>1, <1>3, <1>8 DEF PushPacket
<1>9. CASE \/ OpenOutput \/ ProcessHeader \/ TakePackets \/ ProcessLater \/ ProcessNoVideo
           \/ Process \/ Finish \/ CloseOutput \/ End
  <2>1. thread' \in {"header", "loop", "finish", "process", "close", "end", "done"}
    BY <1>9 DEF OpenOutput, ProcessHeader, TakePackets, ProcessLater, ProcessNoVideo, Process,
                Finish, CloseOutput, End, Goto
  <2> QED BY <1>1, <2>1
<1>10. CASE SpuriousWakeup
  BY <1>1, <1>3, <1>10 DEF SpuriousWakeup, Goto
<1>11. CASE ProcessAssert \/ UNCHANGED vars
  BY <1>2, <1>11 DEF ProcessAssert, vars, shared, local
<1> QED BY <1>4, <1>5, <1>6, <1>7, <1>8, <1>9, <1>10, <1>11 DEF Next, Demuxers, Thread

\* The end of the thread stops the recorder, and a stop is for ever.
LEMMA EndedStep == Ended /\ [Next]_vars => Ended'
<1> SUFFICES ASSUME Ended, [Next]_vars PROVE Ended'
  OBVIOUS
<1>1. CASE thread' # "done"
  BY <1>1 DEF Ended
<1>2. CASE stopped' = stopped /\ UNCHANGED <<thread, queue>>
  BY <1>2 DEF Ended
<1>3. Wake(thread) = "done" <=> thread = "done"
  BY DEF Wake
<1>4. CASE UNCHANGED queue /\ (stopped => stopped') /\ thread' \in {thread, Wake(thread)}
  BY <1>3, <1>4 DEF Ended
<1>5. ASSUME NEW s \in Streams, OpenSink(s) \/ FailSink(s) \/ CloseSink(s) PROVE Ended'
  BY <1>4, <1>5 DEF OpenSink, FailSink, CloseSink, shared, local
<1>6. CASE DisableSink \/ Stop \/ Join
  BY <1>4, <1>6 DEF DisableSink, Stop, Join, shared, local
<1>7. ASSUME NEW s \in Streams, NEW p \in Packets, PushPacket(s, p) PROVE Ended'
  BY <1>1, <1>3, <1>7 DEF PushPacket, Ended
<1>8. CASE \/ OpenOutput \/ AwaitHeader \/ ProcessHeader \/ AwaitPacket \/ TakePackets
           \/ ProcessLater \/ ProcessNoVideo \/ Process \/ Finish \/ CloseOutput
  <2>1. thread' # "done"
    BY <1>8 DEF OpenOutput, AwaitHeader, ProcessHeader, AwaitPacket, TakePackets, ProcessLater,
                ProcessNoVideo, Process, Finish, CloseOutput, Goto
  <2> QED BY <1>1, <2>1
<1>9. CASE End
  BY <1>9 DEF End, Ended
<1>10. CASE SpuriousWakeup
  BY <1>4, <1>10 DEF SpuriousWakeup, Goto, shared
<1>11. CASE ProcessAssert \/ UNCHANGED vars
  BY <1>2, <1>11 DEF ProcessAssert, vars, shared, local
<1> QED BY <1>5, <1>6, <1>7, <1>8, <1>9, <1>10, <1>11 DEF Next, Demuxers, Thread

LEMMA IncreasingStep == TypeOK /\ Increasing /\ [Next]_vars => Increasing'
<1> SUFFICES ASSUME TypeOK, Increasing, [Next]_vars PROVE Increasing'
  OBVIOUS
<1>1. CASE UNCHANGED written
  BY <1>1 DEF Increasing
<1>2. ASSUME NEW s \in Streams, OpenSink(s) \/ FailSink(s) \/ CloseSink(s) PROVE UNCHANGED written
  BY <1>2 DEF OpenSink, FailSink, CloseSink, local
<1>3. CASE DisableSink \/ Stop \/ Join
  BY <1>1, <1>3 DEF DisableSink, Stop, Join, local
<1>4. ASSUME NEW s \in Streams, NEW p \in Packets, PushPacket(s, p) PROVE UNCHANGED written
  BY <1>4 DEF PushPacket, local
<1>5. CASE \/ OpenOutput \/ AwaitHeader \/ ProcessHeader \/ AwaitPacket \/ TakePackets
           \/ ProcessLater \/ ProcessNoVideo \/ ProcessAssert \/ CloseOutput \/ End
           \/ SpuriousWakeup \/ UNCHANGED vars
  BY <1>1, <1>5 DEF OpenOutput, AwaitHeader, ProcessHeader, AwaitPacket, TakePackets,
                    ProcessLater, ProcessNoVideo, ProcessAssert, CloseOutput, End,
                    SpuriousWakeup, vars, local
<1>6. CASE Process
  <2>1. thread = "process"
    BY <1>6 DEF Process
  <2>2. ASSUME NEW S, written' = File(S) PROVE Increasing'
    <3>1. \A s \in Streams : written'[s] \in {written[s], written[s] \o Fixed(s, Out(s))}
      BY <2>2 DEF File
    <3>2. ASSUME NEW s \in Streams
          PROVE  \A i \in 1..Len(written'[s]) - 1 : written'[s][i] < written'[s][i + 1]
      <4>1. CASE written'[s] = written[s]
        BY <4>1 DEF Increasing
      <4>2. CASE written'[s] = written[s] \o Fixed(s, Out(s))
        BY <2>1, <4>2, OutType, WrittenStep
      <4> QED BY <3>1, <4>1, <4>2
    <3> QED BY <3>2 DEF Increasing
  <2> QED BY <1>1, <1>6, <2>2 DEF Process
<1>7. CASE Finish
  <2>1. ASSUME written' = [written EXCEPT !["video"] = @ \o Fixed("video", previous)]
        PROVE  Increasing'
    <3>1. /\ written'["video"] = written["video"] \o Fixed("video", previous)
          /\ written'["audio"] = written["audio"]
      BY <2>1 DEF TypeOK, Streams
    <3>2. previous \in Seq(Int) /\ Len(previous) <= 1
      BY DEF TypeOK
    <3>3. \A i \in 1..Len(written'["video"]) - 1 : written'["video"][i] < written'["video"][i + 1]
      BY <3>1, <3>2, WrittenStep DEF Streams
    <3>4. \A i \in 1..Len(written'["audio"]) - 1 : written'["audio"][i] < written'["audio"][i + 1]
      BY <3>1 DEF Increasing, Streams
    <3> QED BY <3>3, <3>4 DEF Increasing, Streams
  <2> QED BY <1>1, <1>7, <2>1 DEF Finish
<1> QED BY <1>1, <1>2, <1>3, <1>4, <1>5, <1>6, <1>7 DEF Next, Demuxers, Thread

-----------------------------------------------------------------------------
(* Nothing is lost.                                                        *)

LEMMA BalanceUnchanged ==
  ASSUME Balance, UNCHANGED <<queue, held, previous, accepted, written>>,
         thread' \notin {"close", "end", "done"} => thread \notin {"close", "end", "done"}
  PROVE  Balance'
BY DEF Balance, Frame, Awaited

\* The lengths that the balance is about.
LEMMA LengthTypes ==
  ASSUME TypeOK, NEW s \in Streams
  PROVE  /\ Len(accepted[s]) \in Nat /\ Len(written[s]) \in Nat /\ Len(previous) \in Nat
         /\ Awaited(s) \in Nat /\ Len(Frame(s)) \in Nat /\ Frames(queue[s]) \in Nat
<1>1. /\ queue[s] \in Seq(Packets) /\ accepted[s] \in Seq(0..MaxPts)
      /\ written[s] \in Seq(Int) /\ previous \in Seq(Int)
  BY StreamTypes
<1>2. Frame(s) \in Seq(Packets)
  BY FrameType
<1>3. Frames(queue[s]) \in Nat
  BY <1>1, MediaFinite
<1>4. Len(previous) \in Nat /\ Awaited(s) \in Nat
  BY <1>1 DEF Awaited
<1> QED BY <1>1, <1>2, <1>3, <1>4

\* A packet pushed is one frame more accepted, and one more in the queue.
LEMMA BalancePush ==
  ASSUME TypeOK, Balance, NEW u \in Streams, NEW p \in Packets, PushPacket(u, p)
  PROVE  Balance'
<1>1. /\ thread' = Wake(thread) /\ UNCHANGED <<held, previous, written>>
      /\ queue' = [queue EXCEPT ![u] = Append(queue[u], p)]
      /\ accepted' = [accepted EXCEPT ![u] = accepted[u] \o Media(<<p>>)]
  BY DEF PushPacket, local
<1>2. thread' \notin {"close", "end", "done"} => thread \notin {"close", "end", "done"}
  BY <1>1 DEF Wake
<1>3. ASSUME NEW s \in Streams
      PROVE  Len(accepted'[s]) - Len(accepted[s]) = Frames(queue'[s]) - Frames(queue[s])
             /\ Len(accepted'[s]) \in Int /\ Frames(queue'[s]) \in Int
  <2>1. CASE s # u
    <3>1. accepted'[s] = accepted[s] /\ queue'[s] = queue[s]
      BY <1>1, <2>1 DEF TypeOK
    <3> QED BY <3>1, LengthTypes
  <2>2. CASE s = u
    <3>1. accepted'[s] = accepted[s] \o Media(<<p>>) /\ queue'[s] = Append(queue[s], p)
      BY <1>1, <2>2 DEF TypeOK
    <3>2. Len(accepted'[s]) = Len(accepted[s]) + Len(Media(<<p>>)) /\ Len(Media(<<p>>)) \in Nat
      BY <3>1, StreamTypes, MediaType
    <3>3. Frames(queue'[s]) = Frames(queue[s]) + Len(Media(<<p>>))
      BY <3>1, StreamTypes, FramesAppend
    <3> QED BY <3>2, <3>3, LengthTypes
  <2> QED BY <2>1, <2>2
<1>4. \A s \in Streams : Frame(s)' = Frame(s)
  BY <1>1 DEF Frame
<1>5. CASE thread \in {"close", "end", "done"}
  BY <1>2, <1>5 DEF Balance
<1>6. ASSUME thread \notin {"close", "end", "done"}, NEW s \in Streams
      PROVE  Len(accepted'[s]) = Len(written'[s]) + Awaited(s)' + Len(Frame(s)') + Frames(queue'[s])
  <2>1. Len(accepted[s]) = Len(written[s]) + Awaited(s) + Len(Frame(s)) + Frames(queue[s])
    BY <1>6 DEF Balance
  <2>2. written' = written /\ Awaited(s)' = Awaited(s) /\ Frame(s)' = Frame(s)
    BY <1>1, <1>4 DEF Awaited
  <2>3. Len(accepted'[s]) = Len(written[s]) + Awaited(s) + Len(Frame(s)) + Frames(queue'[s])
    <3> DEFINE a == Len(accepted[s])   w == Len(written[s])   p1 == Awaited(s)
               f == Len(Frame(s))      q == Frames(queue[s])
               a2 == Len(accepted'[s]) q2 == Frames(queue'[s])
    <3>1. /\ a \in Nat /\ w \in Nat /\ p1 \in Nat /\ f \in Nat /\ q \in Nat
          /\ a2 \in Int /\ q2 \in Int
      BY <1>3, LengthTypes
    <3>2. a = w + p1 + f + q
      BY <2>1
    <3>3. a2 - a = q2 - q
      BY <1>3
    <3>4. SUFFICES a2 = w + p1 + f + q2
      OBVIOUS
    <3> HIDE DEF a, w, p1, f, q, a2, q2
    <3> QED BY <3>1, <3>2, <3>3
  <2> QED BY <2>2, <2>3
<1>7. CASE thread \notin {"close", "end", "done"}
  BY <1>6, <1>7 DEF Balance, Frames, MediaAt
<1> QED BY <1>5, <1>7

\* A packet the thread takes from a queue is held instead.
LEMMA BalanceTake ==
  ASSUME TypeOK, Balance, TakePackets
  PROVE  Balance'
<1>1. /\ thread = "loop" /\ UNCHANGED <<accepted, previous, written>>
      /\ held' = [s \in Streams |-> IF Poppable(s) THEN <<Head(queue[s])>> ELSE held[s]]
      /\ queue' = [s \in Streams |-> IF Poppable(s) THEN Tail(queue[s]) ELSE queue[s]]
  BY DEF TakePackets, Goto
<1>2. ASSUME NEW s \in Streams
      PROVE  Len(Frame(s)') + Frames(queue'[s]) = Len(Frame(s)) + Frames(queue[s])
  <2>1. CASE Poppable(s)
    <3>1. held[s] = <<>> /\ queue[s] # <<>> /\ queue[s] \in Seq(Packets)
      BY <2>1, StreamTypes DEF Poppable, Queued
    <3>2. held'[s] = <<Head(queue[s])>> /\ queue'[s] = Tail(queue[s])
      BY <1>1, <2>1
    <3>3. Frame(s)' = Media(<<Head(queue[s])>>) /\ Frame(s) = <<>>
      BY <3>1, <3>2 DEF Frame, Media
    <3>4. Frames(queue[s]) = Len(Media(<<Head(queue[s])>>)) + Frames(Tail(queue[s]))
      BY <3>1, FramesTail
    <3>5. Frames(queue[s]) \in Nat
      BY LengthTypes
    <3> QED BY <3>2, <3>3, <3>4, <3>5
  <2>2. CASE ~Poppable(s)
    <3>1. held'[s] = held[s] /\ queue'[s] = queue[s]
      BY <1>1, <2>2
    <3> QED BY <3>1 DEF Frame
  <2> QED BY <2>1, <2>2
<1>3. ASSUME NEW s \in Streams
      PROVE  Len(accepted'[s]) = Len(written'[s]) + Awaited(s)'
                                   + Len(Frame(s)') + Frames(queue'[s])
  <2>1. Len(accepted[s]) = Len(written[s]) + Awaited(s)
                             + Len(Frame(s)) + Frames(queue[s])
    BY <1>1 DEF Balance
  <2>2. Len(Frame(s)') \in Nat /\ Frames(queue'[s]) \in Nat
    <3>1. CASE Poppable(s)
      <4>1. queue[s] # <<>> /\ queue[s] \in Seq(Packets)
        BY <3>1, StreamTypes DEF Poppable, Queued
      <4>2. Head(queue[s]) \in Packets /\ Tail(queue[s]) \in Seq(Packets)
        BY <4>1
      <4>3. Frame(s)' = Media(<<Head(queue[s])>>) /\ queue'[s] = Tail(queue[s])
        BY <1>1, <3>1 DEF Frame
      <4>4. Frames(queue'[s]) \in Nat
        BY <4>2, <4>3, MediaFinite
      <4>5. Len(Frame(s)') \in Nat
        BY <4>2, <4>3, MediaType
      <4> QED BY <4>4, <4>5
    <3>2. CASE ~Poppable(s)
      <4>1. Frame(s)' = Frame(s) /\ queue'[s] = queue[s]
        BY <1>1, <3>2 DEF Frame
      <4> QED BY <4>1, LengthTypes
    <3> QED BY <3>1, <3>2
  <2>3. accepted' = accepted /\ written' = written /\ Awaited(s)' = Awaited(s)
    BY <1>1 DEF Awaited
  <2>4. Len(accepted[s]) = Len(written[s]) + Awaited(s) + Len(Frame(s)') + Frames(queue'[s])
    <3> DEFINE a == Len(accepted[s])   w == Len(written[s])   p1 == Awaited(s)
               f == Len(Frame(s))      q == Frames(queue[s])
               f2 == Len(Frame(s)')    q2 == Frames(queue'[s])
    <3>1. /\ a \in Nat /\ w \in Nat /\ p1 \in Nat /\ f \in Nat /\ q \in Nat
          /\ f2 \in Nat /\ q2 \in Nat
      BY <2>2, LengthTypes
    <3>2. a = w + p1 + f + q
      BY <2>1
    <3>3. f2 + q2 = f + q
      BY <1>2
    <3>4. SUFFICES a = w + p1 + f2 + q2
      OBVIOUS
    <3> HIDE DEF a, w, p1, f, q, f2, q2
    <3> QED BY <3>1, <3>2, <3>3
  <2> QED BY <2>3, <2>4
<1> QED BY <1>3 DEF Balance, Frames

\* The first packet of a stream is dropped when it is a config packet.
LEMMA BalanceHeader ==
  ASSUME TypeOK, Balance, ProcessHeader
  PROVE  Balance'
<1>1. thread = "header" /\ UNCHANGED <<accepted, previous, written, held>>
  BY DEF ProcessHeader, Goto, local
<1>2. CASE thread' = "close"
  BY <1>2 DEF Balance
<1>3. CASE thread' # "close"
  <2>1. PICK first \in SUBSET Streams :
          /\ \A s \in first : Queued(s) /\ Head(queue[s]) = NoPts
          /\ queue' = [s \in Streams |-> IF s \in first THEN Tail(queue[s]) ELSE queue[s]]
    BY <1>3 DEF ProcessHeader, Goto
  <2>2. ASSUME NEW s \in Streams PROVE Frames(queue'[s]) = Frames(queue[s])
    <3>1. CASE s \in first
      <4>1. queue[s] \in Seq(Packets) /\ queue[s] # <<>> /\ Head(queue[s]) = NoPts
            /\ queue'[s] = Tail(queue[s])
        BY <2>1, <3>1, StreamTypes DEF Queued
      <4>2. Media(<<Head(queue[s])>>) = <<>>
        BY <4>1 DEF Media
      <4>3. Frames(queue[s]) = Len(<<>>) + Frames(Tail(queue[s]))
        BY <4>1, <4>2, FramesTail
      <4>4. Frames(Tail(queue[s])) \in Nat
        BY <4>1, TailFacts, MediaFinite
      <4> QED BY <4>1, <4>3, <4>4
    <3>2. CASE s \notin first
      <4>1. queue'[s] = queue[s]
        BY <2>1, <3>2
      <4> QED BY <4>1
    <3> QED BY <3>1, <3>2
  <2>3. ASSUME NEW s \in Streams
        PROVE  Len(accepted'[s]) = Len(written'[s]) + Awaited(s)' + Len(Frame(s)') + Frames(queue'[s])
    <3>1. Len(accepted[s]) = Len(written[s]) + Awaited(s) + Len(Frame(s)) + Frames(queue[s])
      BY <1>1 DEF Balance
    <3>2. /\ accepted' = accepted /\ written' = written /\ Awaited(s)' = Awaited(s)
          /\ Frame(s)' = Frame(s)
      BY <1>1 DEF Awaited, Frame
    <3> QED BY <2>2, <3>1, <3>2
  <2> QED BY <2>3 DEF Balance, Frames, MediaAt
<1> QED BY <1>2, <1>3

\* An audio frame is written; a video frame awaits the next one, and the one that
\* awaited it is written.
LEMMA BalanceProcess ==
  ASSUME TypeOK, Increasing, Balance, Process
  PROVE  Balance'
<1>1. /\ thread = "process" /\ UNCHANGED <<accepted, queue>>
      /\ held' = [s \in Streams |-> <<>>]
      /\ previous' = IF Frame("video") # <<>> THEN Since("video") ELSE previous
      /\ thread' = "close" \/ written' = File(Streams)
  BY DEF Process, Goto, shared
<1>2. CASE thread' = "close"
  BY <1>2 DEF Balance
<1>3. CASE written' = File(Streams)
  <2>1. ASSUME NEW s \in Streams
        PROVE  Len(accepted'[s]) = Len(written'[s]) + Awaited(s)' + Len(Frame(s)') + Frames(queue'[s])
    <3>1. Len(accepted[s]) = Len(written[s]) + Awaited(s) + Len(Frame(s)) + Frames(queue[s])
      BY <1>1 DEF Balance
    <3>2. Len(written'[s]) = Len(written[s]) + Len(Out(s))
      <4>1. written'[s] = written[s] \o Fixed(s, Out(s))
        BY <1>3 DEF File
      <4> QED BY <1>1, <4>1, OutType, WrittenStep
    <3>3. Len(Frame(s)') = 0
      BY <1>1 DEF Frame, Media
    <3>4. Len(Out(s)) + Awaited(s)' = Awaited(s) + Len(Frame(s)) /\ Awaited(s)' \in Nat
          /\ Len(Out(s)) \in Nat
      <4>1. /\ Len(Since(s)) = Len(Frame(s)) /\ Out(s) \in Seq(Int) /\ Len(Out(s)) \in Nat
            /\ previous \in Seq(Int) /\ Len(previous) \in Nat /\ Len(Frame(s)) \in Nat
        BY <1>1, OutType, StreamTypes, LengthTypes
      <4>2. CASE s = "audio"
        <5>1. Out(s) = Since(s) /\ Awaited(s) = 0 /\ Awaited(s)' = 0
          BY <4>2 DEF Out, Awaited
        <5> QED BY <4>1, <5>1
      <4>3. CASE s = "video" /\ Frame(s) # <<>>
        <5>1. Out(s) = previous /\ Awaited(s) = Len(previous) /\ Awaited(s)' = Len(Since(s))
          BY <1>1, <4>3 DEF Out, Awaited
        <5> QED BY <4>1, <5>1
      <4>4. CASE s = "video" /\ Frame(s) = <<>>
        <5>1. Out(s) = <<>> /\ Awaited(s) = Len(previous) /\ Awaited(s)' = Len(previous)
          BY <1>1, <4>4 DEF Out, Awaited
        <5> QED BY <4>1, <4>4, <5>1
      <4> QED BY <4>2, <4>3, <4>4 DEF Streams
    <3>5. accepted' = accepted /\ Frames(queue'[s]) = Frames(queue[s])
      BY <1>1
    <3>6. Len(accepted[s]) = (Len(written[s]) + Len(Out(s))) + Awaited(s)' + 0 + Frames(queue[s])
      <4> DEFINE a == Len(accepted[s])   w == Len(written[s])   p1 == Awaited(s)
                 f == Len(Frame(s))      q == Frames(queue[s])
                 o == Len(Out(s))        p2 == Awaited(s)'
      <4>1. /\ a \in Nat /\ w \in Nat /\ p1 \in Nat /\ f \in Nat /\ q \in Nat
            /\ o \in Nat /\ p2 \in Nat
        BY <3>4, LengthTypes
      <4>2. a = w + p1 + f + q
        BY <3>1
      <4>3. o + p2 = p1 + f
        BY <3>4
      <4>4. SUFFICES a = (w + o) + p2 + 0 + q
        OBVIOUS
      <4> HIDE DEF a, w, p1, f, q, o, p2
      <4> QED BY <4>1, <4>2, <4>3
    <3> QED BY <3>2, <3>3, <3>5, <3>6
  <2> QED BY <2>1 DEF Balance, Frames, MediaAt
<1> QED BY <1>1, <1>2, <1>3

LEMMA BalanceStep == TypeOK /\ Increasing /\ Balance /\ [Next]_vars => Balance'
<1> SUFFICES ASSUME TypeOK, Increasing, Balance, [Next]_vars PROVE Balance'
  OBVIOUS
<1>1. thread \in {"close", "end", "done"} <=> Wake(thread) \in {"close", "end", "done"}
  BY DEF Wake
<1>2. ASSUME NEW s \in Streams, OpenSink(s) \/ FailSink(s) \/ CloseSink(s) PROVE Balance'
  <2>1. UNCHANGED <<queue, held, previous, accepted, written>> /\ thread' \in {thread, Wake(thread)}
    BY <1>2 DEF OpenSink, FailSink, CloseSink, shared, local
  <2> QED BY <1>1, <2>1, BalanceUnchanged
<1>3. CASE DisableSink \/ Stop \/ Join
  <2>1. UNCHANGED <<queue, held, previous, accepted, written>> /\ thread' \in {thread, Wake(thread)}
    BY <1>3 DEF DisableSink, Stop, Join, shared, local
  <2> QED BY <1>1, <2>1, BalanceUnchanged
<1>4. ASSUME NEW s \in Streams, NEW p \in Packets, PushPacket(s, p) PROVE Balance'
  BY <1>4, BalancePush
<1>5. CASE \/ OpenOutput \/ AwaitHeader \/ AwaitPacket \/ ProcessAssert \/ SpuriousWakeup
           \/ UNCHANGED vars
  <2>1. UNCHANGED <<queue, held, previous, accepted, written>>
    BY <1>5 DEF OpenOutput, AwaitHeader, AwaitPacket, ProcessAssert, SpuriousWakeup, Goto,
                vars, shared, local
  <2>2. thread' \notin {"close", "end", "done"} => thread \notin {"close", "end", "done"}
    BY <1>1, <1>5 DEF OpenOutput, AwaitHeader, AwaitPacket, ProcessAssert, SpuriousWakeup, Goto,
                      vars
  <2> QED BY <2>1, <2>2, BalanceUnchanged
<1>6. CASE ProcessHeader
  BY <1>6, BalanceHeader
<1>7. CASE TakePackets
  BY <1>7, BalanceTake
<1>8. CASE ProcessLater
  <2>1. /\ UNCHANGED <<queue, previous, accepted, written>> /\ thread = "process"
        /\ held' = [s \in Streams |-> Frame(s)]
    BY <1>8 DEF ProcessLater, Goto, shared
  <2>2. ASSUME NEW s \in Streams PROVE Frame(s)' = Frame(s)
    <3>1. Frame(s)' = Media(Frame(s))
      BY <2>1 DEF Frame
    <3>2. Media(Frame(s)) = Frame(s)
      BY DEF Frame, Media
    <3> QED BY <3>1, <3>2
  <2>3. \A s \in Streams : Len(accepted[s]) = Len(written[s]) + Awaited(s) + Len(Frame(s))
                                                + Frames(queue[s])
    BY <2>1 DEF Balance
  <2>4. ASSUME NEW s \in Streams
        PROVE  Len(accepted'[s]) = Len(written'[s]) + Awaited(s)' + Len(Frame(s)') + Frames(queue'[s])
    <3>1. Awaited(s)' = Awaited(s)
      BY <2>1 DEF Awaited
    <3> QED BY <2>1, <2>2, <2>3, <3>1
  <2> QED BY <2>4 DEF Balance, Frames, MediaAt
<1>9. CASE Process
  BY <1>9, BalanceProcess
<1>10. CASE ProcessNoVideo \/ Finish \/ CloseOutput \/ End
  BY <1>10 DEF ProcessNoVideo, Finish, CloseOutput, End, Goto, Balance
<1> QED BY <1>2, <1>3, <1>4, <1>5, <1>6, <1>7, <1>8, <1>9, <1>10 DEF Next, Demuxers, Thread

\* The thread finishes when, stopped, it finds nothing to take.
LEMMA FinishedTake ==
  ASSUME TypeOK, Finished, TakePackets
  PROVE  Finished'
<1>1. /\ thread = "loop" /\ UNCHANGED <<stopped, success>>
      /\ stopped \/ \E s \in Streams : enabled[s] /\ Poppable(s)
      /\ held' = [s \in Streams |-> IF Poppable(s) THEN <<Head(queue[s])>> ELSE held[s]]
      /\ queue' = [s \in Streams |-> IF Poppable(s) THEN Tail(queue[s]) ELSE queue[s]]
      /\ thread' = IF \A s \in Streams : held'[s] = <<>> THEN "finish" ELSE "process"
  BY DEF TakePackets, Goto
<1>2. ~success'
  BY <1>1 DEF Finished
<1>3. ASSUME thread' = "finish"
      PROVE  stopped' /\ \A s \in Streams : held'[s] = <<>> /\ queue'[s] = <<>>
  <2>1. \A s \in Streams : held'[s] = <<>>
    BY <1>1, <1>3
  <2>2. ASSUME NEW s \in Streams PROVE ~Poppable(s)
    <3>1. CASE Poppable(s)
      <4>1. held'[s] = <<Head(queue[s])>>
        BY <1>1, <3>1
      <4>2. <<Head(queue[s])>> # <<>>
        OBVIOUS
      <4> QED BY <2>1, <4>1, <4>2
    <3> QED BY <3>1
  <2>3. \A s \in Streams : held'[s] = held[s] /\ queue'[s] = queue[s]
    BY <1>1, <2>2
  <2> QED BY <1>1, <2>1, <2>2, <2>3 DEF Poppable, Queued
<1> QED BY <1>2, <1>3 DEF Finished

\* What is balanced when the thread finishes is then in the file, but for the
\* last video frame if its write fails.
LEMMA FinishedSucceeds ==
  ASSUME TypeOK, Increasing, Balance, Finished, Finish
  PROVE  Finished'
<1>1. /\ thread = "finish" /\ thread' = "close" /\ UNCHANGED <<accepted, stopped>>
      /\ trailer' # "none"
      /\ \/ written' = written
         \/ written' = [written EXCEPT !["video"] = written["video"] \o Fixed("video", previous)]
  BY DEF Finish, Goto, shared
<1>2. stopped /\ \A s \in Streams : held[s] = <<>> /\ queue[s] = <<>>
  BY <1>1 DEF Finished
<1>3. ASSUME NEW s \in Streams PROVE Len(accepted[s]) = Len(written[s]) + Awaited(s)
  <2>1. Len(accepted[s]) = Len(written[s]) + Awaited(s) + Len(Frame(s)) + Frames(queue[s])
    BY <1>1 DEF Balance
  <2>2. Frame(s) = <<>> /\ Frames(queue[s]) = 0
    BY <1>2, FramesEmpty DEF Frame, Media
  <2>3. Len(Frame(s)) = 0
    BY <2>2
  <2> QED BY <2>1, <2>2, <2>3, LengthTypes
<1>4. previous \in Seq(Int) /\ Len(previous) <= 1 /\ Len(previous) \in {0, 1}
  <2>1. previous \in Seq(Int) /\ Len(previous) <= 1
    BY DEF TypeOK
  <2>2. PICK n \in Nat : n = Len(previous)
    BY <2>1
  <2>3. n <= 1
    BY <2>1, <2>2
  <2>4. n \in {0, 1}
    BY <2>3
  <2> QED BY <2>1, <2>2, <2>4
<1>5. /\ Len(accepted["audio"]) = Len(written["audio"])
      /\ Len(accepted["video"]) = Len(written["video"]) + Len(previous)
  <2>1. Len(written["audio"]) \in Nat
    BY LengthTypes DEF Streams
  <2> QED BY <1>3, <2>1 DEF Awaited, Streams
<1>6. Len(written["video"]) \in Nat
  BY LengthTypes DEF Streams
<1>7. /\ Len(written'["audio"]) = Len(accepted'["audio"])
      /\ Len(written'["video"]) \in {Len(accepted'["video"]) - 1, Len(accepted'["video"])}
  <2>1. CASE written' = written
    <3>1. Len(accepted["video"]) - 1 = Len(written["video"])
          \/ Len(accepted["video"]) = Len(written["video"])
      BY <1>4, <1>5, <1>6
    <3> QED BY <1>1, <1>5, <2>1, <3>1
  <2>2. CASE written' = [written EXCEPT !["video"] = written["video"] \o Fixed("video", previous)]
    <3>1. /\ written'["video"] = written["video"] \o Fixed("video", previous)
          /\ written'["audio"] = written["audio"]
      BY <2>2 DEF TypeOK, Streams
    <3>2. Len(written'["video"]) = Len(written["video"]) + Len(previous)
      BY <1>4, <3>1, WrittenStep DEF Streams
    <3> QED BY <1>1, <1>5, <3>1, <3>2
  <2> QED BY <1>1, <2>1, <2>2
<1> QED BY <1>1, <1>2, <1>7 DEF Finished, CompleteOnSuccess

LEMMA FinishedStep == TypeOK /\ Increasing /\ Balance /\ Finished /\ [Next]_vars => Finished'
<1> SUFFICES ASSUME TypeOK, Increasing, Balance, Finished, [Next]_vars PROVE Finished'
  OBVIOUS
<1>1. ASSUME UNCHANGED <<success, queue, held, accepted, written, trailer>>, stopped => stopped',
             thread' \in {thread, Wake(thread)}
      PROVE  Finished'
  <2>1. /\ thread' = "finish" => thread = "finish"
        /\ thread \in {"close", "end", "done"} => thread' \in {"close", "end", "done"}
    BY <1>1 DEF Wake
  <2> QED BY <1>1, <2>1 DEF Finished, CompleteOnSuccess
<1>2. ASSUME NEW s \in Streams, OpenSink(s) \/ FailSink(s) \/ CloseSink(s) PROVE Finished'
  BY <1>1, <1>2 DEF OpenSink, FailSink, CloseSink, shared, local
<1>3. CASE DisableSink \/ Stop \/ Join
  BY <1>1, <1>3 DEF DisableSink, Stop, Join, shared, local
<1>4. ASSUME NEW s \in Streams, NEW p \in Packets, PushPacket(s, p) PROVE Finished'
  <2>1. ~stopped /\ UNCHANGED success /\ thread' = Wake(thread)
    BY <1>4 DEF PushPacket, local
  <2>2. ~success' /\ thread' # "finish"
    BY <2>1 DEF Finished, Wake
  <2> QED BY <2>2 DEF Finished
<1>5. CASE \/ OpenOutput \/ AwaitHeader \/ ProcessHeader \/ AwaitPacket \/ ProcessLater
           \/ ProcessNoVideo \/ Process
  <2>1. /\ thread \in {"open", "header", "loop", "process"} /\ thread' # "finish"
        /\ success' = success
    BY <1>5 DEF OpenOutput, AwaitHeader, ProcessHeader, AwaitPacket, ProcessLater, ProcessNoVideo,
                Process, Goto, local
  <2> QED BY <2>1 DEF Finished
<1>6. CASE TakePackets
  BY <1>6, FinishedTake
<1>7. CASE Finish
  BY <1>7, FinishedSucceeds
<1>8. CASE CloseOutput \/ End
  <2>1. /\ thread' \in {"end", "done"} /\ (stopped => stopped')
        /\ UNCHANGED <<success, accepted, written, trailer>>
    BY <1>8 DEF CloseOutput, End, Goto, shared, local
  <2> QED BY <2>1 DEF Finished, CompleteOnSuccess
<1>9. CASE SpuriousWakeup \/ ProcessAssert \/ UNCHANGED vars
  <2>1. /\ UNCHANGED <<success, queue, held, accepted, written, trailer, stopped>>
        /\ thread' \in {thread, Wake(thread)}
    BY <1>9 DEF SpuriousWakeup, ProcessAssert, Goto, vars, shared, local
  <2> QED BY <1>1, <2>1
<1> QED BY <1>2, <1>3, <1>4, <1>5, <1>6, <1>7, <1>8, <1>9 DEF Next, Demuxers, Thread

-----------------------------------------------------------------------------
LEMMA InvInit == Init => IInv
<1> SUFFICES ASSUME Init PROVE IInv
  OBVIOUS
<1> USE DEF Init
<1>1. TypeOK
  <2>1. enabled \in [Streams -> BOOLEAN] /\ 0 \in 0..MaxPackets
    BY BoundAssumption
  <2>2. /\ demux \in [Streams -> {"none", "starting", "open", "done"}]
        /\ received \in [Streams -> 0..MaxPackets]
    BY <2>1
  <2>3. /\ queue \in [Streams -> Seq(Packets)] /\ held \in [Streams -> Seq(Packets)]
        /\ accepted \in [Streams -> Seq(0..MaxPts)] /\ written \in [Streams -> Seq(Int)]
        /\ \A s \in Streams : held[s] = <<>>
        /\ previous \in Seq(Int) /\ Len(previous) <= 1
    OBVIOUS
  <2>4. \A s \in Streams : Len(held[s]) <= 1
    BY <2>3
  <2>5. inited \in [Streams -> BOOLEAN]
    OBVIOUS
  <2> QED BY <2>1, <2>2, <2>3, <2>4, <2>5 DEF TypeOK
<1>2. NoLostWakeup /\ Ended /\ Increasing
  BY DEF NoLostWakeup, Ended, Increasing
<1>3. Balance
  <2>1. ASSUME NEW s \in Streams
        PROVE  Len(accepted[s]) = Len(written[s]) + Awaited(s) + Len(Frame(s)) + Frames(queue[s])
    <3>1. accepted[s] = <<>> /\ written[s] = <<>> /\ Frame(s) = <<>> /\ Awaited(s) = 0
      BY DEF Frame, Media, Awaited
    <3>2. Frames(queue[s]) = 0
      BY FramesEmpty
    <3> QED BY <3>1, <3>2
  <2> QED BY <2>1 DEF Balance
<1>4. Finished
  BY DEF Finished
<1> QED BY <1>1, <1>2, <1>3, <1>4 DEF IInv

\* The invariant of the recorder, whatever the packets, their timestamps and the
\* time base of the file.
THEOREM Invariance == Spec => []IInv
<1>1. IInv /\ [Next]_vars => IInv'
  BY TypeStep, WakeupStep, EndedStep, IncreasingStep, BalanceStep, FinishedStep DEF IInv
<1> QED BY InvInit, <1>1, PTL DEF Spec

\* Types; the thread processes only when it holds a packet.
THEOREM TypeCorrect == Spec => []TypeOK
<1>1. IInv => TypeOK
  BY DEF IInv
<1> QED BY Invariance, <1>1, PTL

\* Timestamps in the file strictly increase, and a recording that succeeds lost
\* nothing but perhaps the last video frame.
THEOREM FileIsCorrect == Spec => []FileCorrect
<1>1. IInv => FileCorrect
  BY DEF IInv, FileCorrect, Finished, CompleteOnSuccess
<1> QED BY Invariance, <1>1, PTL

\* The recorder never sleeps on what it could do, and leaves no packet in a queue.
THEOREM AllServed == Spec => []QueuesServed
<1>1. IInv => QueuesServed
  BY DEF IInv, QueuesServed, Ended, NothingLeft
<1> QED BY Invariance, <1>1, PTL

=============================================================================
