--------------------------- MODULE PipelineProofs ---------------------------
(***************************************************************************)
(* The audio player, for any sizes: its ring is the queue of samples that    *)
(* SampleQueue promises, though its two threads share it with hardly a lock, *)
(* and its latency is bounded.                                              *)
(*                                                                          *)
(* The pipeline of a stream, for any sinks and limits, however many packets  *)
(* the device sends: every frame told of is in its mailbox, frames are shown *)
(* in the order they were decoded, no sink is given a frame once closed, and *)
(* the audio of a pipeline plays as the audio player alone does.             *)
(***************************************************************************)
EXTENDS Pipeline, FiniteSetTheorems, TLAPS

-----------------------------------------------------------------------------
(* The audio player: the invariant.                                        *)

Values == 0..Labels

AudioTypeOK ==
  /\ ring \in [Slots -> Values]
  /\ head \in Slots /\ tail \in Slots
  /\ lock \in {"none", "push", "pull"}
  /\ push \in [pc : {"idle", "silence", "convert", "publish", "full", "drop", "last", "trim",
                     "excess", "end"},
               amount : Nat, block : Seq(Values), rest : Seq(Values)]
  /\ pull \in [pc : {"idle", "copy", "publish", "played"}, n : Nat, block : Seq(Values)]
  /\ played \in BOOLEAN /\ received \in BOOLEAN
  /\ next \in 1..Labels
  /\ out \in Seq(Values)

\* The number of the next sample to publish, by a producer in state `p`.
DueOf(p, n) ==
  LET pending == p.block \o p.rest IN
  IF p.pc # "silence" /\ pending # <<>> THEN pending[1] ELSE n
Due == DueOf(push, next)

Thresholds == {((Target * 11) \div 10) + PlayedMargin, Target + InitialMargin}

\* What the producer holds at each place.
Held ==
  /\ push.pc \notin {"silence", "publish"} => push.block = <<>>
  /\ push.pc \notin {"publish", "full", "drop", "last"} => push.rest = <<>>
  /\ push.pc \in {"full", "drop", "last"} => push.rest # <<>>
  /\ push.pc = "publish" => push.block # <<>> \/ push.rest # <<>>
  /\ push.pc \in {"publish", "full", "drop", "last"} => Len(push.block) + Len(push.rest) <= Rate
  /\ push.pc \in {"silence", "convert"} => push.amount \in 1..Rate - 1
  /\ push.pc = "excess" => push.amount \in Thresholds

\* What the producer copied fits in the room left, where it will be read, and so
\* does what it writes once it has dropped samples.
Room ==
  /\ Len(push.block) <= CanWrite
  /\ \A i \in 1..Len(push.block) : ring[At(head, i - 1)] = push.block[i]
  /\ push.pc = "silence" =>
       /\ Len(push.block) + CanRead <= Target
       /\ \A i \in 1..Len(push.block) : push.block[i] = Silence
  /\ push.pc = "drop" => CanRead = Capacity
  /\ push.pc = "last" => Len(push.rest) <= CanWrite

\* Samples keep their numbers, whatever part of them is published.
Numbered ==
  push.pc # "silence" =>
    /\ \A i \in 1..Len(push.block) : push.block[i] = Label(Due + i - 1)
    /\ \A i \in 1..Len(push.rest) : push.rest[i] = Label(Due + Len(push.block) + i - 1)
    /\ next = Label(Due + Len(push.block) + Len(push.rest))

\* Who holds the mutex; what the consumer copies stays in the ring meanwhile.
Locked ==
  /\ lock = "push" <=> push.pc = "drop"
  /\ lock = "pull" <=> pull.pc \in {"copy", "publish"}
  /\ lock = "pull" => pull.n <= CanRead
  /\ pull.pc = "publish" => pull.block = Contents(pull.n)

Bounded == push.pc \in {"end", "idle"} => \E t \in Thresholds : CanRead <= t

AudioInv ==
  /\ AudioTypeOK
  /\ Held
  /\ Room
  /\ Numbered
  /\ Locked
  /\ Bounded

-----------------------------------------------------------------------------
(* Cursors.                                                                *)

\* How far a cursor is ahead of another, and the samples that follow one.
Distance(h, t)  == (Size + h - t) % Size
Window(r, t, n) == [i \in 1..n |-> r[At(t, i - 1)]]

LEMMA Sizes ==
  /\ Size \in Nat \ {0} /\ Capacity \in Nat /\ Size = Capacity + 1
  /\ Capacity = Target + Rate /\ Target \in Nat /\ Rate \in Nat /\ Labels \in Nat
  /\ Capacity + Rate < Labels + 1 /\ Rate <= Capacity /\ Rate <= Labels /\ Capacity <= Labels
BY SizesAssumption, LabelsAssumption DEF Size, Capacity

LEMMA Wrap ==
  ASSUME NEW m \in Nat \ {0}, NEW x \in Int, 0 <= x, x < 2 * m
  PROVE  x % m = IF x < m THEN x ELSE x - m
OBVIOUS

LEMMA Geometry ==
  ASSUME NEW h \in Slots, NEW t \in Slots
  PROVE  /\ Distance(h, t) \in 0..Capacity
         /\ Distance(h, t) = IF h >= t THEN h - t ELSE h - t + Size
         /\ (Size + t - h - 1) % Size = Capacity - Distance(h, t)
<1>1. /\ h \in Int /\ t \in Int /\ 0 <= h /\ h < Size /\ 0 <= t /\ t < Size
      /\ Size \in Nat \ {0} /\ Capacity = Size - 1
  BY Sizes DEF Slots
<1>2. Distance(h, t) = IF Size + h - t < Size THEN Size + h - t ELSE Size + h - t - Size
  <2>1. Size + h - t \in Int /\ 0 <= Size + h - t /\ Size + h - t < 2 * Size
    BY <1>1
  <2> DEFINE x == Size + h - t
  <2> HIDE DEF x
  <2>2. x % Size = IF x < Size THEN x ELSE x - Size
    BY <1>1, <2>1, Wrap DEF x
  <2> QED BY <1>1, <2>1, <2>2 DEF x, Distance
<1>3. (Size + t - h - 1) % Size =
        IF Size + t - h - 1 < Size THEN Size + t - h - 1 ELSE Size + t - h - 1 - Size
  <2>1. Size + t - h - 1 \in Int /\ 0 <= Size + t - h - 1 /\ Size + t - h - 1 < 2 * Size
    BY <1>1
  <2> DEFINE x == Size + t - h - 1
  <2> HIDE DEF x
  <2>2. x % Size = IF x < Size THEN x ELSE x - Size
    BY <1>1, <2>1, Wrap DEF x
  <2> QED BY <1>1, <2>1, <2>2 DEF x
<1> HIDE DEF Size, Capacity
<1> QED BY <1>1, <1>2, <1>3

LEMMA Advance ==
  ASSUME NEW c \in Slots, NEW n \in 0..Capacity
  PROVE  At(c, n) \in Slots /\ At(c, n) = IF c + n < Size THEN c + n ELSE c + n - Size
<1>1. c \in Int /\ 0 <= c /\ c < Size /\ Size \in Nat \ {0} /\ Capacity = Size - 1
  BY Sizes DEF Slots
<1>2. At(c, n) = IF c + n < Size THEN c + n ELSE c + n - Size
  <2>1. c + n \in Int /\ 0 <= c + n /\ c + n < 2 * Size
    BY <1>1
  <2> DEFINE x == c + n
  <2> HIDE DEF x
  <2>2. x % Size = IF x < Size THEN x ELSE x - Size
    BY <1>1, <2>1, Wrap DEF x
  <2> QED BY <1>1, <2>1, <2>2 DEF x, At
<1> QED BY <1>1, <1>2 DEF Slots

LEMMA HeadMoves ==
  ASSUME NEW h \in Slots, NEW t \in Slots, NEW n \in 0..Capacity - Distance(h, t)
  PROVE  At(h, n) \in Slots /\ Distance(At(h, n), t) = Distance(h, t) + n
<1>1. n \in 0..Capacity /\ n \in Int /\ Distance(h, t) \in Int
  BY Geometry, Sizes
<1>2. At(h, n) \in Slots /\ At(h, n) = IF h + n < Size THEN h + n ELSE h + n - Size
  BY <1>1, Advance
<1>3. Distance(At(h, n), t) = IF At(h, n) >= t THEN At(h, n) - t ELSE At(h, n) - t + Size
  BY <1>2, Geometry
<1>4. Distance(h, t) = IF h >= t THEN h - t ELSE h - t + Size
  BY Geometry
<1>5. h \in Int /\ 0 <= h /\ h < Size /\ t \in Int /\ 0 <= t /\ t < Size
      /\ Size \in Nat \ {0} /\ Capacity = Size - 1
  BY Sizes DEF Slots
<1> QED BY <1>1, <1>2, <1>3, <1>4, <1>5

LEMMA TailMoves ==
  ASSUME NEW h \in Slots, NEW t \in Slots, NEW n \in 0..Distance(h, t)
  PROVE  At(t, n) \in Slots /\ Distance(h, At(t, n)) = Distance(h, t) - n
<1>1. n \in 0..Capacity /\ n \in Int /\ Distance(h, t) \in Int
  BY Geometry, Sizes
<1>2. At(t, n) \in Slots /\ At(t, n) = IF t + n < Size THEN t + n ELSE t + n - Size
  BY <1>1, Advance
<1>3. Distance(h, At(t, n)) = IF h >= At(t, n) THEN h - At(t, n) ELSE h - At(t, n) + Size
  BY <1>2, Geometry
<1>4. Distance(h, t) = IF h >= t THEN h - t ELSE h - t + Size
  BY Geometry
<1>5. h \in Int /\ 0 <= h /\ h < Size /\ t \in Int /\ 0 <= t /\ t < Size
      /\ Size \in Nat \ {0} /\ Capacity = Size - 1
  BY Sizes DEF Slots
<1> QED BY <1>1, <1>2, <1>3, <1>4, <1>5

\* The room begins where what can be read ends.
LEMMA Beyond ==
  ASSUME NEW h \in Slots, NEW t \in Slots, NEW i \in 1..Capacity - Distance(h, t)
  PROVE  At(t, Distance(h, t) + i - 1) = At(h, i - 1)
<1>1. i \in Int /\ Distance(h, t) \in Int /\ Distance(h, t) + i - 1 \in 0..Capacity
      /\ i - 1 \in 0..Capacity
  BY Geometry, Sizes
<1>2. At(t, Distance(h, t) + i - 1) =
        IF t + (Distance(h, t) + i - 1) < Size THEN t + (Distance(h, t) + i - 1)
                                               ELSE t + (Distance(h, t) + i - 1) - Size
  BY <1>1, Advance
<1>3. At(h, i - 1) = IF h + (i - 1) < Size THEN h + (i - 1) ELSE h + (i - 1) - Size
  BY <1>1, Advance
<1>4. Distance(h, t) = IF h >= t THEN h - t ELSE h - t + Size
  BY Geometry
<1>5. h \in Int /\ 0 <= h /\ h < Size /\ t \in Int /\ 0 <= t /\ t < Size
      /\ Size \in Nat \ {0} /\ Capacity = Size - 1
  BY Sizes DEF Slots
<1> QED BY <1>1, <1>2, <1>3, <1>4, <1>5

LEMMA Further ==
  ASSUME NEW t \in Slots, NEW n \in 0..Capacity, NEW i \in 1..Capacity + 1 - n
  PROVE  At(At(t, n), i - 1) = At(t, n + i - 1)
<1>1. n \in Int /\ i \in Int /\ n + i - 1 \in 0..Capacity /\ i - 1 \in 0..Capacity
  BY Sizes
<1>2. At(t, n) \in Slots /\ At(t, n) = IF t + n < Size THEN t + n ELSE t + n - Size
  BY Advance
<1>3. At(At(t, n), i - 1) = IF At(t, n) + (i - 1) < Size THEN At(t, n) + (i - 1)
                                                         ELSE At(t, n) + (i - 1) - Size
  BY <1>1, <1>2, Advance
<1>4. At(t, n + i - 1) = IF t + (n + i - 1) < Size THEN t + (n + i - 1) ELSE t + (n + i - 1) - Size
  BY <1>1, Advance
<1>5. t \in Int /\ 0 <= t /\ t < Size /\ Size \in Nat \ {0} /\ Capacity = Size - 1
  BY Sizes DEF Slots
<1> QED BY <1>1, <1>2, <1>3, <1>4, <1>5

\* What can be read is out of the way of what is written in the room.
LEMMA Apart ==
  ASSUME NEW h \in Slots, NEW t \in Slots, NEW i \in 1..Distance(h, t)
  PROVE  /\ At(t, i - 1) \in Slots
         /\ Distance(At(t, i - 1), h) >= Capacity - Distance(h, t)
<1>1. i \in Int /\ Distance(h, t) \in 0..Capacity /\ i - 1 \in 0..Capacity /\ i <= Distance(h, t)
  BY Geometry, Sizes
<1>2. At(t, i - 1) \in Slots
      /\ At(t, i - 1) = IF t + (i - 1) < Size THEN t + (i - 1) ELSE t + (i - 1) - Size
  BY <1>1, Advance
<1>3. Distance(At(t, i - 1), h) = IF At(t, i - 1) >= h THEN At(t, i - 1) - h
                                                       ELSE At(t, i - 1) - h + Size
  BY <1>2, Geometry
<1>4. Distance(h, t) = IF h >= t THEN h - t ELSE h - t + Size
  BY Geometry
<1>5. h \in Int /\ 0 <= h /\ h < Size /\ t \in Int /\ 0 <= t /\ t < Size
      /\ Size \in Nat \ {0} /\ Capacity = Size - 1
  BY Sizes DEF Slots
<1> QED BY <1>1, <1>2, <1>3, <1>4, <1>5

-----------------------------------------------------------------------------
(* The ring.                                                               *)

LEMMA WindowFacts ==
  ASSUME NEW r \in [Slots -> Values], NEW t \in Slots, NEW n \in 0..Capacity
  PROVE  /\ Window(r, t, n) \in Seq(Values) /\ Len(Window(r, t, n)) = n
         /\ \A i \in 1..n : Window(r, t, n)[i] = r[At(t, i - 1)]
<1>1. n \in Nat
  BY Sizes
<1>2. ASSUME NEW i \in 1..n PROVE r[At(t, i - 1)] \in Values
  <2>1. i - 1 \in 0..Capacity
    BY <1>1, Sizes
  <2> QED BY <2>1, Advance
<1>3. Window(r, t, n) \in [1..n -> Values]
  BY <1>2 DEF Window
<1>4. Window(r, t, n) \in Seq(Values) /\ Len(Window(r, t, n)) = n
  <2> DEFINE w == Window(r, t, n)
  <2> HIDE DEF w
  <2>1. w \in [1..n -> Values]
    BY <1>3 DEF w
  <2>2. w \in Seq(Values) /\ Len(w) = n
    BY <1>1, <2>1
  <2> QED BY <2>2 DEF w
<1> QED BY <1>4 DEF Window

LEMMA Cursors ==
  ASSUME head \in Slots, tail \in Slots
  PROVE  /\ CanRead = Distance(head, tail) /\ CanRead \in 0..Capacity
         /\ CanWrite = Capacity - CanRead /\ CanWrite \in 0..Capacity
         /\ CanRead \in Nat /\ CanWrite \in Nat
<1>1. CanRead = Distance(head, tail) /\ CanWrite = (Size + tail - head - 1) % Size
  BY DEF CanRead, CanWrite, Distance
<1> QED BY <1>1, Geometry, Sizes

LEMMA CursorsNext ==
  ASSUME head' \in Slots, tail' \in Slots
  PROVE  /\ CanRead' = Distance(head', tail') /\ CanRead' \in 0..Capacity
         /\ CanWrite' = Capacity - CanRead' /\ CanWrite' \in 0..Capacity
         /\ CanRead' \in Nat /\ CanWrite' \in Nat
<1>1. CanRead' = Distance(head', tail') /\ CanWrite' = (Size + tail' - head' - 1) % Size
  BY DEF CanRead, CanWrite, Distance, Size
<1> QED BY <1>1, Geometry, Sizes

\* A block copied into the room leaves what can be read as it is.
LEMMA CopiedFacts ==
  ASSUME AudioTypeOK, NEW b \in Seq(Values), Len(b) <= CanWrite
  PROVE  /\ Copied(b) \in [Slots -> Values]
         /\ \A i \in 1..CanRead : Copied(b)[At(tail, i - 1)] = ring[At(tail, i - 1)]
         /\ \A i \in 1..Len(b) : Copied(b)[At(head, i - 1)] = b[i]
<1>1. /\ head \in Slots /\ tail \in Slots /\ ring \in [Slots -> Values]
      /\ Len(b) \in Nat /\ \A i \in 1..Len(b) : b[i] \in Values
  BY DEF AudioTypeOK
<1>2. /\ CanRead = Distance(head, tail) /\ CanRead \in 0..Capacity
      /\ CanWrite = Capacity - CanRead /\ CanRead \in Nat
  BY <1>1, Cursors
<1>3. Copied(b) = [slot \in Slots |-> IF Distance(slot, head) + 1 <= Len(b)
                                      THEN b[Distance(slot, head) + 1] ELSE ring[slot]]
  BY DEF Copied, Distance
<1>4. ASSUME NEW slot \in Slots
      PROVE  Copied(b)[slot] \in Values
  <2>1. Distance(slot, head) \in Nat
    BY <1>1, Geometry, Sizes
  <2>2. CASE Distance(slot, head) + 1 <= Len(b)
    <3>1. Distance(slot, head) + 1 \in 1..Len(b)
      BY <1>1, <2>1, <2>2
    <3> QED BY <1>1, <1>3, <2>2, <3>1
  <2>3. CASE ~(Distance(slot, head) + 1 <= Len(b))
    BY <1>1, <1>3, <2>3
  <2> QED BY <2>2, <2>3
<1>5. ASSUME NEW i \in 1..CanRead
      PROVE  Copied(b)[At(tail, i - 1)] = ring[At(tail, i - 1)]
  <2>1. At(tail, i - 1) \in Slots /\ Distance(At(tail, i - 1), head) >= CanWrite
    BY <1>1, <1>2, Apart
  <2>2. Distance(At(tail, i - 1), head) \in Nat
    BY <1>1, <2>1, Geometry, Sizes
  <2>3. ~(Distance(At(tail, i - 1), head) + 1 <= Len(b))
    BY <1>1, <1>2, <2>1, <2>2, Sizes
  <2> QED BY <1>3, <2>1, <2>3
<1>6. ASSUME NEW i \in 1..Len(b)
      PROVE  Copied(b)[At(head, i - 1)] = b[i]
  <2>1. Distance(head, head) = 0
    BY <1>1, Geometry, Sizes DEF Slots
  <2>2. i - 1 \in 0..Capacity - Distance(head, head)
    BY <1>1, <1>2, <2>1, Sizes
  <2>3. At(head, i - 1) \in Slots /\ Distance(At(head, i - 1), head) = 0 + (i - 1)
    BY <1>1, <2>1, <2>2, HeadMoves
  <2>4. Distance(At(head, i - 1), head) + 1 = i /\ i <= Len(b)
    BY <1>1, <2>3
  <2> QED BY <1>3, <2>3, <2>4
<1> QED BY <1>3, <1>4, <1>5, <1>6

LEMMA CopyKeeps ==
  ASSUME AudioTypeOK, NEW b \in Seq(Values), Len(b) <= CanWrite, NEW n \in 0..CanRead
  PROVE  Window(Copied(b), tail, n) = Contents(n)
<1>1. \A i \in 1..n : Copied(b)[At(tail, i - 1)] = ring[At(tail, i - 1)]
  <2>1. CanRead \in Nat
    BY Cursors DEF AudioTypeOK
  <2>2. 1..n \subseteq 1..CanRead
    BY <2>1
  <2> QED BY <2>2, CopiedFacts
<1> QED BY <1>1 DEF Window, Contents

LEMMA SameSeq ==
  ASSUME NEW S, NEW a \in Seq(S), NEW b \in Seq(S), Len(a) = Len(b),
         \A i \in 1..Len(a) : a[i] = b[i]
  PROVE  a = b
OBVIOUS

LEMMA Concat ==
  ASSUME NEW S, NEW a \in Seq(S), NEW b \in Seq(S)
  PROVE  /\ a \o b \in Seq(S) /\ Len(a \o b) = Len(a) + Len(b) /\ Len(a) \in Nat /\ Len(b) \in Nat
         /\ \A i \in 1..Len(a) : (a \o b)[i] = a[i]
         /\ \A i \in 1..Len(b) : (a \o b)[Len(a) + i] = b[i]
OBVIOUS

LEMMA Slice ==
  ASSUME NEW S, NEW a \in Seq(S), NEW m \in 1..Len(a) + 1, NEW n \in m - 1..Len(a)
  PROVE  /\ SubSeq(a, m, n) \in Seq(S) /\ Len(SubSeq(a, m, n)) = n - m + 1
         /\ \A i \in 1..n - m + 1 : SubSeq(a, m, n)[i] = a[m + i - 1]
OBVIOUS

\* Moving the writer's cursor appends to the queue what was copied in the room.
LEMMA Publish ==
  ASSUME AudioTypeOK, NEW r \in [Slots -> Values], NEW b \in Seq(Values), Len(b) <= CanWrite,
         \A i \in 1..CanRead : r[At(tail, i - 1)] = ring[At(tail, i - 1)],
         \A i \in 1..Len(b) : r[At(head, i - 1)] = b[i]
  PROVE  /\ At(head, Len(b)) \in Slots
         /\ Distance(At(head, Len(b)), tail) = CanRead + Len(b)
         /\ Window(r, tail, CanRead + Len(b)) = Contents(CanRead) \o b
<1>1. head \in Slots /\ tail \in Slots /\ ring \in [Slots -> Values] /\ Len(b) \in Nat
  BY DEF AudioTypeOK
<1>2. /\ CanRead = Distance(head, tail) /\ CanRead \in 0..Capacity
      /\ CanWrite = Capacity - CanRead /\ CanRead \in Nat
  BY <1>1, Cursors
<1>3. Len(b) \in 0..Capacity - Distance(head, tail)
  BY <1>1, <1>2, Sizes
<1>4. At(head, Len(b)) \in Slots /\ Distance(At(head, Len(b)), tail) = CanRead + Len(b)
  BY <1>1, <1>2, <1>3, HeadMoves
<1>5. CanRead + Len(b) \in 0..Capacity
  BY <1>1, <1>2, <1>3, Sizes
<1> DEFINE w == Window(r, tail, CanRead + Len(b))
           q == Contents(CanRead)
<1>6. /\ w \in Seq(Values) /\ Len(w) = CanRead + Len(b)
      /\ \A i \in 1..CanRead + Len(b) : w[i] = r[At(tail, i - 1)]
  BY <1>1, <1>5, WindowFacts
<1>7. /\ q \in Seq(Values) /\ Len(q) = CanRead
      /\ \A i \in 1..CanRead : q[i] = ring[At(tail, i - 1)]
  <2>1. q = Window(ring, tail, CanRead)
    BY DEF Contents, Window
  <2> QED BY <1>1, <1>2, <2>1, WindowFacts
<1> HIDE DEF w, q
<1>8. /\ q \o b \in Seq(Values) /\ Len(q \o b) = CanRead + Len(b)
      /\ \A i \in 1..CanRead : (q \o b)[i] = q[i]
      /\ \A i \in 1..Len(b) : (q \o b)[CanRead + i] = b[i]
  <2>1. /\ q \o b \in Seq(Values) /\ Len(q \o b) = Len(q) + Len(b)
        /\ \A i \in 1..Len(q) : (q \o b)[i] = q[i]
        /\ \A i \in 1..Len(b) : (q \o b)[Len(q) + i] = b[i]
    <3>1. q \in Seq(Values)
      BY <1>7
    <3>2. q \o b \in Seq(Values) /\ Len(q \o b) = Len(q) + Len(b)
      BY <3>1, Concat
    <3>3. \A i \in 1..Len(q) : (q \o b)[i] = q[i]
      BY <3>1, Concat
    <3>4. \A i \in 1..Len(b) : (q \o b)[Len(q) + i] = b[i]
      BY <3>1, Concat
    <3> QED BY <3>2, <3>3, <3>4
  <2>2. Len(q) = CanRead
    BY <1>7
  <2> QED BY <2>1, <2>2
<1>9. ASSUME NEW i \in 1..Len(w) PROVE w[i] = (q \o b)[i]
  <2>1. CASE i <= CanRead
    <3>1. i \in 1..CanRead
      BY <1>1, <1>2, <1>6, <2>1
    <3>2. r[At(tail, i - 1)] = ring[At(tail, i - 1)]
      BY <3>1
    <3> QED BY <1>6, <1>7, <1>8, <3>1, <3>2
  <2>2. CASE ~(i <= CanRead)
    <3>1. PICK j \in 1..Len(b) : i = CanRead + j
      <4>1. i - CanRead \in 1..Len(b) /\ i = CanRead + (i - CanRead)
        BY <1>1, <1>2, <1>6, <2>2
      <4> QED BY <4>1
    <3>2. j \in 1..Capacity - Distance(head, tail)
      BY <1>1, <1>2, <1>3, <3>1
    <3>3. At(tail, CanRead + j - 1) = At(head, j - 1)
      BY <1>1, <1>2, <3>2, Beyond
    <3>4. w[i] = r[At(head, j - 1)]
      <4>1. w[i] = r[At(tail, i - 1)]
        BY <1>6
      <4>2. i - 1 = CanRead + j - 1
        BY <1>1, <1>2, <3>1
      <4> QED BY <3>3, <4>1, <4>2
    <3> QED BY <1>8, <3>1, <3>4
  <2> QED BY <2>1, <2>2
<1>10. w = q \o b
  BY <1>6, <1>8, <1>9, SameSeq
<1> QED BY <1>4, <1>10 DEF w, q

\* Moving the reader's cursor takes the first samples out of the queue.
LEMMA Discard ==
  ASSUME AudioTypeOK, NEW n \in 0..CanRead
  PROVE  /\ At(tail, n) \in Slots
         /\ Distance(head, At(tail, n)) = CanRead - n
         /\ Window(ring, At(tail, n), CanRead - n) = SubSeq(Contents(CanRead), n + 1, CanRead)
<1>1. head \in Slots /\ tail \in Slots /\ ring \in [Slots -> Values]
  BY DEF AudioTypeOK
<1>2. /\ CanRead = Distance(head, tail) /\ CanRead \in 0..Capacity /\ CanRead \in Nat
      /\ n \in Nat /\ n \in 0..Capacity /\ CanRead - n \in 0..Capacity
  BY <1>1, Cursors, Sizes
<1>3. At(tail, n) \in Slots /\ Distance(head, At(tail, n)) = CanRead - n
  BY <1>1, <1>2, TailMoves
<1> DEFINE w == Window(ring, At(tail, n), CanRead - n)
           q == Contents(CanRead)
<1>4. /\ w \in Seq(Values) /\ Len(w) = CanRead - n
      /\ \A i \in 1..CanRead - n : w[i] = ring[At(At(tail, n), i - 1)]
  BY <1>1, <1>2, <1>3, WindowFacts
<1>5. /\ q \in Seq(Values) /\ Len(q) = CanRead
      /\ \A i \in 1..CanRead : q[i] = ring[At(tail, i - 1)]
  <2>1. q = Window(ring, tail, CanRead)
    BY DEF Contents, Window
  <2> QED BY <1>1, <1>2, <2>1, WindowFacts
<1> HIDE DEF w, q
<1>6. /\ SubSeq(q, n + 1, CanRead) \in Seq(Values)
      /\ Len(SubSeq(q, n + 1, CanRead)) = CanRead - n
      /\ \A i \in 1..CanRead - n : SubSeq(q, n + 1, CanRead)[i] = q[n + i]
  <2>1. n + 1 \in 1..Len(q) + 1 /\ CanRead \in (n + 1) - 1..Len(q)
        /\ CanRead - (n + 1) + 1 = CanRead - n
    BY <1>2, <1>5
  <2>2. /\ SubSeq(q, n + 1, CanRead) \in Seq(Values)
        /\ Len(SubSeq(q, n + 1, CanRead)) = CanRead - (n + 1) + 1
        /\ \A i \in 1..CanRead - (n + 1) + 1 : SubSeq(q, n + 1, CanRead)[i] = q[(n + 1) + i - 1]
    BY <1>5, <2>1, Slice
  <2>3. \A i \in 1..CanRead - n : (n + 1) + i - 1 = n + i
    BY <1>2
  <2> QED BY <2>1, <2>2, <2>3
<1>7. ASSUME NEW i \in 1..Len(w) PROVE w[i] = SubSeq(q, n + 1, CanRead)[i]
  <2>1. i \in 1..CanRead - n /\ n + i \in 1..CanRead /\ i \in 1..Capacity + 1 - n
    BY <1>2, <1>4, Sizes
  <2>2. At(At(tail, n), i - 1) = At(tail, n + i - 1)
    BY <1>1, <1>2, <2>1, Further
  <2>3. q[n + i] = ring[At(tail, (n + i) - 1)]
    BY <1>5, <2>1
  <2> QED BY <1>2, <1>4, <1>6, <2>1, <2>2, <2>3
<1>8. w = SubSeq(q, n + 1, CanRead)
  BY <1>4, <1>6, <1>7, SameSeq
<1> QED BY <1>3, <1>8 DEF w, q

LEMMA ContentsFacts ==
  ASSUME AudioTypeOK, NEW n \in 0..CanRead
  PROVE  /\ Contents(n) \in Seq(Values) /\ Len(Contents(n)) = n
         /\ Contents(n) = SubSeq(Contents(CanRead), 1, n)
<1>1. tail \in Slots /\ head \in Slots /\ ring \in [Slots -> Values]
  BY DEF AudioTypeOK
<1>2. CanRead \in 0..Capacity /\ CanRead \in Nat /\ n \in 0..Capacity /\ n \in Nat
  BY <1>1, Cursors, Sizes
<1>3. Contents(n) = Window(ring, tail, n) /\ Contents(CanRead) = Window(ring, tail, CanRead)
  BY DEF Contents, Window
<1> DEFINE w == Contents(n)
           q == Contents(CanRead)
<1>4. w \in Seq(Values) /\ Len(w) = n /\ \A i \in 1..n : w[i] = ring[At(tail, i - 1)]
  BY <1>1, <1>2, <1>3, WindowFacts
<1>5. q \in Seq(Values) /\ Len(q) = CanRead /\ \A i \in 1..CanRead : q[i] = ring[At(tail, i - 1)]
  BY <1>1, <1>2, <1>3, WindowFacts
<1> HIDE DEF w, q
<1>6. /\ SubSeq(q, 1, n) \in Seq(Values) /\ Len(SubSeq(q, 1, n)) = n
      /\ \A i \in 1..n : SubSeq(q, 1, n)[i] = q[i]
  BY <1>2, <1>5, Slice
<1>7. \A i \in 1..n : w[i] = SubSeq(q, 1, n)[i]
  BY <1>2, <1>4, <1>5, <1>6
<1>8. w = SubSeq(q, 1, n)
  BY <1>4, <1>6, <1>7, SameSeq
<1> QED BY <1>4, <1>8 DEF w, q

-----------------------------------------------------------------------------
(* The consumer.                                                           *)

LEMMA Types ==
  ASSUME AudioTypeOK
  PROVE  /\ head \in Slots /\ tail \in Slots /\ ring \in [Slots -> Values]
         /\ push.block \in Seq(Values) /\ push.rest \in Seq(Values) /\ push.amount \in Nat
         /\ Len(push.block) \in Nat /\ Len(push.rest) \in Nat
         /\ pull.n \in Nat /\ pull.block \in Seq(Values)
         /\ next \in 1..Labels
         /\ CanRead = Distance(head, tail) /\ CanRead \in 0..Capacity /\ CanRead \in Nat
         /\ CanWrite = Capacity - CanRead /\ CanWrite \in Nat
<1>1. /\ head \in Slots /\ tail \in Slots /\ ring \in [Slots -> Values]
      /\ push.block \in Seq(Values) /\ push.rest \in Seq(Values) /\ push.amount \in Nat
      /\ pull.n \in Nat /\ pull.block \in Seq(Values) /\ next \in 1..Labels
  BY DEF AudioTypeOK
<1>2. Len(push.block) \in Nat /\ Len(push.rest) \in Nat
  BY <1>1
<1> QED BY <1>1, <1>2, Cursors

\* The producer's part is as before when neither it nor the ring moved.
LEMMA ProducerSame ==
  ASSUME AudioInv, UNCHANGED <<ring, head, tail, push, next>>
  PROVE  Held' /\ Room' /\ Numbered' /\ Bounded'
<1>1. CanRead' = CanRead /\ CanWrite' = CanWrite /\ Due' = Due
  BY DEF CanRead, CanWrite, Due
<1> QED BY <1>1 DEF AudioInv, Held, Room, Numbered, Bounded

LEMMA PullKeeps ==
  ASSUME AudioInv, Pull
  PROVE  AudioInv'
<1>1. /\ pull.pc = "idle" /\ lock = "none" /\ lock' = "pull"
      /\ pull' = [pc |-> "copy", n |-> Least(Request, CanRead), block |-> <<>>]
      /\ UNCHANGED <<ring, head, tail, push, played, received, next, out>>
  BY DEF Pull
<1>2. Least(Request, CanRead) \in Nat /\ Least(Request, CanRead) <= CanRead
  <2>1. CanRead \in Nat /\ Request \in Nat
    BY Types, SizesAssumption DEF AudioInv
  <2> QED BY <2>1 DEF Least
<1>3. AudioTypeOK'
  BY <1>1, <1>2 DEF AudioInv, AudioTypeOK
<1>4. Locked'
  <2>1. CanRead' = CanRead
    BY <1>1 DEF CanRead
  <2> QED BY <1>1, <1>2, <2>1 DEF AudioInv, Locked
<1> QED BY <1>1, <1>3, <1>4, ProducerSame DEF AudioInv

LEMMA PullCopyKeeps ==
  ASSUME AudioInv, PullCopy
  PROVE  AudioInv'
<1>1. /\ pull.pc = "copy"
      /\ pull' = [pull EXCEPT !.pc = "publish", !.block = Contents(pull.n)]
      /\ UNCHANGED <<ring, head, tail, lock, push, played, received, next, out>>
  BY DEF PullCopy, shared
<1>2. lock = "pull" /\ pull.n \in 0..CanRead
  BY <1>1, Types DEF AudioInv, Locked
<1>3. Contents(pull.n) \in Seq(Values)
  BY <1>2, ContentsFacts DEF AudioInv
<1>4. AudioTypeOK'
  BY <1>1, <1>3 DEF AudioInv, AudioTypeOK
<1>5. /\ pull'.pc = "publish" /\ pull'.n = pull.n /\ pull'.block = Contents(pull.n)
  BY <1>1 DEF AudioInv, AudioTypeOK
<1>6. Locked'
  <2>1. CanRead' = CanRead /\ Contents(pull.n)' = Contents(pull.n)
    BY <1>1, <1>5 DEF CanRead, Contents
  <2> QED BY <1>1, <1>2, <1>5, <2>1 DEF AudioInv, Locked
<1> QED BY <1>1, <1>4, <1>6, ProducerSame DEF AudioInv

\* Reading makes room, and shortens what may be played.
LEMMA Shorter ==
  ASSUME AudioInv, UNCHANGED <<ring, head, push>>, tail' \in Slots, CanRead' <= CanRead,
         push.pc # "drop"
  PROVE  Room' /\ Bounded'
<1>1. /\ CanRead \in Nat /\ CanWrite = Capacity - CanRead /\ Len(push.block) \in Nat
      /\ Len(push.rest) \in Nat /\ head \in Slots /\ CanWrite \in Nat
  BY Types DEF AudioInv
<1>2. CanRead' \in Nat /\ CanWrite' = Capacity - CanRead' /\ CanWrite' \in Nat
  BY <1>1, CursorsNext
<1>3. CanWrite <= CanWrite'
  <2> DEFINE a == CanRead   b == CanRead'   c == Capacity
  <2>1. a \in Int /\ b \in Int /\ c \in Int /\ b <= a
    BY <1>1, <1>2, Sizes
  <2>2. CanWrite = c - a /\ CanWrite' = c - b
    BY <1>1, <1>2
  <2> HIDE DEF a, b, c
  <2>3. c - a <= c - b
    BY <2>1
  <2> QED BY <2>2, <2>3
<1>4. Room'
  <2>1. Len(push.block) <= CanWrite'
    BY <1>1, <1>2, <1>3 DEF AudioInv, Room
  <2>2. push.pc = "silence" => Len(push.block) + CanRead' <= Target
    BY <1>1, <1>2, Sizes DEF AudioInv, Room
  <2>3. push.pc = "last" => Len(push.rest) <= CanWrite'
    BY <1>1, <1>2, <1>3 DEF AudioInv, Room
  <2> QED BY <2>1, <2>2, <2>3 DEF AudioInv, Room
<1>5. Bounded'
  <2>1. ASSUME NEW t \in Thresholds, CanRead <= t PROVE CanRead' <= t
    <3>1. t \in Int
      BY SizesAssumption DEF Thresholds
    <3> QED BY <1>1, <1>2, <2>1, <3>1
  <2> QED BY <2>1 DEF AudioInv, Bounded, Thresholds
<1> QED BY <1>4, <1>5

LEMMA PullPublishKeeps ==
  ASSUME AudioInv, PullPublish
  PROVE  AudioInv'
<1>1. /\ pull.pc = "publish" /\ tail' = At(tail, pull.n) /\ lock' = "none" /\ out' = pull.block
      /\ pull' = [pc |-> "played", n |-> 0, block |-> <<>>]
      /\ UNCHANGED <<ring, head, push, played, received, next>>
  BY DEF PullPublish
<1>2. lock = "pull" /\ pull.n \in 0..CanRead /\ push.pc # "drop"
  BY <1>1, Types DEF AudioInv, Locked
<1>3. tail' \in Slots /\ Distance(head, tail') = CanRead - pull.n
  BY <1>1, <1>2, Discard DEF AudioInv
<1>4. CanRead' <= CanRead
  <2>1. CanRead' = Distance(head, tail')
    BY <1>1, <1>3, Types, CursorsNext DEF AudioInv
  <2> QED BY <1>2, <1>3, <2>1, Types DEF AudioInv
<1>5. AudioTypeOK'
  BY <1>1, <1>3 DEF AudioInv, AudioTypeOK
<1>6. Room' /\ Bounded'
  BY <1>1, <1>2, <1>3, <1>4, Shorter
<1>7. Held'
  BY <1>1 DEF AudioInv, Held, Thresholds
<1>8. Numbered'
  BY <1>1 DEF AudioInv, Numbered, Due
<1>9. Locked'
  BY <1>1, <1>2 DEF AudioInv, Locked
<1> QED BY <1>5, <1>6, <1>7, <1>8, <1>9 DEF AudioInv

LEMMA PullEndKeeps ==
  ASSUME AudioInv, PullEnd
  PROVE  AudioInv'
<1>1. /\ pull.pc = "played" /\ played' = TRUE /\ pull' = [pull EXCEPT !.pc = "idle"]
      /\ out' = <<>> /\ UNCHANGED <<ring, head, tail, lock, push, received, next>>
  BY DEF PullEnd, shared
<1>2. AudioTypeOK'
  <2>1. pull' \in [pc : {"idle", "copy", "publish", "played"}, n : Nat, block : Seq(Values)]
    BY <1>1 DEF AudioInv, AudioTypeOK
  <2>2. out' \in Seq(Values) /\ played' \in BOOLEAN
    BY <1>1
  <2> QED BY <1>1, <2>1, <2>2 DEF AudioInv, AudioTypeOK
<1>3. pull'.pc = "idle" /\ lock # "pull"
  BY <1>1 DEF AudioInv, AudioTypeOK, Locked
<1>4. Locked'
  BY <1>1, <1>3 DEF AudioInv, Locked
<1> QED BY <1>1, <1>2, <1>4, ProducerSame DEF AudioInv

-----------------------------------------------------------------------------
(* The numbers of samples.                                                 *)

LEMMA LabelFacts ==
  ASSUME NEW d \in 1..Labels, NEW k \in 0..Labels
  PROVE  /\ Label(d + k) \in 1..Labels
         /\ Label(d + k) = IF d + k <= Labels THEN d + k ELSE d + k - Labels
<1>1. d \in Int /\ 1 <= d /\ d <= Labels /\ k \in Int /\ 0 <= k /\ k <= Labels
      /\ Labels \in Nat \ {0}
  BY Sizes
<1> DEFINE x == (d + k) - 1
<1>2. x \in Int /\ 0 <= x /\ x < 2 * Labels
  BY <1>1
<1> HIDE DEF x
<1>3. x % Labels = IF x < Labels THEN x ELSE x - Labels
  BY <1>1, <1>2, Wrap
<1>4. Label(d + k) = (x % Labels) + 1
  BY DEF Label, x
<1>5. Label(d + k) = IF d + k <= Labels THEN d + k ELSE d + k - Labels
  BY <1>1, <1>3, <1>4 DEF x
<1> QED BY <1>1, <1>5

LEMMA LabelSame == ASSUME NEW d \in 1..Labels PROVE Label(d) = d
<1>1. d + 0 = d /\ 0 \in 0..Labels /\ d <= Labels
  BY Sizes
<1>2. Label(d + 0) = IF d + 0 <= Labels THEN d + 0 ELSE d + 0 - Labels
  BY <1>1, LabelFacts
<1> QED BY <1>1, <1>2

LEMMA LabelAdds ==
  ASSUME NEW d \in 1..Labels, NEW m \in Nat, NEW k \in Nat, m + k <= Labels
  PROVE  Label(Label(d + m) + k) = Label(d + m + k)
<1>1. /\ d \in Int /\ m \in Int /\ k \in Int /\ m \in 0..Labels /\ k \in 0..Labels
      /\ m + k \in 0..Labels /\ Labels \in Int /\ 1 <= d /\ d <= Labels
  BY Sizes
<1>2. /\ Label(d + m) \in 1..Labels
      /\ Label(d + m) = IF d + m <= Labels THEN d + m ELSE d + m - Labels
  BY <1>1, LabelFacts
<1> DEFINE e == Label(d + m)
<1> HIDE DEF e
<1>3. Label(e + k) = IF e + k <= Labels THEN e + k ELSE e + k - Labels
  BY <1>1, <1>2, LabelFacts DEF e
<1>4. Label(d + (m + k)) = IF d + (m + k) <= Labels THEN d + (m + k) ELSE d + (m + k) - Labels
  BY <1>1, LabelFacts
<1>5. d + (m + k) = d + m + k
  BY <1>1
<1>6. Label(e + k) = Label(d + (m + k))
  BY <1>1, <1>2, <1>3, <1>4 DEF e
<1> QED BY <1>5, <1>6 DEF e

LEMMA DueFacts ==
  ASSUME NEW p, p.block \in Seq(Values), p.rest \in Seq(Values), NEW n
  PROVE  /\ p.pc = "silence" => DueOf(p, n) = n
         /\ p.pc # "silence" =>
              /\ p.block # <<>> => DueOf(p, n) = p.block[1]
              /\ p.block = <<>> /\ p.rest # <<>> => DueOf(p, n) = p.rest[1]
              /\ p.block = <<>> /\ p.rest = <<>> => DueOf(p, n) = n
<1> DEFINE b == p.block   r == p.rest
<1>1. b \in Seq(Values) /\ r \in Seq(Values)
  OBVIOUS
<1>2. DueOf(p, n) = IF p.pc # "silence" /\ b \o r # <<>> THEN (b \o r)[1] ELSE n
  BY DEF DueOf
<1> HIDE DEF b, r
<1>3. b # <<>> => b \o r # <<>> /\ (b \o r)[1] = b[1]
  BY <1>1
<1>4. b = <<>> => b \o r = r
  BY <1>1
<1> QED BY <1>2, <1>3, <1>4 DEF b, r

\* After `m` samples are published, the rest is numbered from the next one.
LEMMA Renumber ==
  ASSUME NEW r \in Seq(Values), NEW d \in 1..Labels, NEW m \in Nat, m + Len(r) <= Labels, NEW x,
         \A i \in 1..Len(r) : r[i] = Label(d + m + i - 1),
         x = Label(d + m + Len(r))
  PROVE  /\ Label(d + m) \in 1..Labels
         /\ \A i \in 1..Len(r) : r[i] = Label(Label(d + m) + 0 + i - 1)
         /\ x = Label(Label(d + m) + 0 + Len(r))
         /\ r # <<>> => r[1] = Label(d + m)
         /\ r = <<>> => x = Label(d + m)
<1>1. /\ Len(r) \in Nat /\ Labels \in Int /\ m \in 0..Labels /\ d \in Int /\ m \in Int
  BY Sizes
<1>2. Label(d + m) \in 1..Labels /\ Label(d + m) \in Int
  <2>1. Label(d + m) \in 1..Labels
    BY <1>1, LabelFacts
  <2> QED BY <1>1, <2>1
<1>3. ASSUME NEW i \in 1..Len(r) PROVE r[i] = Label(Label(d + m) + 0 + i - 1)
  <2>1. i - 1 \in Nat /\ m + (i - 1) <= Labels
    BY <1>1
  <2>2. Label(Label(d + m) + (i - 1)) = Label(d + m + (i - 1))
    BY <2>1, LabelAdds
  <2>3. /\ Label(d + m) + (i - 1) = Label(d + m) + 0 + i - 1
        /\ d + m + (i - 1) = d + m + i - 1
    BY <1>1, <1>2
  <2> QED BY <2>2, <2>3
<1>4. x = Label(Label(d + m) + 0 + Len(r))
  <2>1. Label(Label(d + m) + Len(r)) = Label(d + m + Len(r))
    BY <1>1, LabelAdds
  <2>2. Label(d + m) + Len(r) = Label(d + m) + 0 + Len(r)
    BY <1>1, <1>2
  <2> QED BY <2>1, <2>2
<1>5. ASSUME r # <<>> PROVE r[1] = Label(d + m)
  <2>1. 1 \in 1..Len(r) /\ d + m + 1 - 1 = d + m
    BY <1>1, <1>5
  <2> QED BY <2>1
<1>6. ASSUME r = <<>> PROVE x = Label(d + m)
  <2>1. Len(r) = 0 /\ d + m + 0 = d + m
    BY <1>1, <1>6
  <2> QED BY <2>1
<1> QED BY <1>2, <1>3, <1>4, <1>5, <1>6

-----------------------------------------------------------------------------
(* The producer.                                                           *)

LEMMA DueType ==
  ASSUME AudioInv PROVE Due \in 1..Labels
<1>1. push.block \in Seq(Values) /\ push.rest \in Seq(Values) /\ next \in 1..Labels
  BY Types DEF AudioInv
<1>2. CASE push.pc = "silence" \/ (push.block = <<>> /\ push.rest = <<>>)
  BY <1>1, <1>2, DueFacts DEF Due
<1>3. CASE push.pc # "silence" /\ push.block # <<>>
  <2>1. Due = push.block[1] /\ 1 \in 1..Len(push.block)
    BY <1>1, <1>3, DueFacts DEF Due
  <2>2. Due = Label(Due + 1 - 1)
    BY <1>3, <2>1 DEF AudioInv, Numbered
  <2>3. Due \in Values
    BY <1>1, <2>1
  <2>4. Due \in Int /\ Due + 1 - 1 = Due
    BY <2>3, Sizes DEF Values
  <2>5. Label(Due) \in 1..Labels
    <3>1. (Due - 1) % Labels \in 0..Labels - 1
      BY <2>4, LabelsAssumption, SizesAssumption
    <3> QED BY <3>1, Sizes DEF Label
  <2> QED BY <2>2, <2>4, <2>5
<1>4. CASE push.pc # "silence" /\ push.block = <<>> /\ push.rest # <<>>
  <2>1. Due = push.rest[1] /\ 1 \in 1..Len(push.rest) /\ Len(push.block) = 0
    <3>1. Due = push.rest[1]
      BY <1>1, <1>4, DueFacts DEF Due
    <3>2. 1 \in 1..Len(push.rest)
      BY <1>1, <1>4
    <3>3. Len(push.block) = 0
      BY <1>4
    <3> QED BY <3>1, <3>2, <3>3
  <2>2. Due = Label(Due + 0 + 1 - 1)
    BY <1>4, <2>1 DEF AudioInv, Numbered
  <2>3. Due \in Values
    BY <1>1, <2>1
  <2>4. Due \in Int /\ Due + 0 + 1 - 1 = Due
    BY <2>3, Sizes DEF Values
  <2>5. Label(Due) \in 1..Labels
    <3>1. (Due - 1) % Labels \in 0..Labels - 1
      BY <2>4, LabelsAssumption, SizesAssumption
    <3> QED BY <3>1, Sizes DEF Label
  <2> QED BY <2>2, <2>4, <2>5
<1> QED BY <1>2, <1>3, <1>4

\* A producer with nothing pending numbers nothing.
LEMMA NumberedEmpty ==
  ASSUME push'.block = <<>>, push'.rest = <<>>, next' \in 1..Labels
  PROVE  Numbered' /\ Due' = next'
<1>1. Due' = next'
  <2>1. push'.block \in Seq(Values) /\ push'.rest \in Seq(Values)
    OBVIOUS
  <2>2. DueOf(push', next') = next'
    BY <2>1, DueFacts
  <2> QED BY <2>2 DEF Due
<1>2. next' = Label(next' + 0 + 0)
  <2>1. PICK n \in 1..Labels : n = next'
    OBVIOUS
  <2>2. n + 0 + 0 = n
    BY Sizes
  <2>3. n = Label(n + 0 + 0)
    BY <2>2, LabelSame
  <2> QED BY <2>1, <2>3
<1> QED BY <1>1, <1>2 DEF Numbered

LEMMA LockedKept ==
  ASSUME AudioInv, UNCHANGED <<lock, pull>>, push.pc # "drop", push'.pc # "drop",
         CanRead \in Nat, CanRead' \in Nat, CanRead <= CanRead',
         lock = "pull" => Window(ring', tail', pull.n) = Contents(pull.n)
  PROVE  Locked'
<1>1. lock = "pull" => pull.n <= CanRead'
  <2>1. pull.n \in Nat
    BY Types DEF AudioInv
  <2> QED BY <2>1 DEF AudioInv, Locked
<1>2. pull.pc = "publish" => pull.block = Contents(pull.n)'
  BY DEF AudioInv, Locked, Contents, Window
<1> QED BY <1>1, <1>2 DEF AudioInv, Locked

\* The effect on the queue of what the producer publishes.
LEMMA HeadStep ==
  ASSUME AudioInv, NEW b \in Seq(Values), Len(b) <= CanWrite, ring' \in [Slots -> Values],
         \A i \in 1..CanRead : ring'[At(tail, i - 1)] = ring[At(tail, i - 1)],
         \A i \in 1..Len(b) : ring'[At(head, i - 1)] = b[i],
         head' = At(head, Len(b)), tail' = tail
  PROVE  /\ head' \in Slots /\ CanRead' = CanRead + Len(b) /\ CanWrite' = CanWrite - Len(b)
         /\ CanRead' \in Nat /\ CanWrite' \in Nat /\ CanRead <= CanRead'
         /\ Contents(CanRead)' = Contents(CanRead) \o b
         /\ \A n \in 0..CanRead : Window(ring', tail', n) = Contents(n)
<1>1. /\ head \in Slots /\ tail \in Slots /\ CanRead \in Nat /\ CanWrite \in Nat
      /\ CanWrite = Capacity - CanRead /\ Len(b) \in Nat
  BY Types DEF AudioInv
<1>2. /\ head' \in Slots /\ Distance(head', tail) = CanRead + Len(b)
      /\ Window(ring', tail, CanRead + Len(b)) = Contents(CanRead) \o b
  BY Publish DEF AudioInv
<1>3. CanRead' = CanRead + Len(b) /\ CanWrite' = Capacity - CanRead'
  BY <1>1, <1>2, CursorsNext
<1>4. CanWrite' = CanWrite - Len(b) /\ CanRead' \in Nat /\ CanWrite' \in Nat /\ CanRead <= CanRead'
  BY <1>1, <1>3, Sizes
<1>5. Contents(CanRead)' = Window(ring', tail', CanRead')
  BY DEF Contents, Window
<1>6. ASSUME NEW n \in 0..CanRead PROVE Window(ring', tail', n) = Contents(n)
  <2>1. \A i \in 1..n : ring'[At(tail, i - 1)] = ring[At(tail, i - 1)]
    <3>1. 1..n \subseteq 1..CanRead
      BY <1>1
    <3> QED BY <3>1
  <2> QED BY <2>1 DEF Window, Contents
<1> QED BY <1>2, <1>3, <1>4, <1>5, <1>6

\* The effect of a copy into the room: none, until the cursor moves.
LEMMA CopyEffect ==
  ASSUME AudioInv, NEW b \in Seq(Values), Len(b) <= CanWrite, ring' = Copied(b),
         head' = head, tail' = tail
  PROVE  /\ ring' \in [Slots -> Values] /\ CanRead' = CanRead /\ CanWrite' = CanWrite
         /\ Contents(CanRead)' = Contents(CanRead)
         /\ \A n \in 0..CanRead : Window(ring', tail', n) = Contents(n)
         /\ \A i \in 1..Len(b) : ring'[At(head', i - 1)] = b[i]
<1>1. /\ ring' \in [Slots -> Values]
      /\ \A i \in 1..Len(b) : ring'[At(head', i - 1)] = b[i]
  BY CopiedFacts DEF AudioInv
<1>2. CanRead' = CanRead /\ CanWrite' = CanWrite
  BY DEF CanRead, CanWrite
<1>3. \A n \in 0..CanRead : Window(ring', tail', n) = Contents(n)
  BY CopyKeeps DEF AudioInv
<1>4. Contents(CanRead)' = Contents(CanRead)
  <2>1. Contents(CanRead)' = Window(ring', tail', CanRead')
    BY DEF Contents, Window
  <2>2. CanRead \in 0..CanRead
    BY Types DEF AudioInv
  <2> QED BY <1>2, <1>3, <2>1, <2>2
<1> QED BY <1>1, <1>2, <1>3, <1>4

\* What is decoded, or still has to be written, goes to the room as far as it fits.
LEMMA CopyStep ==
  ASSUME AudioInv, NEW samples \in Seq(Values), samples # <<>>, Len(samples) <= Rate,
         NEW d \in 1..Labels, \A i \in 1..Len(samples) : samples[i] = Label(d + i - 1),
         push.pc \in {"convert", "last"}, Copy(samples), next' = Label(d + Len(samples)),
         UNCHANGED <<head, tail, lock, pull, played, received, out>>
  PROVE  AudioInv' /\ Due' = d /\ Contents(CanRead)' = Contents(CanRead)
<1>1. /\ head \in Slots /\ tail \in Slots /\ CanRead \in Nat /\ CanWrite \in Nat
      /\ Len(samples) \in Nat /\ Rate \in Nat /\ Labels \in Nat /\ Rate <= Labels
  BY Types, Sizes DEF AudioInv
<1> DEFINE m == Least(Len(samples), CanWrite)
           b == SubSeq(samples, 1, m)
           r == SubSeq(samples, m + 1, Len(samples))
<1>2. m \in Nat /\ m <= Len(samples) /\ m <= CanWrite
  BY <1>1 DEF Least
<1>3. ring' = Copied(b) /\ push' = [pc |-> "publish", amount |-> 0, block |-> b, rest |-> r]
  BY DEF Copy, PushTo
<1> HIDE DEF m
<1>4. b \in Seq(Values) /\ Len(b) = m /\ \A i \in 1..m : b[i] = samples[i]
  <2>1. 1 \in 1..Len(samples) + 1 /\ m \in 1 - 1..Len(samples) /\ m - 1 + 1 = m
    BY <1>1, <1>2
  <2>2. /\ b \in Seq(Values) /\ Len(b) = m - 1 + 1
        /\ \A i \in 1..m - 1 + 1 : b[i] = samples[1 + i - 1]
    BY <2>1, Slice
  <2>3. \A i \in 1..m : 1 + i - 1 = i
    BY <1>2
  <2> QED BY <2>1, <2>2, <2>3
<1>5. /\ r \in Seq(Values) /\ Len(r) = Len(samples) - m
      /\ \A i \in 1..Len(samples) - m : r[i] = samples[m + i]
  <2>1. m + 1 \in 1..Len(samples) + 1 /\ Len(samples) \in (m + 1) - 1..Len(samples)
        /\ Len(samples) - (m + 1) + 1 = Len(samples) - m
    BY <1>1, <1>2
  <2>2. /\ r \in Seq(Values) /\ Len(r) = Len(samples) - (m + 1) + 1
        /\ \A i \in 1..Len(samples) - (m + 1) + 1 : r[i] = samples[(m + 1) + i - 1]
    BY <2>1, Slice
  <2>3. \A i \in 1..Len(samples) - m : (m + 1) + i - 1 = m + i
    BY <1>1, <1>2
  <2> QED BY <2>1, <2>2, <2>3
<1> HIDE DEF b, r
<1>6. /\ push'.pc = "publish" /\ push'.block = b /\ push'.rest = r
  BY <1>3
<1>7. /\ ring' \in [Slots -> Values] /\ CanRead' = CanRead /\ CanWrite' = CanWrite
      /\ Contents(CanRead)' = Contents(CanRead)
      /\ \A n \in 0..CanRead : Window(ring', tail', n) = Contents(n)
      /\ \A i \in 1..Len(b) : ring'[At(head', i - 1)] = b[i]
  BY <1>2, <1>3, <1>4, CopyEffect
<1>8. next' \in 1..Labels
  <2>1. Len(samples) \in 0..Labels
    BY <1>1
  <2> QED BY <2>1, LabelFacts
<1>9. AudioTypeOK'
  <2>1. push' \in [pc : {"idle", "silence", "convert", "publish", "full", "drop", "last", "trim",
                         "excess", "end"},
                   amount : Nat, block : Seq(Values), rest : Seq(Values)]
    BY <1>3, <1>4, <1>5
  <2> QED BY <1>7, <1>8, <2>1 DEF AudioInv, AudioTypeOK
<1>10. Len(b) + Len(r) = Len(samples) /\ Len(samples) > 0
  BY <1>1, <1>2, <1>4, <1>5
<1>11. b # <<>> \/ r # <<>>
  <2>1. Len(<<>>) = 0
    OBVIOUS
  <2> QED BY <1>10, <2>1
<1>12. Held'
  BY <1>6, <1>10, <1>11 DEF Held
<1>13. Room'
  BY <1>2, <1>4, <1>6, <1>7 DEF Room
<1>14. Due' = d
  <2>1. samples[1] = d
    <3>1. 1 \in 1..Len(samples) /\ d + 1 - 1 = d
      BY <1>1, <1>10
    <3> QED BY <3>1, LabelSame
  <2>2. CASE b # <<>>
    <3>1. 1 \in 1..m
      BY <1>2, <1>4, <2>2
    <3>2. Due' = b[1]
      BY <1>4, <1>5, <1>6, <2>2, DueFacts DEF Due
    <3> QED BY <1>4, <2>1, <3>1, <3>2
  <2>3. CASE b = <<>>
    <3>1. m = 0
      BY <1>4, <2>3
    <3>2. Due' = r[1]
      <4>1. /\ push'.block = <<>> /\ push'.rest # <<>> /\ push'.pc # "silence"
            /\ push'.block \in Seq(Values) /\ push'.rest \in Seq(Values)
        BY <1>4, <1>5, <1>6, <1>11, <2>3
      <4>2. DueOf(push', next') = push'.rest[1]
        BY <4>1, DueFacts
      <4> QED BY <1>6, <4>2 DEF Due
    <3>3. 1 \in 1..Len(samples) - m /\ m + 1 = 1
      BY <1>1, <1>10, <3>1
    <3>4. r[1] = samples[m + 1]
      BY <1>5, <3>3
    <3> QED BY <2>1, <3>2, <3>3, <3>4
  <2> QED BY <2>2, <2>3
<1>15. Numbered'
  <2>1. \A i \in 1..Len(b) : b[i] = Label(d + i - 1)
    <3>1. 1..m \subseteq 1..Len(samples)
      BY <1>1, <1>2
    <3> QED BY <1>4, <3>1
  <2>2. ASSUME NEW i \in 1..Len(r) PROVE r[i] = Label(d + Len(b) + i - 1)
    <3>1. i \in 1..Len(samples) - m /\ m + i \in 1..Len(samples)
          /\ d + (m + i) - 1 = d + m + i - 1
      BY <1>1, <1>2, <1>5
    <3>2. samples[m + i] = Label(d + (m + i) - 1)
      BY <3>1
    <3> QED BY <1>4, <1>5, <3>1, <3>2
  <2>3. next' = Label(d + Len(b) + Len(r))
    <3>1. d + Len(b) + Len(r) = d + Len(samples)
      BY <1>1, <1>2, <1>4, <1>5
    <3> QED BY <3>1
  <2> QED BY <1>6, <1>14, <2>1, <2>2, <2>3 DEF Numbered
<1>16. Locked'
  <2>1. lock = "pull" => pull.n \in 0..CanRead
    BY Types DEF AudioInv, Locked
  <2>2. CanRead <= CanRead' /\ CanRead' \in Nat
    BY <1>1, <1>7
  <2> QED BY <1>1, <1>6, <1>7, <2>1, <2>2, LockedKept
<1>17. Bounded'
  BY <1>6 DEF Bounded
<1> QED BY <1>7, <1>9, <1>12, <1>13, <1>14, <1>15, <1>16, <1>17 DEF AudioInv

LEMMA PushConvertKeeps ==
  ASSUME AudioInv, PushConvert
  PROVE  AudioInv' /\ Due' = Due /\ Contents(CanRead)' = Contents(CanRead)
<1>1. PICK n \in (push.amount - 1..push.amount + 1) \ {0} :
        /\ push.pc = "convert" /\ Copy(Fitting(Samples(next, n))) /\ next' = Label(next + n)
        /\ UNCHANGED <<head, tail, lock, pull, played, received, out>>
  BY DEF PushConvert
<1>2. /\ n \in Nat /\ n # 0 /\ n <= Rate /\ Rate \in Nat /\ Capacity \in Nat /\ Rate <= Capacity
      /\ Rate <= Labels /\ Labels \in Nat
  <2>1. push.amount \in 1..Rate - 1
    BY <1>1 DEF AudioInv, Held
  <2> QED BY <2>1, Sizes
<1>3. next \in 1..Labels
  BY Types DEF AudioInv
<1> DEFINE samples == Samples(next, n)
<1>4. ASSUME NEW i \in 1..n PROVE Label(next + i - 1) \in Values
  <2>1. i - 1 \in 0..Labels /\ next + (i - 1) = next + i - 1
    BY <1>2, <1>3
  <2>2. Label(next + (i - 1)) \in 1..Labels
    BY <1>3, <2>1, LabelFacts
  <2> QED BY <1>2, <2>1, <2>2 DEF Values
<1>5. samples \in [1..n -> Values] /\ \A i \in 1..n : samples[i] = Label(next + i - 1)
  BY <1>4 DEF Samples
<1> HIDE DEF samples
<1>6. samples \in Seq(Values) /\ Len(samples) = n
  BY <1>2, <1>5
<1>7. samples # <<>>
  BY <1>2, <1>6
<1>8. Fitting(samples) = samples
  BY <1>2, <1>6 DEF Fitting
<1>9. Copy(samples)
  BY <1>1, <1>8 DEF samples
<1>10. push.block = <<>> /\ push.rest = <<>>
  BY <1>1 DEF AudioInv, Held
<1>11. Due = next
  BY <1>10, Types, DueFacts DEF Due, AudioInv
<1> QED BY <1>1, <1>2, <1>3, <1>5, <1>6, <1>7, <1>9, <1>11, CopyStep

LEMMA PushLastKeeps ==
  ASSUME AudioInv, PushLast
  PROVE  AudioInv' /\ Due' = Due /\ Contents(CanRead)' = Contents(CanRead)
<1>1. /\ push.pc = "last" /\ Copy(push.rest)
      /\ UNCHANGED <<head, tail, lock, pull, played, received, next, out>>
  BY DEF PushLast
<1>2. /\ push.rest \in Seq(Values) /\ push.rest # <<>> /\ push.block = <<>> /\ Len(push.block) = 0
      /\ Len(push.block) + Len(push.rest) <= Rate /\ Len(push.rest) \in Nat
  BY <1>1, Types DEF AudioInv, Held
<1>3. Len(push.rest) <= Rate
  BY <1>2, Sizes
<1>4. Due \in 1..Labels /\ Due \in Int
  BY DueType, Sizes
<1>5. ASSUME NEW i \in 1..Len(push.rest) PROVE push.rest[i] = Label(Due + i - 1)
  <2>1. push.rest[i] = Label(Due + Len(push.block) + i - 1)
    BY <1>1 DEF AudioInv, Numbered
  <2>2. Due + Len(push.block) + i - 1 = Due + i - 1
    BY <1>2, <1>4
  <2> QED BY <2>1, <2>2
<1>6. next' = Label(Due + Len(push.rest))
  <2>1. next = Label(Due + Len(push.block) + Len(push.rest))
    BY <1>1 DEF AudioInv, Numbered
  <2>2. Due + Len(push.block) + Len(push.rest) = Due + Len(push.rest)
    BY <1>2, <1>4
  <2> QED BY <1>1, <2>1, <2>2
<1> QED BY <1>1, <1>2, <1>3, <1>4, <1>5, <1>6, CopyStep

\* What is published keeps its place in the queue.
LEMMA PushPublishKeeps ==
  ASSUME AudioInv, PushPublish
  PROVE  /\ AudioInv'
         /\ Contents(CanRead)' = Contents(CanRead) \o push.block
         /\ Due' = Label(Due + Len(push.block))
<1>1. /\ push.pc = "publish" /\ head' = At(head, Len(push.block))
      /\ push' = [pc |-> IF push.rest = <<>> THEN "trim" ELSE "full", amount |-> 0,
                  block |-> <<>>, rest |-> push.rest]
      /\ UNCHANGED <<ring, tail, lock, pull, played, received, next, out>>
  BY DEF PushPublish, PushTo
<1>2. /\ push'.pc = IF push.rest = <<>> THEN "trim" ELSE "full"
      /\ push'.block = <<>> /\ push'.rest = push.rest
  BY <1>1
<1> DEFINE b == push.block   r == push.rest
<1>3. /\ b \in Seq(Values) /\ r \in Seq(Values) /\ Len(b) \in Nat /\ Len(r) \in Nat
      /\ Len(b) <= CanWrite /\ \A i \in 1..Len(b) : ring[At(head, i - 1)] = b[i]
      /\ Len(b) + Len(r) <= Rate /\ ring \in [Slots -> Values] /\ CanRead \in Nat
      /\ next \in 1..Labels
  BY <1>1, Types DEF AudioInv, Room, Held
<1>4. /\ head' \in Slots /\ CanRead' = CanRead + Len(b) /\ CanWrite' = CanWrite - Len(b)
      /\ CanRead' \in Nat /\ CanWrite' \in Nat /\ CanRead <= CanRead'
      /\ Contents(CanRead)' = Contents(CanRead) \o b
      /\ \A n \in 0..CanRead : Window(ring', tail', n) = Contents(n)
  BY <1>1, <1>3, HeadStep
<1>5. Due \in 1..Labels /\ Len(b) + Len(r) <= Labels
  <2> DEFINE lb == Len(b)   lr == Len(r)
  <2>1. lb \in Nat /\ lr \in Nat /\ lb + lr <= Rate /\ Rate <= Labels /\ Rate \in Nat
        /\ Labels \in Nat
    BY <1>3, Sizes
  <2> HIDE DEF lb, lr
  <2>2. lb + lr <= Labels
    BY <2>1
  <2> QED BY <2>2, DueType DEF lb, lr
<1>6. /\ Label(Due + Len(b)) \in 1..Labels
      /\ \A i \in 1..Len(r) : r[i] = Label(Label(Due + Len(b)) + 0 + i - 1)
      /\ next = Label(Label(Due + Len(b)) + 0 + Len(r))
      /\ r # <<>> => r[1] = Label(Due + Len(b))
      /\ r = <<>> => next = Label(Due + Len(b))
  <2>1. /\ \A i \in 1..Len(r) : r[i] = Label(Due + Len(b) + i - 1)
        /\ next = Label(Due + Len(b) + Len(r))
    BY <1>1 DEF AudioInv, Numbered
  <2> HIDE DEF b, r
  <2> QED BY <1>3, <1>5, <2>1, Renumber
<1>7. AudioTypeOK'
  <2>1. push' \in [pc : {"idle", "silence", "convert", "publish", "full", "drop", "last", "trim",
                         "excess", "end"},
                   amount : Nat, block : Seq(Values), rest : Seq(Values)]
    BY <1>1, <1>3
  <2> QED BY <1>1, <1>4, <2>1 DEF AudioInv, AudioTypeOK
<1>8. Len(push'.block) = 0
  BY <1>2
<1>9. Held'
  <2> DEFINE lb == Len(b)   lr == Len(r)
  <2>1. /\ Len(push'.block) + Len(push'.rest) = 0 + lr /\ lb \in Nat /\ lr \in Nat
        /\ lb + lr <= Rate /\ Rate \in Nat
    BY <1>2, <1>3, <1>8, Sizes
  <2> HIDE DEF lb, lr
  <2>2. 0 + lr <= Rate
    BY <2>1
  <2> QED BY <1>2, <2>1, <2>2 DEF Held
<1>10. Room'
  BY <1>2, <1>4, <1>8 DEF Room
<1>11. Due' = Label(Due + Len(b))
  <2>1. /\ push'.block \in Seq(Values) /\ push'.rest \in Seq(Values) /\ push'.pc # "silence"
        /\ push'.block = <<>> /\ push'.rest = r
    BY <1>2, <1>3
  <2>2. Due' = IF r # <<>> THEN r[1] ELSE next'
    <3>1. DueOf(push', next') = IF r # <<>> THEN r[1] ELSE next'
      BY <2>1, DueFacts
    <3> QED BY <3>1 DEF Due
  <2> QED BY <1>1, <1>6, <2>2
<1>12. Numbered'
  <2>1. /\ \A i \in 1..Len(push'.rest) : push'.rest[i] = Label(Due' + Len(push'.block) + i - 1)
        /\ next' = Label(Due' + Len(push'.block) + Len(push'.rest))
    BY <1>1, <1>2, <1>6, <1>8, <1>11
  <2> QED BY <1>8, <2>1 DEF Numbered
<1>13. Locked'
  <2>1. lock = "pull" => pull.n \in 0..CanRead
    BY Types DEF AudioInv, Locked
  <2> QED BY <1>1, <1>2, <1>3, <1>4, <2>1, LockedKept
<1>14. Bounded'
  BY <1>2 DEF Bounded
<1> QED BY <1>4, <1>7, <1>9, <1>10, <1>11, <1>12, <1>13, <1>14 DEF AudioInv

\* Steps of the producer that leave the ring alone.
LEMMA PushStartKeeps ==
  ASSUME AudioInv, push.pc = "idle", NEW input \in Inputs, Push(input)
  PROVE  AudioInv' /\ Due' = Due
<1>1. /\ push' = [pc |-> "convert", amount |-> input, block |-> <<>>, rest |-> <<>>]
      /\ UNCHANGED <<ring, head, tail, lock, pull, played, received, next, out>>
  BY DEF Push, shared
<1>2. input \in 1..Rate - 1 /\ input \in Nat
  BY SizesAssumption
<1>3. /\ push'.pc = "convert" /\ push'.amount = input /\ push'.block = <<>> /\ push'.rest = <<>>
      /\ Len(push'.block) = 0 /\ Len(push'.rest) = 0
  BY <1>1
<1>4. push.block = <<>> /\ push.rest = <<>> /\ next \in 1..Labels
  BY Types DEF AudioInv, Held
<1>5. AudioTypeOK'
  <2>1. push' \in [pc : {"idle", "silence", "convert", "publish", "full", "drop", "last", "trim",
                         "excess", "end"},
                   amount : Nat, block : Seq(Values), rest : Seq(Values)]
    BY <1>1, <1>2
  <2> QED BY <1>1, <2>1 DEF AudioInv, AudioTypeOK
<1>6. Held'
  BY <1>2, <1>3 DEF Held
<1>7. CanRead' = CanRead /\ CanWrite' = CanWrite /\ CanWrite \in Nat /\ CanRead \in Nat
  BY <1>1, Types DEF AudioInv, CanRead, CanWrite
<1>8. Room'
  BY <1>3, <1>7 DEF Room
<1>9. Numbered' /\ Due' = next'
  BY <1>1, <1>3, <1>4, NumberedEmpty
<1>10. Due = next
  BY <1>4, Types, DueFacts DEF Due, AudioInv
<1>11. Locked'
  <2>1. lock = "pull" => Window(ring', tail', pull.n) = Contents(pull.n)
    BY <1>1 DEF Window, Contents
  <2> QED BY <1>1, <1>3, <1>7, <2>1, LockedKept
<1>12. Bounded'
  BY <1>3 DEF Bounded
<1> QED BY <1>1, <1>5, <1>6, <1>8, <1>9, <1>10, <1>11, <1>12 DEF AudioInv

LEMMA PushTrimKeeps ==
  ASSUME AudioInv, PushTrim
  PROVE  AudioInv' /\ Due' = Due
<1>1. /\ push.pc = "trim"
      /\ push' = [push EXCEPT !.pc = IF CanRead > MaxBuffered THEN "excess" ELSE "end",
                              !.amount = IF CanRead > MaxBuffered THEN MaxBuffered ELSE 0]
      /\ UNCHANGED <<ring, head, tail, lock, pull, played, received, next, out>>
  BY DEF PushTrim, shared
<1>2. MaxBuffered \in Thresholds /\ MaxBuffered \in Nat
  BY SizesAssumption DEF MaxBuffered, Thresholds
<1>3. /\ push'.pc = IF CanRead > MaxBuffered THEN "excess" ELSE "end"
      /\ push'.amount = IF CanRead > MaxBuffered THEN MaxBuffered ELSE 0
      /\ push'.block = push.block /\ push'.rest = push.rest
  BY <1>1 DEF AudioInv, AudioTypeOK
<1>4. /\ push.block = <<>> /\ push.rest = <<>> /\ next \in 1..Labels
      /\ Len(push'.block) = 0 /\ push'.block = <<>> /\ push'.rest = <<>>
  BY <1>1, <1>3, Types DEF AudioInv, Held
<1>5. AudioTypeOK'
  <2>1. push' \in [pc : {"idle", "silence", "convert", "publish", "full", "drop", "last", "trim",
                         "excess", "end"},
                   amount : Nat, block : Seq(Values), rest : Seq(Values)]
    BY <1>1, <1>2 DEF AudioInv, AudioTypeOK
  <2> QED BY <1>1, <2>1 DEF AudioInv, AudioTypeOK
<1>6. Held'
  BY <1>2, <1>3, <1>4 DEF Held, Thresholds
<1>7. CanRead' = CanRead /\ CanWrite' = CanWrite /\ CanWrite \in Nat /\ CanRead \in Nat
  BY <1>1, Types DEF AudioInv, CanRead, CanWrite
<1>8. Room'
  BY <1>3, <1>4, <1>7 DEF Room
<1>9. Numbered' /\ Due' = next'
  BY <1>1, <1>4, NumberedEmpty
<1>10. Due = next
  BY <1>4, Types, DueFacts DEF Due, AudioInv
<1>11. Locked'
  <2>1. lock = "pull" => Window(ring', tail', pull.n) = Contents(pull.n)
    BY <1>1 DEF Window, Contents
  <2> QED BY <1>1, <1>3, <1>7, <2>1, LockedKept
<1>12. Bounded'
  <2>1. CASE CanRead > MaxBuffered
    BY <1>3, <2>1 DEF Bounded
  <2>2. CASE ~(CanRead > MaxBuffered)
    BY <1>2, <1>7, <2>2 DEF Bounded, Thresholds
  <2> QED BY <2>1, <2>2
<1> QED BY <1>1, <1>5, <1>6, <1>8, <1>9, <1>10, <1>11, <1>12 DEF AudioInv

LEMMA PushEndKeeps ==
  ASSUME AudioInv, PushEnd
  PROVE  AudioInv' /\ Due' = Due
<1>1. /\ push.pc = "end" /\ push' = [push EXCEPT !.pc = "idle"] /\ received' = TRUE
      /\ UNCHANGED <<ring, head, tail, lock, pull, played, next, out>>
  BY DEF PushEnd, shared
<1>2. push'.pc = "idle" /\ push'.block = push.block /\ push'.rest = push.rest
  BY <1>1 DEF AudioInv, AudioTypeOK
<1>3. /\ push.block = <<>> /\ push.rest = <<>> /\ next \in 1..Labels
      /\ Len(push'.block) = 0 /\ push'.block = <<>> /\ push'.rest = <<>>
  BY <1>1, <1>2, Types DEF AudioInv, Held
<1>4. AudioTypeOK'
  <2>1. push' \in [pc : {"idle", "silence", "convert", "publish", "full", "drop", "last", "trim",
                         "excess", "end"},
                   amount : Nat, block : Seq(Values), rest : Seq(Values)]
    BY <1>1 DEF AudioInv, AudioTypeOK
  <2> QED BY <1>1, <2>1 DEF AudioInv, AudioTypeOK
<1>5. Held'
  BY <1>2, <1>3 DEF Held
<1>6. CanRead' = CanRead /\ CanWrite' = CanWrite /\ CanWrite \in Nat /\ CanRead \in Nat
  BY <1>1, Types DEF AudioInv, CanRead, CanWrite
<1>7. Room'
  BY <1>2, <1>3, <1>6 DEF Room
<1>8. Numbered' /\ Due' = next'
  BY <1>1, <1>3, NumberedEmpty
<1>9. Due = next
  BY <1>3, Types, DueFacts DEF Due, AudioInv
<1>10. Locked'
  <2>1. lock = "pull" => Window(ring', tail', pull.n) = Contents(pull.n)
    BY <1>1 DEF Window, Contents
  <2> QED BY <1>1, <1>2, <1>6, <2>1, LockedKept
<1>11. Bounded'
  BY <1>1, <1>2, <1>6 DEF AudioInv, Bounded, Thresholds
<1> QED BY <1>1, <1>4, <1>5, <1>7, <1>8, <1>9, <1>10, <1>11 DEF AudioInv

\* The silence that fills a gap fits below the target.
LEMMA PushGapKeeps ==
  ASSUME AudioInv, push.pc = "idle", NEW input \in Inputs, PushGap(input)
  PROVE  AudioInv' /\ Due' = Due /\ Contents(CanRead)' = Contents(CanRead)
<1> DEFINE n == Target - CanRead - input
           b == [i \in 1..n |-> Silence]
<1>1. /\ n > 0 /\ ring' = Copied(b)
      /\ push' = [pc |-> "silence", amount |-> input, block |-> b, rest |-> <<>>]
      /\ UNCHANGED <<head, tail, lock, pull, played, received, next, out>>
  BY DEF PushGap
<1>2. /\ input \in 1..Rate - 1 /\ input \in Nat /\ CanRead \in Nat /\ CanWrite \in Nat
      /\ CanWrite = Capacity - CanRead /\ next \in 1..Labels
  BY SizesAssumption, Types DEF AudioInv
<1>3. n \in Nat /\ n + CanRead <= Target /\ n <= CanWrite
  BY <1>1, <1>2, Sizes
<1> HIDE DEF n
<1>4. b \in [1..n -> Values] /\ \A i \in 1..n : b[i] = Silence
  BY Sizes DEF Silence, Values
<1> HIDE DEF b
<1>5. b \in Seq(Values) /\ Len(b) = n
  BY <1>3, <1>4
<1>6. /\ push'.pc = "silence" /\ push'.amount = input /\ push'.block = b /\ push'.rest = <<>>
  BY <1>1
<1>7. /\ ring' \in [Slots -> Values] /\ CanRead' = CanRead /\ CanWrite' = CanWrite
      /\ Contents(CanRead)' = Contents(CanRead)
      /\ \A k \in 0..CanRead : Window(ring', tail', k) = Contents(k)
      /\ \A i \in 1..Len(b) : ring'[At(head', i - 1)] = b[i]
  BY <1>1, <1>3, <1>5, CopyEffect
<1>8. AudioTypeOK'
  <2>1. push' \in [pc : {"idle", "silence", "convert", "publish", "full", "drop", "last", "trim",
                         "excess", "end"},
                   amount : Nat, block : Seq(Values), rest : Seq(Values)]
    BY <1>1, <1>2, <1>5
  <2> QED BY <1>1, <1>7, <2>1 DEF AudioInv, AudioTypeOK
<1>9. Held'
  BY <1>2, <1>6 DEF Held
<1>10. Room'
  BY <1>3, <1>4, <1>5, <1>6, <1>7 DEF Room
<1>11. Numbered'
  BY <1>6 DEF Numbered
<1>12. Due' = next'
  <2>1. push'.pc = "silence" /\ push'.block \in Seq(Values) /\ push'.rest \in Seq(Values)
    BY <1>5, <1>6
  <2>2. DueOf(push', next') = next'
    BY <2>1, DueFacts
  <2> QED BY <2>2 DEF Due
<1>13. Due = next
  <2>1. push.block = <<>> /\ push.rest = <<>>
    BY DEF AudioInv, Held
  <2> QED BY <2>1, Types, DueFacts DEF Due, AudioInv
<1>14. Locked'
  <2>1. lock = "pull" => pull.n \in 0..CanRead
    BY Types DEF AudioInv, Locked
  <2>2. CanRead <= CanRead' /\ CanRead' \in Nat
    BY <1>2, <1>7
  <2> QED BY <1>1, <1>2, <1>6, <1>7, <2>1, <2>2, LockedKept
<1>15. Bounded'
  BY <1>6 DEF Bounded
<1> QED BY <1>1, <1>7, <1>8, <1>9, <1>10, <1>11, <1>12, <1>13, <1>14, <1>15 DEF AudioInv

LEMMA PushSilenceKeeps ==
  ASSUME AudioInv, PushSilence
  PROVE  AudioInv' /\ Due' = Due /\ Contents(CanRead)' = Contents(CanRead) \o push.block
<1>1. /\ push.pc = "silence" /\ head' = At(head, Len(push.block))
      /\ push' = [push EXCEPT !.pc = "convert", !.block = <<>>]
      /\ UNCHANGED <<ring, tail, lock, pull, played, received, next, out>>
  BY DEF PushSilence
<1>2. /\ push'.pc = "convert" /\ push'.block = <<>> /\ push'.rest = push.rest
      /\ push'.amount = push.amount /\ Len(push'.block) = 0
  BY <1>1 DEF AudioInv, AudioTypeOK
<1>3. push.rest = <<>> /\ push.amount \in 1..Rate - 1
  BY <1>1 DEF AudioInv, Held
<1> DEFINE b == push.block
<1>4. /\ b \in Seq(Values) /\ Len(b) \in Nat /\ Len(b) <= CanWrite
      /\ \A i \in 1..Len(b) : ring[At(head, i - 1)] = b[i]
      /\ ring \in [Slots -> Values] /\ CanRead \in Nat /\ next \in 1..Labels
  BY <1>1, Types DEF AudioInv, Room
<1>5. /\ head' \in Slots /\ CanRead' = CanRead + Len(b) /\ CanWrite' = CanWrite - Len(b)
      /\ CanRead' \in Nat /\ CanWrite' \in Nat /\ CanRead <= CanRead'
      /\ Contents(CanRead)' = Contents(CanRead) \o b
      /\ \A n \in 0..CanRead : Window(ring', tail', n) = Contents(n)
  BY <1>1, <1>4, HeadStep
<1>6. AudioTypeOK'
  <2>1. push' \in [pc : {"idle", "silence", "convert", "publish", "full", "drop", "last", "trim",
                         "excess", "end"},
                   amount : Nat, block : Seq(Values), rest : Seq(Values)]
    <3>1. push \in [pc : {"idle", "silence", "convert", "publish", "full", "drop", "last", "trim",
                         "excess", "end"},
                   amount : Nat, block : Seq(Values), rest : Seq(Values)]
      BY DEF AudioInv, AudioTypeOK
    <3>2. <<>> \in Seq(Values)
      OBVIOUS
    <3>3. push' = [pc |-> "convert", amount |-> push.amount, block |-> <<>>, rest |-> push.rest]
      BY <1>1, <3>1
    <3>4. push.amount \in Nat /\ push.rest \in Seq(Values)
      BY <3>1
    <3> QED BY <3>2, <3>3, <3>4
  <2> QED BY <1>1, <1>5, <2>1 DEF AudioInv, AudioTypeOK
<1>7. Held'
  BY <1>2, <1>3 DEF Held
<1>8. Room'
  BY <1>2, <1>5 DEF Room
<1>9. Numbered' /\ Due' = next'
  BY <1>1, <1>2, <1>3, <1>4, NumberedEmpty
<1>10. Due = next
  BY <1>1, Types, DueFacts DEF Due, AudioInv
<1>11. Locked'
  <2>1. lock = "pull" => pull.n \in 0..CanRead
    BY Types DEF AudioInv, Locked
  <2> QED BY <1>1, <1>2, <1>4, <1>5, <2>1, LockedKept
<1>12. Bounded'
  BY <1>2 DEF Bounded
<1> QED BY <1>1, <1>5, <1>6, <1>7, <1>8, <1>9, <1>10, <1>11, <1>12 DEF AudioInv

\* The second attempt, with the mutex: when some samples are left, the ring is full.
LEMMA PushFullKeeps ==
  ASSUME AudioInv, PushFull
  PROVE  LET n == Least(Len(push.rest), CanWrite) IN
         /\ AudioInv'
         /\ n \in Nat /\ n <= CanWrite
         /\ Contents(CanRead)' = Contents(CanRead) \o SubSeq(push.rest, 1, n)
         /\ Len(SubSeq(push.rest, 1, n)) = n
         /\ \A i \in 1..n : SubSeq(push.rest, 1, n)[i] = Label(Due + i - 1)
         /\ Due' = Label(Due + n)
<1> DEFINE n == Least(Len(push.rest), CanWrite)
           b == SubSeq(push.rest, 1, n)
           r == SubSeq(push.rest, n + 1, Len(push.rest))
<1>1. /\ push.pc = "full" /\ lock = "none" /\ ring' = Copied(b) /\ head' = At(head, n)
      /\ n = Len(push.rest) =>
           lock' = "none" /\ push' = [pc |-> "trim", amount |-> 0, block |-> <<>>, rest |-> <<>>]
      /\ n # Len(push.rest) =>
           lock' = "push" /\ push' = [pc |-> "drop", amount |-> 0, block |-> <<>>, rest |-> r]
      /\ UNCHANGED <<tail, pull, played, received, next, out>>
  BY DEF PushFull, PushTo
<1>2. /\ CanRead \in Nat /\ CanWrite \in Nat /\ CanWrite = Capacity - CanRead
      /\ Len(push.rest) \in Nat /\ push.rest \in Seq(Values) /\ next \in 1..Labels
      /\ push.block = <<>> /\ Len(push.block) + Len(push.rest) <= Rate
  BY <1>1, Types DEF AudioInv, Held
<1>3. n \in Nat /\ n <= Len(push.rest) /\ n <= CanWrite /\ (n # Len(push.rest) => n = CanWrite)
  BY <1>2 DEF Least
<1> HIDE DEF n
<1>4. Len(push.block) = 0 /\ Len(push.rest) <= Rate
  <2>1. Len(push.block) = 0
    BY <1>2
  <2> QED BY <1>2, <2>1
<1>5. b \in Seq(Values) /\ Len(b) = n /\ \A i \in 1..n : b[i] = push.rest[i]
  <2>1. 1 \in 1..Len(push.rest) + 1 /\ n \in 1 - 1..Len(push.rest) /\ n - 1 + 1 = n
    BY <1>2, <1>3
  <2>2. /\ b \in Seq(Values) /\ Len(b) = n - 1 + 1
        /\ \A i \in 1..n - 1 + 1 : b[i] = push.rest[1 + i - 1]
    BY <1>2, <2>1, Slice
  <2>3. \A i \in 1..n : 1 + i - 1 = i
    BY <1>3
  <2> QED BY <2>1, <2>2, <2>3
<1>6. /\ r \in Seq(Values) /\ Len(r) = Len(push.rest) - n
      /\ \A i \in 1..Len(push.rest) - n : r[i] = push.rest[n + i]
  <2>1. n + 1 \in 1..Len(push.rest) + 1 /\ Len(push.rest) \in (n + 1) - 1..Len(push.rest)
        /\ Len(push.rest) - (n + 1) + 1 = Len(push.rest) - n
    BY <1>2, <1>3
  <2>2. /\ r \in Seq(Values) /\ Len(r) = Len(push.rest) - (n + 1) + 1
        /\ \A i \in 1..Len(push.rest) - (n + 1) + 1 : r[i] = push.rest[(n + 1) + i - 1]
    BY <1>2, <2>1, Slice
  <2>3. \A i \in 1..Len(push.rest) - n : (n + 1) + i - 1 = n + i
    BY <1>2, <1>3
  <2> QED BY <2>1, <2>2, <2>3
<1> HIDE DEF b, r
<1>7. /\ ring' \in [Slots -> Values]
      /\ \A i \in 1..CanRead : ring'[At(tail, i - 1)] = ring[At(tail, i - 1)]
      /\ \A i \in 1..Len(b) : ring'[At(head, i - 1)] = b[i]
  BY <1>1, <1>3, <1>5, CopiedFacts DEF AudioInv
<1>8. /\ head' \in Slots /\ CanRead' = CanRead + n /\ CanWrite' = CanWrite - n
      /\ CanRead' \in Nat /\ CanWrite' \in Nat
      /\ Contents(CanRead)' = Contents(CanRead) \o b
  BY <1>1, <1>3, <1>5, <1>7, HeadStep
<1>9. /\ push'.pc \in {"trim", "drop"} /\ push'.amount = 0 /\ push'.block = <<>>
      /\ push'.rest = r /\ Len(push'.block) = 0
      /\ (push'.pc = "drop" <=> n # Len(push.rest)) /\ (lock' = "push" <=> push'.pc = "drop")
      /\ lock' # "pull"
  <2>1. CASE n = Len(push.rest)
    <3>1. r = <<>>
      <4>1. Len(r) = 0
        BY <1>2, <1>6, <2>1
      <4> QED BY <1>6, <4>1
    <3> QED BY <1>1, <2>1, <3>1
  <2>2. CASE n # Len(push.rest)
    BY <1>1, <2>2
  <2> QED BY <2>1, <2>2
<1>10. AudioTypeOK'
  <2>1. push' \in [pc : {"idle", "silence", "convert", "publish", "full", "drop", "last", "trim",
                         "excess", "end"},
                   amount : Nat, block : Seq(Values), rest : Seq(Values)]
    <3>1. push' = [pc |-> IF n = Len(push.rest) THEN "trim" ELSE "drop", amount |-> 0,
                   block |-> <<>>, rest |-> IF n = Len(push.rest) THEN <<>> ELSE r]
      BY <1>1
    <3>2. <<>> \in Seq(Values) /\ r \in Seq(Values)
      BY <1>6
    <3> QED BY <3>1, <3>2
  <2> QED BY <1>1, <1>7, <1>8, <2>1 DEF AudioInv, AudioTypeOK
<1>11. push'.pc = "drop" => r # <<>>
  <2>1. Len(<<>>) = 0
    OBVIOUS
  <2> QED BY <1>2, <1>3, <1>6, <1>9, <2>1
<1>12. Held'
  <2>1. Len(push'.block) + Len(push'.rest) <= Rate
    BY <1>2, <1>3, <1>4, <1>6, <1>9, Sizes
  <2>2. push'.pc = "trim" => push'.rest = <<>>
    <3>1. n = Len(push.rest) => Len(r) = 0
      BY <1>2, <1>6
    <3> QED BY <1>6, <1>9, <3>1
  <2> QED BY <1>9, <1>11, <2>1, <2>2 DEF Held
<1>13. Room'
  <2>1. push'.pc = "drop" => CanRead' = Capacity
    BY <1>2, <1>3, <1>8, <1>9, Sizes
  <2>2. Capacity' = Capacity
    BY DEF Capacity, Size
  <2> QED BY <1>8, <1>9, <2>1, <2>2 DEF Room
<1>14. Due \in 1..Labels /\ Due \in Int /\ n + Len(r) = Len(push.rest) /\ n + Len(r) <= Labels
  BY <1>2, <1>3, <1>4, <1>6, DueType, Sizes
<1>15. \A i \in 1..Len(push.rest) : push.rest[i] = Label(Due + i - 1)
  <2>1. ASSUME NEW i \in 1..Len(push.rest) PROVE push.rest[i] = Label(Due + i - 1)
    <3>1. push.rest[i] = Label(Due + Len(push.block) + i - 1)
      BY <1>1 DEF AudioInv, Numbered
    <3>2. Due + Len(push.block) + i - 1 = Due + i - 1
      BY <1>4, <1>14
    <3> QED BY <3>1, <3>2
  <2> QED BY <2>1
<1>16. ASSUME NEW i \in 1..Len(r) PROVE r[i] = Label(Due + n + i - 1)
  <2>1. i \in 1..Len(push.rest) - n /\ n + i \in 1..Len(push.rest)
        /\ Due + (n + i) - 1 = Due + n + i - 1
    BY <1>2, <1>3, <1>6, <1>14
  <2>2. push.rest[n + i] = Label(Due + (n + i) - 1)
    BY <1>15, <2>1
  <2> QED BY <1>6, <2>1, <2>2
<1>17. next = Label(Due + n + Len(r))
  <2>1. next = Label(Due + Len(push.block) + Len(push.rest))
    BY <1>1 DEF AudioInv, Numbered
  <2>2. Due + Len(push.block) + Len(push.rest) = Due + n + Len(r)
    <3> DEFINE d == Due   lb == Len(push.block)   lr == Len(push.rest)   k == Len(r)
    <3>1. d \in Int /\ lb = 0 /\ lr \in Nat /\ k = lr - n /\ n \in Nat
      BY <1>2, <1>3, <1>4, <1>6, <1>14
    <3> HIDE DEF d, lb, lr, k
    <3>2. d + lb + lr = d + n + k
      BY <3>1
    <3> QED BY <3>2 DEF d, lb, lr, k
  <2> QED BY <2>1, <2>2
<1>18. /\ \A i \in 1..Len(r) : r[i] = Label(Label(Due + n) + 0 + i - 1)
       /\ next = Label(Label(Due + n) + 0 + Len(r))
       /\ r # <<>> => r[1] = Label(Due + n)
       /\ r = <<>> => next = Label(Due + n)
  <2> DEFINE d == Due
  <2>1. /\ r \in Seq(Values) /\ d \in 1..Labels /\ n \in Nat /\ n + Len(r) <= Labels
        /\ \A i \in 1..Len(r) : r[i] = Label(d + n + i - 1)
        /\ next = Label(d + n + Len(r))
    BY <1>3, <1>6, <1>14, <1>16, <1>17
  <2> HIDE DEF d
  <2>2. /\ \A i \in 1..Len(r) : r[i] = Label(Label(d + n) + 0 + i - 1)
        /\ next = Label(Label(d + n) + 0 + Len(r))
        /\ r # <<>> => r[1] = Label(d + n)
        /\ r = <<>> => next = Label(d + n)
    BY <2>1, Renumber
  <2> QED BY <2>2 DEF d
<1>19. Due' = Label(Due + n)
  <2>1. /\ push'.block \in Seq(Values) /\ push'.rest \in Seq(Values) /\ push'.pc # "silence"
    BY <1>6, <1>9
  <2>2. DueOf(push', next') = IF r # <<>> THEN r[1] ELSE next'
    BY <1>9, <2>1, DueFacts
  <2> QED BY <1>1, <1>18, <2>2 DEF Due
<1>20. Numbered'
  <2>1. /\ \A i \in 1..Len(push'.rest) : push'.rest[i] = Label(Due' + Len(push'.block) + i - 1)
        /\ next' = Label(Due' + Len(push'.block) + Len(push'.rest))
    BY <1>1, <1>9, <1>18, <1>19
  <2> QED BY <1>9, <2>1 DEF Numbered
<1>21. Locked'
  BY <1>1, <1>9 DEF AudioInv, Locked
<1>22. Bounded'
  BY <1>9 DEF Bounded
<1>23. \A i \in 1..n : b[i] = Label(Due + i - 1)
  <2>1. 1..n \subseteq 1..Len(push.rest)
    BY <1>2, <1>3
  <2> QED BY <1>5, <1>15, <2>1
<1>24. AudioInv'
  BY <1>10, <1>12, <1>13, <1>20, <1>21, <1>22 DEF AudioInv
<1> QED BY <1>3, <1>5, <1>8, <1>19, <1>23, <1>24 DEF n, b

\* The producer drops old samples of the full ring: the rest then fits, and the
\* target is still there.
LEMMA PushDropKeeps ==
  ASSUME AudioInv, PushDrop
  PROVE  LET n == Least(Len(push.rest), CanRead) IN
         /\ AudioInv' /\ Due' = Due
         /\ n \in 0..CanRead /\ CanRead - n >= Target
         /\ Contents(CanRead)' = SubSeq(Contents(CanRead), n + 1, CanRead)
<1> DEFINE n == Least(Len(push.rest), CanRead)
<1>1. /\ push.pc = "drop" /\ tail' = At(tail, n) /\ lock' = "none"
      /\ push' = [pc |-> "last", amount |-> 0, block |-> <<>>, rest |-> push.rest]
      /\ UNCHANGED <<ring, head, pull, played, received, next, out>>
  BY DEF PushDrop, PushTo
<1>2. /\ CanRead \in Nat /\ CanRead = Capacity /\ Len(push.rest) \in Nat
      /\ push.rest \in Seq(Values) /\ push.rest # <<>> /\ next \in 1..Labels
      /\ push.block = <<>> /\ Len(push.block) + Len(push.rest) <= Rate
      /\ head \in Slots /\ tail \in Slots
  BY <1>1, Types DEF AudioInv, Held, Room
<1>3. Len(push.block) = 0 /\ Len(push.rest) <= Rate
  <2>1. Len(push.block) = 0
    BY <1>2
  <2> QED BY <1>2, <2>1
<1>4. n = Len(push.rest) /\ n \in 0..CanRead /\ CanRead - n >= Target /\ n \in Nat
  BY <1>2, <1>3, Sizes DEF Least
<1> HIDE DEF n
<1>5. /\ tail' \in Slots /\ Distance(head, tail') = CanRead - n
      /\ Window(ring, tail', CanRead - n) = SubSeq(Contents(CanRead), n + 1, CanRead)
  BY <1>1, <1>4, Discard DEF AudioInv
<1>6. /\ CanRead' = CanRead - n /\ CanWrite' = Capacity - CanRead' /\ CanWrite' \in Nat
      /\ Contents(CanRead)' = SubSeq(Contents(CanRead), n + 1, CanRead)
  <2>1. CanRead' = Distance(head', tail') /\ CanWrite' = Capacity - CanRead' /\ CanWrite' \in Nat
    BY <1>1, <1>2, <1>5, CursorsNext
  <2>2. Contents(CanRead)' = Window(ring', tail', CanRead')
    BY DEF Contents, Window
  <2> QED BY <1>1, <1>5, <2>1, <2>2
<1>7. CanWrite' = Len(push.rest)
  BY <1>2, <1>4, <1>6, Sizes
<1>8. /\ push'.pc = "last" /\ push'.block = <<>> /\ push'.rest = push.rest
      /\ Len(push'.block) = 0 /\ Len(push'.rest) = Len(push.rest)
  BY <1>1
<1>9. AudioTypeOK'
  <2>1. push' \in [pc : {"idle", "silence", "convert", "publish", "full", "drop", "last", "trim",
                         "excess", "end"},
                   amount : Nat, block : Seq(Values), rest : Seq(Values)]
    BY <1>1, <1>2
  <2> QED BY <1>1, <1>5, <2>1 DEF AudioInv, AudioTypeOK
<1>10. Held'
  BY <1>2, <1>3, <1>8, Sizes DEF Held
<1>11. Room'
  BY <1>2, <1>6, <1>7, <1>8 DEF Room
<1>12. Due' = Due
  <2>1. push.pc # "silence" /\ push'.pc # "silence" /\ push'.block = push.block
    BY <1>1, <1>2, <1>8
  <2> QED BY <1>1, <1>8, <2>1 DEF Due, DueOf
<1>13. Numbered'
  <2>1. /\ push.pc # "silence" /\ push'.block = push.block
    BY <1>1, <1>2, <1>8
  <2> QED BY <1>1, <1>8, <1>12, <2>1 DEF AudioInv, Numbered
<1>14. Locked'
  BY <1>1, <1>8 DEF AudioInv, Locked
<1>15. Bounded'
  BY <1>8 DEF Bounded
<1>16. AudioInv'
  BY <1>9, <1>10, <1>11, <1>13, <1>14, <1>15 DEF AudioInv
<1> QED BY <1>4, <1>6, <1>12, <1>16 DEF n

\* The producer drops what exceeds a threshold, never less than the target.
LEMMA PushExcessKeeps ==
  ASSUME AudioInv, PushExcess
  PROVE  LET n == IF CanRead > push.amount THEN CanRead - push.amount ELSE 0 IN
         /\ AudioInv' /\ Due' = Due
         /\ n \in 0..CanRead /\ (n > 0 => CanRead - n >= Target)
         /\ Contents(CanRead)' = SubSeq(Contents(CanRead), n + 1, CanRead)
<1> DEFINE n == IF CanRead > push.amount THEN CanRead - push.amount ELSE 0
<1>1. /\ push.pc = "excess" /\ lock = "none"
      /\ tail' = IF CanRead > push.amount THEN At(tail, CanRead - push.amount) ELSE tail
      /\ push' = [pc |-> "end", amount |-> 0, block |-> <<>>, rest |-> <<>>]
      /\ UNCHANGED <<ring, head, lock, pull, played, received, next, out>>
  BY DEF PushExcess, PushTo
<1>2. /\ CanRead \in Nat /\ next \in 1..Labels /\ push.block = <<>> /\ push.rest = <<>>
      /\ head \in Slots /\ tail \in Slots /\ push.amount \in Thresholds
  BY <1>1, Types DEF AudioInv, Held
<1>3. push.amount \in Nat /\ push.amount >= Target
  BY <1>2, SizesAssumption DEF Thresholds
<1>4. /\ n \in 0..CanRead /\ n \in Nat /\ (n > 0 => CanRead - n >= Target)
      /\ CanRead - n <= push.amount
  BY <1>2, <1>3, Sizes
<1>5. tail' = At(tail, n)
  <2>1. CASE CanRead > push.amount
    BY <1>1, <2>1
  <2>2. CASE ~(CanRead > push.amount)
    <3>1. 0 \in 0..Capacity /\ At(tail, 0) = IF tail + 0 < Size THEN tail + 0 ELSE tail + 0 - Size
      BY <1>2, Advance, Sizes
    <3>2. At(tail, 0) = tail
      BY <1>2, <3>1, Sizes DEF Slots
    <3> QED BY <1>1, <2>2, <3>2
  <2> QED BY <2>1, <2>2
<1> HIDE DEF n
<1>6. /\ tail' \in Slots /\ Distance(head, tail') = CanRead - n
      /\ Window(ring, tail', CanRead - n) = SubSeq(Contents(CanRead), n + 1, CanRead)
  BY <1>4, <1>5, Discard DEF AudioInv
<1>7. /\ CanRead' = CanRead - n /\ CanWrite' \in Nat
      /\ Contents(CanRead)' = SubSeq(Contents(CanRead), n + 1, CanRead)
  <2>1. CanRead' = Distance(head', tail') /\ CanWrite' \in Nat
    BY <1>1, <1>2, <1>6, CursorsNext
  <2>2. Contents(CanRead)' = Window(ring', tail', CanRead')
    BY DEF Contents, Window
  <2> QED BY <1>1, <1>6, <2>1, <2>2
<1>8. /\ push'.pc = "end" /\ push'.block = <<>> /\ push'.rest = <<>> /\ Len(push'.block) = 0
  BY <1>1
<1>9. AudioTypeOK'
  <2>1. push' \in [pc : {"idle", "silence", "convert", "publish", "full", "drop", "last", "trim",
                         "excess", "end"},
                   amount : Nat, block : Seq(Values), rest : Seq(Values)]
    BY <1>1
  <2> QED BY <1>1, <1>6, <2>1 DEF AudioInv, AudioTypeOK
<1>10. Held'
  BY <1>8 DEF Held
<1>11. Room'
  BY <1>7, <1>8 DEF Room
<1>12. Numbered' /\ Due' = next'
  BY <1>1, <1>2, <1>8, NumberedEmpty
<1>13. Due = next
  BY <1>2, Types, DueFacts DEF Due, AudioInv
<1>14. Locked'
  BY <1>1, <1>8 DEF AudioInv, Locked
<1>15. Bounded'
  BY <1>2, <1>4, <1>7 DEF Bounded, Thresholds
<1>16. AudioInv'
  BY <1>9, <1>10, <1>11, <1>12, <1>14, <1>15 DEF AudioInv
<1> QED BY <1>1, <1>4, <1>7, <1>12, <1>13, <1>16 DEF n

-----------------------------------------------------------------------------
(* The steps, and the invariant.                                           *)

LEMMA InitInv ==
  ASSUME AudioInit
  PROVE  AudioInv /\ Contents(CanRead) = <<>> /\ Due = 1
<1>1. /\ ring = [slot \in Slots |-> Silence] /\ head = 0 /\ tail = 0 /\ lock = "none"
      /\ push = [pc |-> "idle", amount |-> 0, block |-> <<>>, rest |-> <<>>]
      /\ pull = [pc |-> "idle", n |-> 0, block |-> <<>>]
      /\ played = FALSE /\ received = FALSE /\ next = 1 /\ out = <<>>
  BY DEF AudioInit
<1>2. ring \in [Slots -> Values] /\ 0 \in Slots /\ 1 \in 1..Labels /\ Labels \in Nat
  BY <1>1, Sizes, LabelsAssumption, SizesAssumption DEF Silence, Values, Slots
<1>3. AudioTypeOK
  <2>1. <<>> \in Seq(Values)
    OBVIOUS
  <2> QED BY <1>1, <1>2, <2>1 DEF AudioTypeOK
<1>4. CanRead = 0
  <2>1. Distance(0, 0) = 0
    BY <1>2, Geometry
  <2> QED BY <1>1, <2>1 DEF CanRead, Distance
<1>5. /\ push.pc = "idle" /\ push.block = <<>> /\ push.rest = <<>> /\ Len(push.block) = 0
      /\ pull.pc = "idle"
  BY <1>1
<1>6. CanWrite \in Nat
  BY <1>3, Types
<1>7. Due = 1
  <2>1. push.block \in Seq(Values) /\ push.rest \in Seq(Values)
    BY <1>5
  <2>2. DueOf(push, next) = next
    BY <1>5, <2>1, DueFacts
  <2> QED BY <1>1, <2>2 DEF Due
<1>8. Held
  BY <1>5 DEF Held
<1>9. Room
  BY <1>5, <1>6 DEF Room
<1>10. Numbered
  <2>1. next = Label(Due + 0 + 0) /\ Len(push.rest) = 0
    BY <1>1, <1>2, <1>5, <1>7, LabelSame
  <2> QED BY <1>5, <2>1 DEF Numbered
<1>11. Locked
  BY <1>1, <1>5 DEF Locked
<1>12. Bounded
  <2>1. PICK t \in Thresholds : t = Target + InitialMargin
    BY DEF Thresholds
  <2>2. CanRead <= t
    BY <1>4, <2>1, SizesAssumption
  <2> QED BY <2>2 DEF Bounded
<1>13. AudioInv
  BY <1>3, <1>8, <1>9, <1>10, <1>11, <1>12 DEF AudioInv
<1>14. Contents(CanRead) = <<>>
  <2>1. 0 \in 0..CanRead
    BY <1>4
  <2>2. Contents(0) \in Seq(Values) /\ Len(Contents(0)) = 0
    BY <1>3, <2>1, ContentsFacts
  <2> QED BY <1>4, <2>2
<1> QED BY <1>7, <1>13, <1>14

LEMMA StutterInv ==
  ASSUME AudioInv, UNCHANGED audioVars
  PROVE  AudioInv' /\ Contents(CanRead)' = Contents(CanRead) /\ Due' = Due
<1>1. UNCHANGED <<ring, head, tail, lock, push, pull, played, received, next, out>>
  BY DEF audioVars, shared
<1>2. Held' /\ Room' /\ Numbered' /\ Bounded'
  BY <1>1, ProducerSame
<1>3. AudioTypeOK'
  BY <1>1 DEF AudioInv, AudioTypeOK
<1>4. CanRead' = CanRead /\ Due' = Due
  BY <1>1 DEF CanRead, Due
<1>5. \A n : Contents(n)' = Contents(n)
  BY <1>1 DEF Contents
<1>6. Contents(CanRead)' = Contents(CanRead)
  BY <1>1, <1>4 DEF Contents
<1>7. Locked'
  <2>1. Contents(pull.n)' = Contents(pull.n)
    BY <1>1 DEF Contents
  <2> QED BY <1>1, <1>4, <2>1 DEF AudioInv, Locked
<1> QED BY <1>2, <1>3, <1>4, <1>6, <1>7 DEF AudioInv

LEMMA StepInv ==
  ASSUME AudioInv, [AudioNext]_audioVars
  PROVE  AudioInv'
<1>1. CASE PushStart
  <2>1. PICK input \in Inputs : push.pc = "idle" /\ (Push(input) \/ PushGap(input))
    BY <1>1 DEF PushStart
  <2>2. CASE Push(input)
    BY <2>1, <2>2, PushStartKeeps
  <2>3. CASE PushGap(input)
    BY <2>1, <2>3, PushGapKeeps
  <2> QED BY <2>1, <2>2, <2>3
<1>2. CASE PushSilence
  BY <1>2, PushSilenceKeeps
<1>3. CASE PushConvert
  BY <1>3, PushConvertKeeps
<1>4. CASE PushPublish
  BY <1>4, PushPublishKeeps
<1>5. CASE PushFull
  BY <1>5, PushFullKeeps
<1>6. CASE PushDrop
  BY <1>6, PushDropKeeps
<1>7. CASE PushLast
  BY <1>7, PushLastKeeps
<1>8. CASE PushTrim
  BY <1>8, PushTrimKeeps
<1>9. CASE PushExcess
  BY <1>9, PushExcessKeeps
<1>10. CASE PushEnd
  BY <1>10, PushEndKeeps
<1>11. CASE Pull
  BY <1>11, PullKeeps
<1>12. CASE PullCopy
  BY <1>12, PullCopyKeeps
<1>13. CASE PullPublish
  BY <1>13, PullPublishKeeps
<1>14. CASE PullEnd
  BY <1>14, PullEndKeeps
<1>15. CASE UNCHANGED audioVars
  BY <1>15, StutterInv
<1> QED
  BY <1>1, <1>2, <1>3, <1>4, <1>5, <1>6, <1>7, <1>8, <1>9, <1>10, <1>11, <1>12, <1>13, <1>14,
     <1>15 DEF AudioNext, Producer, Consumer

\* Whatever the sizes, and however the two threads interleave, what the producer
\* copies goes to free room, the samples keep their numbers and what the consumer
\* copies stays in place until it has moved its cursor (audiobuf.c,
\* audio_regulator.c).
THEOREM AudioInvariance == AudioSpec => []AudioInv
<1>1. AudioInit => AudioInv
  BY InitInv
<1>2. AudioInv /\ [AudioNext]_audioVars => AudioInv'
  BY StepInv
<1> QED BY <1>1, <1>2, PTL DEF AudioSpec

\* The cursors stay in the ring and the samples in their range.
THEOREM AudioTypeCorrect == AudioSpec => []AudioTypeOK
<1>1. AudioInv => AudioTypeOK
  BY DEF AudioInv
<1> QED BY <1>1, AudioInvariance, PTL

\* After each frame what is buffered is below a threshold, so the latency does not
\* grow with the device's rate; and what the producer still has to write after it
\* dropped old samples fits, though it has released the mutex
\* (audio_regulator.c:235).
THEOREM LatencyIsBounded == AudioSpec => []LatencyBounded
<1>1. AudioInv => LatencyBounded
  <2> SUFFICES ASSUME AudioInv PROVE LatencyBounded
    OBVIOUS
  <2>1. push.pc \in {"end", "idle"} =>
          CanRead <= ((Target * 11) \div 10) + PlayedMargin \/ CanRead <= Target + InitialMargin
    BY DEF AudioInv, Bounded, Thresholds
  <2>2. push.pc = "last" => CanWrite >= Len(push.rest)
    BY Types DEF AudioInv, Room
  <2> QED BY <2>1, <2>2 DEF LatencyBounded
<1> QED BY <1>1, AudioInvariance, PTL

-----------------------------------------------------------------------------
(* The ring implements the queue of samples.                               *)

LEMMA QueueFacts ==
  ASSUME AudioInv
  PROVE  Contents(CanRead) \in Seq(Values) /\ Len(Contents(CanRead)) = CanRead /\ CanRead \in Nat
<1>1. CanRead \in 0..CanRead /\ CanRead \in Nat
  BY Types DEF AudioInv
<1> QED BY <1>1, ContentsFacts DEF AudioInv

LEMMA NoStep ==
  ASSUME Contents(CanRead)' = Contents(CanRead), Due' = Due, out' = out
  PROVE  [Fifo!Next]_Fifo!vars
BY DEF Fifo!vars, Due, DueOf

\* Samples published in their order are samples accepted.
LEMMA AcceptStep ==
  ASSUME AudioInv, NEW b \in Seq(Values), Len(b) <= CanWrite,
         \A i \in 1..Len(b) : b[i] = Label(Due + i - 1),
         Contents(CanRead)' = Contents(CanRead) \o b, Due' = Label(Due + Len(b)), out' = out
  PROVE  [Fifo!Next]_Fifo!vars
<1>1. /\ Contents(CanRead) \in Seq(Values) /\ Len(Contents(CanRead)) = CanRead
      /\ CanRead \in Nat /\ CanWrite = Capacity - CanRead /\ Capacity \in Nat
      /\ Len(b) \in Nat /\ Due \in 1..Labels
  BY QueueFacts, Types, Sizes, DueType DEF AudioInv
<1>2. CASE b = <<>>
  <2>1. Len(b) = 0 /\ Contents(CanRead) \o b = Contents(CanRead) /\ Due + 0 = Due
    <3> DEFINE q == Contents(CanRead)   d == Due
    <3>1. q \in Seq(Values) /\ d \in 1..Labels
      BY <1>1
    <3> HIDE DEF q, d
    <3>2. Len(b) = 0 /\ q \o b = q /\ d + 0 = d
      BY <1>2, <3>1, Sizes
    <3> QED BY <3>2 DEF q, d
  <2>2. Due' = Due
    BY <1>1, <2>1, LabelSame
  <2> QED BY <2>1, <2>2, NoStep
<1>3. CASE b # <<>>
  <2> DEFINE n == Len(b)
  <2>1. n \in 1..Capacity /\ CanRead + n <= Capacity
    BY <1>1, <1>3
  <2>2. Fifo!Samples(Due, n) = b
    <3>1. Fifo!Samples(Due, n) = [i \in 1..n |-> Label(Due + i - 1)]
      BY DEF Fifo!Samples, Fifo!Label, Label
    <3>2. b \in [1..n -> Values] /\ DOMAIN b = 1..n
      OBVIOUS
    <3>3. b = [i \in 1..n |-> b[i]]
      BY <3>2
    <3> QED BY <3>1, <3>3
  <2>3. Fifo!Accept(n)
    <3>1. Len(Contents(CanRead)) + n <= Capacity
      BY <1>1, <2>1
    <3>2. Due' = Fifo!Label(Due + n)
      BY DEF Fifo!Label, Label
    <3>3. Contents(CanRead)' = Contents(CanRead) \o Fifo!Samples(Due, n)
      BY <2>2
    <3> HIDE DEF n
    <3> QED BY <3>1, <3>2, <3>3 DEF Fifo!Accept, Due, DueOf
  <2>4. Fifo!Next
    BY <2>1, <2>3 DEF Fifo!Next
  <2> QED BY <2>4
<1> QED BY <1>2, <1>3

\* Moving the reader's cursor drops samples, never below the target.
LEMMA DropStep ==
  ASSUME AudioInv, NEW n \in 0..CanRead, n > 0 => CanRead - n >= Target,
         Contents(CanRead)' = SubSeq(Contents(CanRead), n + 1, CanRead), Due' = Due, out' = out
  PROVE  [Fifo!Next]_Fifo!vars
<1>1. /\ Contents(CanRead) \in Seq(Values) /\ Len(Contents(CanRead)) = CanRead
      /\ CanRead \in Nat /\ CanRead <= Capacity /\ Capacity \in Nat /\ n \in Nat
  BY QueueFacts, Types, Sizes DEF AudioInv
<1>2. CASE n = 0
  <2> DEFINE q == Contents(CanRead)
  <2>1. q \in Seq(Values) /\ Len(q) = CanRead
    BY <1>1
  <2> HIDE DEF q
  <2>2. SubSeq(q, 1, Len(q)) = q
    BY <2>1
  <2>3. Contents(CanRead)' = Contents(CanRead)
    <3>1. Contents(CanRead)' = SubSeq(q, n + 1, CanRead)
      BY DEF q
    <3>2. n + 1 = 1 /\ CanRead = Len(q)
      BY <1>2, <2>1
    <3> QED BY <2>2, <3>1, <3>2 DEF q
  <2> QED BY <2>3, NoStep
<1>3. CASE n # 0
  <2>1. n \in 1..Capacity /\ Len(Contents(CanRead)) - n >= Target
    BY <1>1, <1>3
  <2>2. Fifo!Drop(n)
    BY <1>1, <2>1 DEF Fifo!Drop, Fifo!Without, Due, DueOf
  <2> QED BY <2>1, <2>2 DEF Fifo!Next
<1> QED BY <1>2, <1>3

LEMMA SilenceStep ==
  ASSUME AudioInv, PushSilence
  PROVE  [Fifo!Next]_Fifo!vars
<1> DEFINE b == push.block
<1>1. /\ Due' = Due /\ Contents(CanRead)' = Contents(CanRead) \o b
      /\ out' = out /\ push.pc = "silence"
  BY PushSilenceKeeps DEF PushSilence
<1>2. /\ b \in Seq(Values) /\ Len(b) \in Nat /\ Len(b) + CanRead <= Target
      /\ \A i \in 1..Len(b) : b[i] = Silence
      /\ Contents(CanRead) \in Seq(Values) /\ Len(Contents(CanRead)) = CanRead /\ CanRead \in Nat
      /\ Target <= Capacity /\ Capacity \in Nat /\ Target \in Nat
  BY <1>1, QueueFacts, Types, Sizes DEF AudioInv, Room
<1> HIDE DEF b
<1>3. CASE b = <<>>
  <2> DEFINE q == Contents(CanRead)
  <2>1. q \in Seq(Values)
    BY <1>2
  <2> HIDE DEF q
  <2>2. q \o b = q
    BY <1>3, <2>1
  <2> QED BY <1>1, <2>2, NoStep DEF q
<1>4. CASE b # <<>>
  <2> DEFINE n == Len(b)
  <2>1. n \in 1..Capacity /\ Len(Contents(CanRead)) + n <= Target
    BY <1>2, <1>4
  <2>2. b = [i \in 1..n |-> Fifo!Silence]
    <3>1. DOMAIN b = 1..n /\ b = [i \in 1..n |-> b[i]]
      BY <1>2
    <3> QED BY <1>2, <3>1 DEF Silence, Fifo!Silence
  <2>3. Fifo!InsertSilence(n)
    <3> HIDE DEF n
    <3> QED BY <1>1, <2>1, <2>2 DEF Fifo!InsertSilence, Due, DueOf
  <2> QED BY <2>1, <2>3 DEF Fifo!Next
<1> QED BY <1>3, <1>4

LEMMA PlayStep ==
  ASSUME AudioInv, PullPublish
  PROVE  [Fifo!Next]_Fifo!vars
<1>1. /\ pull.pc = "publish" /\ tail' = At(tail, pull.n) /\ out' = pull.block
      /\ UNCHANGED <<ring, head, push, next>>
  BY DEF PullPublish
<1>2. lock = "pull" /\ pull.n \in 0..CanRead /\ pull.block = Contents(pull.n)
  BY <1>1, Types DEF AudioInv, Locked
<1>3. /\ Contents(CanRead) \in Seq(Values) /\ Len(Contents(CanRead)) = CanRead /\ CanRead \in Nat
  BY QueueFacts
<1>4. out' = SubSeq(Contents(CanRead), 1, pull.n)
  BY <1>1, <1>2, ContentsFacts DEF AudioInv
<1>5. /\ tail' \in Slots /\ Distance(head, tail') = CanRead - pull.n
      /\ Window(ring, tail', CanRead - pull.n) = SubSeq(Contents(CanRead), pull.n + 1, CanRead)
  BY <1>1, <1>2, Discard DEF AudioInv
<1>6. Contents(CanRead)' = SubSeq(Contents(CanRead), pull.n + 1, Len(Contents(CanRead)))
  <2>1. CanRead' = Distance(head', tail')
    BY <1>1, <1>5, Types, CursorsNext DEF AudioInv
  <2>2. Contents(CanRead)' = Window(ring', tail', CanRead')
    BY DEF Contents, Window
  <2> QED BY <1>1, <1>3, <1>5, <2>1, <2>2
<1>7. Due' = Due
  BY <1>1 DEF Due
<1>8. Fifo!Play(pull.n)
  BY <1>4, <1>6, <1>7 DEF Fifo!Play, Fifo!Without, Due, DueOf
<1>9. pull.n \in 0..Len(Contents(CanRead))
  BY <1>2, <1>3
<1> QED BY <1>8, <1>9 DEF Fifo!Next

LEMMA FifoStep ==
  ASSUME AudioInv, [AudioNext]_audioVars
  PROVE  [Fifo!Next]_Fifo!vars
<1> DEFINE Still == UNCHANGED <<ring, head, tail>> => Contents(CanRead)' = Contents(CanRead)
<1>1. Still
  BY DEF Contents, CanRead
<1> HIDE DEF Still
<1>2. CASE PushStart
  <2>1. PICK input \in Inputs : push.pc = "idle" /\ (Push(input) \/ PushGap(input))
    BY <1>2 DEF PushStart
  <2>2. CASE Push(input)
    <3>1. UNCHANGED <<ring, head, tail, out>>
      BY <2>2 DEF Push, shared
    <3>2. Due' = Due
      BY <2>1, <2>2, PushStartKeeps
    <3> QED BY <1>1, <3>1, <3>2, NoStep DEF Still
  <2>3. CASE PushGap(input)
    <3>1. out' = out
      BY <2>3 DEF PushGap
    <3>2. Due' = Due /\ Contents(CanRead)' = Contents(CanRead)
      BY <2>1, <2>3, PushGapKeeps
    <3> QED BY <3>1, <3>2, NoStep
  <2> QED BY <2>1, <2>2, <2>3
<1>3. CASE PushSilence
  BY <1>3, SilenceStep
<1>4. CASE PushConvert
  <2>1. out' = out
    BY <1>4 DEF PushConvert
  <2> QED BY <1>4, <2>1, PushConvertKeeps, NoStep
<1>5. CASE PushPublish
  <2>1. out' = out /\ push.pc = "publish"
    BY <1>5 DEF PushPublish
  <2>2. push.block \in Seq(Values) /\ Len(push.block) <= CanWrite
        /\ \A i \in 1..Len(push.block) : push.block[i] = Label(Due + i - 1)
    BY <2>1, Types DEF AudioInv, Room, Numbered
  <2> QED BY <1>5, <2>1, <2>2, PushPublishKeeps, AcceptStep
<1>6. CASE PushFull
  <2> DEFINE n == Least(Len(push.rest), CanWrite)
             b == SubSeq(push.rest, 1, n)
  <2>1. out' = out
    BY <1>6 DEF PushFull
  <2>2. /\ n \in Nat /\ n <= CanWrite /\ Contents(CanRead)' = Contents(CanRead) \o b
        /\ Len(b) = n /\ \A i \in 1..n : b[i] = Label(Due + i - 1)
        /\ Due' = Label(Due + n)
    BY <1>6, PushFullKeeps
  <2>3. b \in Seq(Values)
    <3>1. push.rest \in Seq(Values) /\ n \in 0..Len(push.rest) /\ Len(push.rest) \in Nat
      <4>1. push.rest \in Seq(Values) /\ Len(push.rest) \in Nat /\ CanWrite \in Nat
        BY Types DEF AudioInv
      <4> QED BY <4>1 DEF Least
    <3> HIDE DEF n
    <3> QED BY <3>1
  <2> HIDE DEF n, b
  <2> QED BY <2>1, <2>2, <2>3, AcceptStep
<1>7. CASE PushDrop
  <2> DEFINE n == Least(Len(push.rest), CanRead)
  <2>1. out' = out
    BY <1>7 DEF PushDrop
  <2>2. /\ Due' = Due /\ n \in 0..CanRead /\ CanRead - n >= Target
        /\ Contents(CanRead)' = SubSeq(Contents(CanRead), n + 1, CanRead)
    BY <1>7, PushDropKeeps
  <2> HIDE DEF n
  <2> QED BY <2>1, <2>2, DropStep
<1>8. CASE PushLast
  <2>1. out' = out
    BY <1>8 DEF PushLast
  <2> QED BY <1>8, <2>1, PushLastKeeps, NoStep
<1>9. CASE PushTrim
  <2>1. UNCHANGED <<ring, head, tail, out>>
    BY <1>9 DEF PushTrim, shared
  <2> QED BY <1>1, <1>9, <2>1, PushTrimKeeps, NoStep DEF Still
<1>10. CASE PushExcess
  <2> DEFINE n == IF CanRead > push.amount THEN CanRead - push.amount ELSE 0
  <2>1. out' = out
    BY <1>10 DEF PushExcess
  <2>2. /\ Due' = Due /\ n \in 0..CanRead /\ (n > 0 => CanRead - n >= Target)
        /\ Contents(CanRead)' = SubSeq(Contents(CanRead), n + 1, CanRead)
    BY <1>10, PushExcessKeeps
  <2> HIDE DEF n
  <2> QED BY <2>1, <2>2, DropStep
<1>11. CASE PushEnd
  <2>1. UNCHANGED <<ring, head, tail, out>>
    BY <1>11 DEF PushEnd, shared
  <2> QED BY <1>1, <1>11, <2>1, PushEndKeeps, NoStep DEF Still
<1>12. CASE Pull
  <2>1. UNCHANGED <<ring, head, tail, out>> /\ Due' = Due
    BY <1>12 DEF Pull, Due
  <2> QED BY <1>1, <2>1, NoStep DEF Still
<1>13. CASE PullCopy
  <2>1. UNCHANGED <<ring, head, tail, out>> /\ Due' = Due
    BY <1>13 DEF PullCopy, shared, Due
  <2> QED BY <1>1, <2>1, NoStep DEF Still
<1>14. CASE PullPublish
  BY <1>14, PlayStep
<1>15. CASE PullEnd
  <2>1. UNCHANGED <<ring, head, tail>> /\ Due' = Due /\ out' = <<>>
    BY <1>15 DEF PullEnd, shared, Due
  <2>2. Fifo!EndPlay
    BY <1>1, <2>1 DEF Still, Fifo!EndPlay, Due, DueOf
  <2> QED BY <2>2 DEF Fifo!Next
<1>16. CASE UNCHANGED audioVars
  <2>1. out' = out
    BY <1>16 DEF audioVars
  <2> QED BY <1>16, <2>1, StutterInv, NoStep
<1> QED
  BY <1>2, <1>3, <1>4, <1>5, <1>6, <1>7, <1>8, <1>9, <1>10, <1>11, <1>12, <1>13, <1>14, <1>15,
     <1>16 DEF AudioNext, Producer, Consumer

\* The ring, with its two cursors and hardly a lock, behaves as a queue: what SDL
\* plays is what was decoded, in its order and at most once, with silence only
\* where the regulator inserted some, and dropping old samples leaves the target
\* (audiobuf.c, audio_regulator.c).
THEOREM RingIsAQueue == AudioSpec => PlaysInOrder
<1>1. AudioInit => Fifo!Init
  <2> SUFFICES ASSUME AudioInit PROVE Fifo!Init
    OBVIOUS
  <2>1. Contents(CanRead) = <<>> /\ Due = 1 /\ out = <<>>
    BY InitInv DEF AudioInit
  <2> QED BY <2>1 DEF Fifo!Init, Due, DueOf
<1>2. AudioInv /\ [AudioNext]_audioVars => [Fifo!Next]_Fifo!vars
  BY FifoStep
<1> QED BY <1>1, <1>2, AudioInvariance, PTL DEF AudioSpec, PlaysInOrder, Fifo!Spec

-----------------------------------------------------------------------------
(* What each variable holds.                                               *)

\* The names of the sinks and of the delay buffers.
Names == Shown \cup {Buffer[s] : s \in Shown} \cup {"player", "recorder"}

DemuxStates ==
  [pc : {"start", "open", "recv", "push", "record", "close", "join", "end", "ended"},
   at : Nat, frame : Nat, config : BOOLEAN, owed : BOOLEAN,
   status : {"error", "disabled", "eos"}]
JobStates ==
  [pc : {"idle", "mailbox", "notify", "done", "failed", "player"},
   sink : {"none"} \cup Shown, frame : Nat]
Mailboxes == [frame : Nat, consumed : BOOLEAN]
DelayStates ==
  [pc : {"off", "idle", "wait", "timed", "deliver", "done"}, stopped : BOOLEAN,
   first : BOOLEAN, queue : Seq(Nat), held : Nat]
Events == {"initSize", "newFrame", "ended"}
UiStates ==
  [pc : {"loop", "interrupt", "join", "destroyed"}, paused : BOOLEAN, shown : Nat, resume : Nat]
V4l2States ==
  [pc : {"off", "idle", "wait", "consume", "encode", "done"}, stopped : BOOLEAN,
   hasFrame : BOOLEAN, header : Nat, frame : Nat, shown : Nat]
FpsStates ==
  [pc : {"none", "check", "checked", "wait", "timed", "done"},
   started : BOOLEAN, interrupted : BOOLEAN]
Budgets == [frames : Nat, configs : Nat, faults : Nat, inputs : Nat]

PipelineTypeOK ==
  /\ graph \in Graphs
  /\ demux \in DemuxStates
  /\ job \in [Threads -> JobStates]
  /\ opened \subseteq Names
  /\ mailbox \in [Shown -> Mailboxes]
  /\ delay \in [Shown -> DelayStates]
  /\ events \in Seq(Events)
  /\ ui \in UiStates
  /\ v4l2 \in V4l2States
  /\ fps \in FpsStates
  /\ budget \in Budgets

-----------------------------------------------------------------------------
(* The invariant.                                                          *)

\* The names in a sequence of sinks; each once, a buffer after what it delays.
Elements(q) == {q[i] : i \in 1..Len(q)}
Ordered(q) ==
  /\ \A i, j \in 1..Len(q) : q[i] = q[j] => i = j
  /\ \A s \in Shown, i \in 1..Len(q) :
       q[i] = Buffer[s] => i - 1 \in 1..Len(q) /\ q[i - 1] = s

\* How many sinks of Opening are open, at each place of the demuxer.
OpenCount ==
  IF demux.pc = "open" THEN demux.at - 1
  ELSE IF demux.pc \in {"recv", "push", "record"} THEN Len(Opening)
  ELSE IF demux.pc \in {"close", "join"} THEN demux.at
  ELSE 0

\* The first k sinks of Opening.
Sinks(k) == {Opening[i] : i \in 1..k}

\* The sinks open are the first ones of Opening, as many as the demuxer's place
\* says; and it stands at a sink that the graph has.
Progress ==
  /\ demux.pc \in {"start", "open"} => demux.at \in 1..Len(Opening)
  /\ demux.pc = "push" => demux.at \in 1..Len(FrameSinks)
  /\ demux.pc = "close" => demux.at \in 0..Len(Opening)
  /\ demux.pc = "join" => demux.at \in 1..Len(Opening)
  /\ demux.pc = "start" => demux.at = 1
  /\ opened = Sinks(OpenCount)
  /\ ui.pc = "destroyed" => demux.pc = "ended"

\* A thread that is given a frame is one that may deliver: the demuxer while it
\* pushes, to a sink of frames, or a delay buffer to the sink behind it.
Jobs ==
  /\ \A t \in Threads : job[t].pc \in {"mailbox", "notify"} => job[t].sink \in Shown
  /\ \A t \in Threads : job[t].pc = "idle" => job[t] = Idle
  /\ job["demuxer"] # Idle => demux.pc = "push"
  /\ job["demuxer"].sink # "none" => job["demuxer"].sink \in Elements(FrameSinks)
  /\ \A s \in Shown : job[s] # Idle => job[s].sink = s /\ delay[s].pc = "deliver"

\* No thread of a sink outlives it.
Alive ==
  /\ \A s \in Shown : delay[s].pc \notin {"off", "done"} => Buffer[s] \in opened
  /\ v4l2.pc \notin {"off", "done"} => "v4l2" \in opened

\* The events that tell of a frame, and whether the consumer of a sink is told.
NewFramesIn(q) == {i \in DOMAIN q : q[i] = "newFrame"}
NewFrames == NewFramesIn(events)
Told(s) == IF s = "screen" THEN NewFrames # {} ELSE v4l2.hasFrame \/ v4l2.pc = "consume"

\* The threads that put a frame in the mailbox of `s` and are to tell of it.
Notifying(s) == {t \in Threads : job[t].pc = "notify" /\ job[t].sink = s}

\* One token at most stands for the frame of a mailbox: the consumer is told of
\* it, or one thread is about to tell it; and with a token, the frame is there.
Announced(s) ==
  /\ Told(s) \/ Notifying(s) # {} => ~mailbox[s].consumed
  /\ Told(s) => Notifying(s) = {}
  /\ \A t, u \in Notifying(s) : t = u

\* So in every mailbox; and the token of a consumer is in one place.
Tokens ==
  /\ \A s \in Shown : Announced(s)
  /\ \A i, j \in NewFrames : i = j
  /\ ~(v4l2.hasFrame /\ v4l2.pc = "consume")

\* The numbers in a queue rise, between two bounds.
Rising(q, low, high) ==
  \A i \in 1..Len(q) : low <= q[i] /\ q[i] <= high /\ \A j \in i..Len(q) : q[i] <= q[j]

\* The frame that left the delay buffer last, delivered or being held.
Leaving(s) == IF delay[s].pc \in {"timed", "deliver"} THEN delay[s].held ELSE mailbox[s].frame

\* The frames on their way to a sink rise from the one in its mailbox, through
\* the one that leaves its delay buffer and those queued, to the last decoded.
Flowing(s) ==
  /\ mailbox[s].frame <= Leaving(s) /\ Leaving(s) <= demux.frame
  /\ Rising(delay[s].queue, Leaving(s), demux.frame)
  /\ graph[s] # "delayed" => delay[s].first
  /\ delay[s].first \/ job["demuxer"].sink = s
       => delay[s].queue = <<>> /\ delay[s].pc \notin {"timed", "deliver"}
  /\ job[s] # Idle => job[s].frame = delay[s].held

Flow ==
  /\ \A s \in Shown : Flowing(s)
  /\ job["demuxer"].sink # "none" => job["demuxer"].frame = demux.frame

\* The frames past a mailbox are no newer than the one in it: kept aside by a
\* pause or shown, on the screen and by the V4L2 thread.
InOrder ==
  /\ ui.shown <= mailbox["screen"].frame /\ ui.resume <= mailbox["screen"].frame
  /\ ui.resume # NoFrame => ui.shown <= ui.resume
  /\ ~ui.paused => ui.resume = NoFrame
  /\ v4l2.shown <= v4l2.frame /\ v4l2.frame <= mailbox["v4l2"].frame

PipelineInv == PipelineTypeOK /\ Progress /\ Jobs /\ Alive /\ Tokens /\ Flow /\ InOrder

-----------------------------------------------------------------------------
LEMMA GraphFacts ==
  ASSUME graph \in Graphs
  PROVE  /\ graph.stream \in {"video", "audio"} /\ graph.recorder \in BOOLEAN
         /\ graph["screen"] \in {"none", "direct", "delayed"}
         /\ graph["v4l2"] \in {"none", "direct", "delayed"}
         /\ graph.stream = "video" => graph["screen"] # "none" \/ graph["v4l2"] # "none"
         /\ graph.limits \in [frames : Nat, configs : Nat, faults : Nat, inputs : Nat]
BY GraphsAssumption

LEMMA Named ==
  /\ Names = {"screen", "v4l2", "screenBuffer", "v4l2Buffer", "player", "recorder"}
  /\ Buffer["screen"] = "screenBuffer" /\ Buffer["v4l2"] = "v4l2Buffer"
BY DEF Names, Buffer, Shown

LEMMA Joined ==
  ASSUME NEW p \in Seq(Names), NEW q \in Seq(Names)
  PROVE  p \o q \in Seq(Names) /\ Elements(p \o q) = Elements(p) \cup Elements(q)
<1>1. p \o q \in Seq(Names) /\ Len(p \o q) = Len(p) + Len(q)
  OBVIOUS
<1>2. \A i \in 1..Len(p) : i \in 1..Len(p \o q) /\ (p \o q)[i] = p[i]
  OBVIOUS
<1>3. \A i \in 1..Len(q) : Len(p) + i \in 1..Len(p \o q) /\ (p \o q)[Len(p) + i] = q[i]
  OBVIOUS
<1>4. \A i \in 1..Len(p \o q) : i \in 1..Len(p) \/ i - Len(p) \in 1..Len(q)
  OBVIOUS
<1>5. \A i \in 1..Len(p \o q) : i - Len(p) \in 1..Len(q) => (p \o q)[i] = q[i - Len(p)]
  OBVIOUS
<1>6. Elements(p \o q) \subseteq Elements(p) \cup Elements(q)
  <2> SUFFICES ASSUME NEW i \in 1..Len(p \o q)
               PROVE  (p \o q)[i] \in Elements(p) \cup Elements(q)
    BY DEF Elements
  <2>1. CASE i \in 1..Len(p)
    BY <1>2, <2>1 DEF Elements
  <2>2. CASE i - Len(p) \in 1..Len(q)
    BY <1>5, <2>2 DEF Elements
  <2> QED BY <1>4, <2>1, <2>2
<1>7. Elements(p) \subseteq Elements(p \o q)
  BY <1>2 DEF Elements
<1>8. Elements(q) \subseteq Elements(p \o q)
  BY <1>3 DEF Elements
<1> QED BY <1>1, <1>6, <1>7, <1>8

LEMMA Chained ==
  ASSUME NEW p \in Seq(Names), NEW q \in Seq(Names), Ordered(p), Ordered(q),
         Elements(p) \cap Elements(q) = {}
  PROVE  Ordered(p \o q)
<1> DEFINE r == p \o q
           m == Len(p)
           n == Len(q)
<1>1. /\ m \in Nat /\ n \in Nat /\ Len(r) = m + n
      /\ \A i \in 1..m : r[i] = p[i]
      /\ \A i \in m + 1..m + n : i - m \in 1..n /\ r[i] = q[i - m]
  OBVIOUS
<1>2. \A i \in 1..m, j \in 1..n : p[i] # q[j]
  BY DEF Elements
<1>3. /\ \A i, j \in 1..m : p[i] = p[j] => i = j
      /\ \A i, j \in 1..n : q[i] = q[j] => i = j
      /\ \A s \in Shown, i \in 1..m : p[i] = Buffer[s] => i - 1 \in 1..m /\ p[i - 1] = s
      /\ \A s \in Shown, i \in 1..n : q[i] = Buffer[s] => i - 1 \in 1..n /\ q[i - 1] = s
  BY DEF Ordered
<1> HIDE DEF r, m, n
<1>4. ASSUME NEW i \in 1..Len(r), NEW j \in 1..Len(r), r[i] = r[j]
      PROVE  i = j
  <2>1. CASE i \in 1..m /\ j \in 1..m
    BY <1>1, <1>3, <1>4, <2>1
  <2>2. CASE i \in m + 1..m + n /\ j \in m + 1..m + n
    BY <1>1, <1>3, <1>4, <2>2
  <2>3. CASE i \in 1..m /\ j \in m + 1..m + n
    BY <1>1, <1>2, <1>4, <2>3
  <2>4. CASE i \in m + 1..m + n /\ j \in 1..m
    BY <1>1, <1>2, <1>4, <2>4
  <2> QED BY <1>1, <2>1, <2>2, <2>3, <2>4
<1>5. ASSUME NEW s \in Shown, NEW i \in 1..Len(r), r[i] = Buffer[s]
      PROVE  i - 1 \in 1..Len(r) /\ r[i - 1] = s
  <2>1. CASE i \in 1..m
    BY <1>1, <1>3, <1>5, <2>1
  <2>2. CASE i \in m + 1..m + n
    <3>1. i - m \in 1..n /\ q[i - m] = Buffer[s]
      BY <1>1, <1>5, <2>2
    <3>2. (i - m) - 1 \in 1..n /\ q[(i - m) - 1] = s
      BY <1>3, <3>1
    <3>3. i - 1 \in m + 1..m + n /\ (i - 1) - m = (i - m) - 1
      BY <1>1, <2>2, <3>2
    <3> QED BY <1>1, <3>2, <3>3
  <2> QED BY <1>1, <2>1, <2>2
<1> QED BY <1>4, <1>5 DEF Ordered, r

LEMMA BranchFacts ==
  ASSUME graph \in Graphs, NEW s \in Shown
  PROVE  /\ Branch(s) \in Seq(Names) /\ Ordered(Branch(s))
         /\ Elements(Branch(s)) \subseteq {s, Buffer[s]}
         /\ Decoded(s) \in Seq(Names) /\ Elements(Decoded(s)) \subseteq Elements(Branch(s))
         /\ \A x \in Elements(Decoded(s)) : x = s /\ graph[s] # "none"
         /\ graph[s] # "none" => s \in Elements(Decoded(s))
<1>1. graph[s] \in {"none", "direct", "delayed"} /\ s \in Names /\ Buffer[s] \in Names
      /\ s \in {"screen", "v4l2"} /\ Buffer[s] \in {"screenBuffer", "v4l2Buffer"}
  BY GraphFacts, Named DEF Shown
<1>2. CASE graph[s] = "none"
  BY <1>1, <1>2 DEF Branch, Decoded, Ordered, Elements
<1>3. CASE graph[s] = "direct"
  <2>1. Branch(s) = <<s>> /\ Decoded(s) = <<s>>
    BY <1>3 DEF Branch, Decoded
  <2> QED BY <1>1, <1>3, <2>1, Named DEF Ordered, Elements, Shown
<1>4. CASE graph[s] = "delayed"
  <2>1. Branch(s) = <<s, Buffer[s]>> /\ Decoded(s) = <<s>>
    BY <1>4 DEF Branch, Decoded
  <2>2. Ordered(<<s, Buffer[s]>>)
    BY <1>1, Named DEF Ordered, Shown
  <2>3. Elements(<<s, Buffer[s]>>) = {s, Buffer[s]} /\ Elements(<<s>>) = {s}
    BY DEF Elements
  <2> QED BY <1>1, <1>4, <2>1, <2>2, <2>3
<1> QED BY <1>1, <1>2, <1>3, <1>4

LEMMA OpeningFacts ==
  ASSUME graph \in Graphs
  PROVE  /\ Opening \in Seq(Names) /\ Len(Opening) \in Nat \ {0} /\ Ordered(Opening)
         /\ FrameSinks \in Seq(Names) /\ Len(FrameSinks) \in Nat \ {0}
         /\ Elements(FrameSinks) \subseteq Elements(Opening)
         /\ graph.stream = "video" =>
              \A s \in Elements(FrameSinks) : s \in Shown /\ graph[s] # "none"
<1> DEFINE first == IF graph.stream = "audio" THEN <<"player">>
                    ELSE Branch("screen") \o Branch("v4l2")
           last == IF graph.recorder THEN <<"recorder">> ELSE <<>>
<1>1. last \in Seq(Names) /\ Ordered(last) /\ Elements(last) \subseteq {"recorder"}
  <2>1. last = <<>> \/ last = <<"recorder">>
    OBVIOUS
  <2> HIDE DEF last
  <2>2. Ordered(<<"recorder">>) /\ Elements(<<"recorder">>) = {"recorder"}
    BY Named DEF Ordered, Elements, Shown
  <2>3. Ordered(<<>>) /\ Elements(<<>>) = {}
    BY DEF Ordered, Elements
  <2>4. <<>> \in Seq(Names) /\ <<"recorder">> \in Seq(Names)
    BY Named
  <2> QED BY <2>1, <2>2, <2>3, <2>4
<1>2. /\ first \in Seq(Names) /\ Ordered(first) /\ "recorder" \notin Elements(first)
      /\ FrameSinks \in Seq(Names) /\ Elements(FrameSinks) \subseteq Elements(first)
      /\ Elements(FrameSinks) # {}
      /\ graph.stream = "video" =>
           \A s \in Elements(FrameSinks) : s \in Shown /\ graph[s] # "none"
  <2>1. CASE graph.stream = "audio"
    <3>1. first = <<"player">> /\ FrameSinks = <<"player">>
      BY <2>1 DEF FrameSinks
    <3>2. Elements(<<"player">>) = {"player"} /\ Ordered(<<"player">>)
      BY Named DEF Elements, Ordered, Shown
    <3> QED BY <2>1, <3>1, <3>2, Named
  <2>2. CASE graph.stream = "video"
    <3>1. first = Branch("screen") \o Branch("v4l2")
          /\ FrameSinks = Decoded("screen") \o Decoded("v4l2")
      BY <2>2 DEF FrameSinks
    <3> HIDE DEF first
    <3>2. "screen" \in Shown /\ "v4l2" \in Shown
      BY DEF Shown
    <3>3. /\ Elements(Branch("screen")) \cap Elements(Branch("v4l2")) = {}
          /\ "recorder" \notin Elements(Branch("screen")) \cup Elements(Branch("v4l2"))
      <4>1. Elements(Branch("screen")) \subseteq {"screen", "screenBuffer"}
            /\ Elements(Branch("v4l2")) \subseteq {"v4l2", "v4l2Buffer"}
        BY <3>2, BranchFacts, Named
      <4> QED BY <4>1
    <3>4. first \in Seq(Names) /\ FrameSinks \in Seq(Names)
          /\ Elements(first) = Elements(Branch("screen")) \cup Elements(Branch("v4l2"))
          /\ Elements(FrameSinks) = Elements(Decoded("screen")) \cup Elements(Decoded("v4l2"))
      BY <3>1, <3>2, BranchFacts, Joined
    <3>5. Ordered(first)
      BY <3>1, <3>2, <3>3, BranchFacts, Chained
    <3>6. graph["screen"] # "none" \/ graph["v4l2"] # "none"
      BY <2>2, GraphFacts
    <3> QED BY <2>2, <3>2, <3>3, <3>4, <3>5, <3>6, BranchFacts
  <2> QED BY <2>1, <2>2, GraphFacts
<1>3. Opening = first \o last
  BY DEF Opening
<1> HIDE DEF first, last
<1>4. Opening \in Seq(Names) /\ Ordered(Opening)
      /\ Elements(Opening) = Elements(first) \cup Elements(last)
  BY <1>1, <1>2, <1>3, Joined, Chained
<1>5. Len(FrameSinks) \in Nat \ {0} /\ Len(Opening) \in Nat \ {0}
  <2>1. \A q \in Seq(Names) : Elements(q) # {} => Len(q) \in Nat \ {0}
    BY DEF Elements
  <2> QED BY <1>2, <1>4, <2>1
<1> QED BY <1>2, <1>4, <1>5

-----------------------------------------------------------------------------
(* Types.                                                                  *)

LEMMA Threads3 == Threads = {"demuxer", "screen", "v4l2"} /\ Shown = {"screen", "v4l2"}
BY DEF Threads, Shown

LEMMA BudgetTypes == budget \in Budgets /\ (Fault \/ Fine \/ Input) => budget' \in Budgets
BY DEF Budgets, Fault, Fine, Input

\* What the helpers make of a state of the right type.
LEMMA DemuxTypes ==
  ASSUME demux \in DemuxStates
  PROVE  /\ \A pc \in {"start", "open", "recv", "push", "record", "close", "join", "end", "ended"} :
              [demux EXCEPT !.pc = pc] \in DemuxStates
         /\ \A pc \in {"close"}, at \in Nat : [demux EXCEPT !.pc = pc, !.at = at] \in DemuxStates
         /\ \A at \in Nat : [demux EXCEPT !.at = at] \in DemuxStates
BY DEF DemuxStates

LEMMA JobTypes ==
  /\ Idle \in JobStates
  /\ \A pc \in {"done", "player"} : [Idle EXCEPT !.pc = pc] \in JobStates
  /\ \A s \in Shown, f \in Nat : Deliver(s, f) \in JobStates
  /\ \A x \in JobStates, pc \in {"notify", "done", "failed"} :
       [x EXCEPT !.pc = pc] \in JobStates
BY DEF JobStates, Idle, NoFrame, Deliver

LEMMA DelayTypes ==
  ASSUME NEW d \in DelayStates
  PROVE  /\ \A pc \in {"off", "idle", "wait", "timed", "deliver", "done"} :
              [d EXCEPT !.pc = pc] \in DelayStates
         /\ [d EXCEPT !.pc = "done", !.queue = <<>>] \in DelayStates
         /\ [d EXCEPT !.pc = "done", !.stopped = TRUE, !.queue = <<>>] \in DelayStates
         /\ [d EXCEPT !.stopped = TRUE, !.pc = Awake(d.pc)] \in DelayStates
         /\ \A f \in Nat : [d EXCEPT !.first = FALSE, !.queue = Append(d.queue, f),
                                     !.pc = Awake(d.pc)] \in DelayStates
         /\ [d EXCEPT !.first = FALSE] \in DelayStates
         /\ d.queue # <<>> =>
              [d EXCEPT !.pc = "timed", !.queue = Tail(d.queue), !.held = Head(d.queue)]
                \in DelayStates
<1>1. /\ d.pc \in {"off", "idle", "wait", "timed", "deliver", "done"} /\ d.queue \in Seq(Nat)
      /\ Awake(d.pc) \in {"off", "idle", "wait", "timed", "deliver", "done"}
      /\ <<>> \in Seq(Nat) /\ \A f \in Nat : Append(d.queue, f) \in Seq(Nat)
      /\ d.queue # <<>> => Tail(d.queue) \in Seq(Nat) /\ Head(d.queue) \in Nat
  BY DEF DelayStates, Awake
<1>2. \A pc \in {"off", "idle", "wait", "timed", "deliver", "done"}, q \in Seq(Nat) :
        /\ [d EXCEPT !.pc = pc] \in DelayStates
        /\ [d EXCEPT !.pc = pc, !.queue = q] \in DelayStates
        /\ [d EXCEPT !.pc = pc, !.stopped = TRUE, !.queue = q] \in DelayStates
        /\ [d EXCEPT !.stopped = TRUE, !.pc = pc] \in DelayStates
        /\ [d EXCEPT !.first = FALSE, !.queue = q, !.pc = pc] \in DelayStates
        /\ \A h \in Nat : [d EXCEPT !.pc = pc, !.queue = q, !.held = h] \in DelayStates
  BY DEF DelayStates
<1>3. [d EXCEPT !.first = FALSE] \in DelayStates
  BY DEF DelayStates
<1> QED BY <1>1, <1>2, <1>3

LEMMA StepTypes ==
  ASSUME job \in [Threads -> JobStates], NEW t \in Threads,
         NEW pc \in {"notify", "done", "failed"}, Step(t, pc)
  PROVE  job' \in [Threads -> JobStates]
BY JobTypes DEF Step

LEMMA FpsTypes ==
  ASSUME fps \in FpsStates
  PROVE  FpsStarted \in FpsStates /\ FpsStopped \in FpsStates
         /\ [fps EXCEPT !.interrupted = TRUE, !.pc = FpsAwake(fps.pc)] \in FpsStates
BY DEF FpsStates, FpsStarted, FpsStopped, FpsAwake

LEMMA DemuxFields ==
  demux \in DemuxStates =>
    /\ demux.pc \in {"start", "open", "recv", "push", "record", "close", "join", "end", "ended"}
    /\ demux.at \in Nat /\ demux.frame \in Nat
    /\ demux.config \in BOOLEAN /\ demux.owed \in BOOLEAN
    /\ demux.status \in {"error", "disabled", "eos"}
BY DEF DemuxStates

LEMMA PushingTypes ==
  ASSUME PipelineTypeOK, Jobs, NEW t \in Threads, PushFrame(t) \/ Notify(t) \/ PushFails(t)
  PROVE  PipelineTypeOK'
<1>1. job[t].frame \in Nat
  BY DEF PipelineTypeOK, JobStates
<1>2. budget' \in Budgets
  BY BudgetTypes DEF PushFrame, Notify, PushFails, PipelineTypeOK
<1>3. job' \in [Threads -> JobStates]
  BY StepTypes DEF PushFrame, Notify, PushFails, PipelineTypeOK
<1>4. CASE PushFrame(t)
  <2>1. job[t].sink \in Shown
    BY <1>4 DEF PushFrame, Jobs
  <2>2. [frame |-> job[t].frame, consumed |-> FALSE] \in Mailboxes
    BY <1>1 DEF Mailboxes
  <2>3. mailbox' \in [Shown -> Mailboxes]
    BY <1>4, <2>1, <2>2 DEF PushFrame, PipelineTypeOK
  <2> QED BY <1>2, <1>3, <1>4, <2>3 DEF PushFrame, PipelineTypeOK
<1>5. CASE Notify(t)
  <2>1. events' \in Seq(Events)
    BY <1>5 DEF Notify, PipelineTypeOK, Events
  <2>2. v4l2' \in V4l2States
    BY <1>5 DEF Notify, Awake, PipelineTypeOK, V4l2States
  <2> QED BY <1>2, <1>3, <1>5, <2>1, <2>2 DEF Notify, PipelineTypeOK
<1>6. CASE PushFails(t)
  BY <1>2, <1>3, <1>6 DEF PushFails, PipelineTypeOK
<1> QED BY <1>4, <1>5, <1>6

LEMMA DemuxerTypes ==
  ASSUME PipelineTypeOK, Progress, Jobs, Demuxer
  PROVE  PipelineTypeOK'
<1>1. CASE Start
  <2>1. demux' \in DemuxStates
    BY <1>1 DEF Start, PipelineTypeOK, DemuxStates
  <2> QED BY <1>1, <2>1 DEF Start, PipelineTypeOK
<1>2. CASE OpenSink
  <2>1. Opening[demux.at] \in Names /\ demux.at \in Nat
    BY <1>2, OpeningFacts DEF OpenSink, PipelineTypeOK, Progress
  <2>2. delay' \in [Shown -> DelayStates]
    <3>1. \A d \in Shown : delay[d] \in DelayStates
          /\ [delay[d] EXCEPT !.pc = "idle"] \in DelayStates
      BY DelayTypes DEF PipelineTypeOK
    <3> QED BY <1>2, <3>1 DEF OpenSink, Opened
  <2>3. demux' \in DemuxStates
    <3>1. demux.at + 1 \in Nat
      BY <2>1
    <3> QED BY <1>2, <3>1, DemuxTypes DEF OpenSink, Opened, PipelineTypeOK
  <2>4. v4l2' \in V4l2States
    BY <1>2 DEF OpenSink, Opened, PipelineTypeOK, V4l2States
  <2>5. events' \in Seq(Events)
    BY <1>2 DEF OpenSink, Opened, PipelineTypeOK, Events
  <2>6. opened' \subseteq Names
    BY <1>2, <2>1 DEF OpenSink, Opened, PipelineTypeOK
  <2> QED BY <1>2, <2>2, <2>3, <2>4, <2>5, <2>6 DEF OpenSink, Fine, PipelineTypeOK
<1>3. CASE OpenFails
  <2>1. demux.at - 1 \in Nat
    BY <1>3, OpeningFacts DEF OpenFails, PipelineTypeOK, Progress
  <2>2. demux' \in DemuxStates
    BY <1>3, <2>1, DemuxTypes DEF OpenFails, PipelineTypeOK
  <2> QED BY <1>3, <2>2, BudgetTypes DEF OpenFails, PipelineTypeOK
<1>4. CASE PushToSink
  <2> DEFINE s == FrameSinks[demux.at]
  <2>1. /\ graph.stream \in {"audio", "video"}
        /\ graph.stream = "video" => s \in Shown /\ graph[s] \in {"direct", "delayed"}
    <3>1. demux.at \in 1..Len(FrameSinks)
      BY <1>4 DEF PushToSink, Progress
    <3>2. s \in Elements(FrameSinks)
      BY <3>1 DEF Elements
    <3> QED BY <3>2, GraphFacts, OpeningFacts, Threads3 DEF PipelineTypeOK
  <2>2. demux.frame \in Nat /\ "demuxer" \in Threads
    BY DemuxFields, Threads3 DEF PipelineTypeOK
  <2> HIDE DEF s
  <2>3. job' \in [Threads -> JobStates] /\ delay' \in [Shown -> DelayStates] /\ budget' \in Budgets
    <3>1. CASE graph.stream = "audio"
      BY <1>4, <2>2, <3>1, JobTypes DEF PushToSink, Fine, PipelineTypeOK
    <3>2. CASE graph.stream = "video" /\ graph[s] = "direct"
      BY <1>4, <2>1, <2>2, <3>2, JobTypes DEF PushToSink, Fine, PipelineTypeOK, s
    <3>3. CASE graph.stream = "video" /\ graph[s] = "delayed"
      <4>1. PushDelayed(s) \/ RefusedByDelay(s)
        BY <1>4, <3>3 DEF PushToSink, s
      <4>2. CASE PushDelayed(s)
        <5>1. delay[s] \in DelayStates
          BY <2>1, <3>3 DEF PipelineTypeOK
        <5>2. [delay[s] EXCEPT !.first = FALSE,
                 !.queue = IF delay[s].first THEN delay[s].queue
                           ELSE Append(delay[s].queue, demux.frame),
                 !.pc = IF delay[s].first THEN delay[s].pc ELSE Awake(delay[s].pc)]
              \in DelayStates
          <6>1. CASE delay[s].first
            <7>1. /\ [delay[s] EXCEPT !.first = FALSE] \in DelayStates
                  /\ [delay[s] EXCEPT !.first = FALSE, !.queue = delay[s].queue,
                                      !.pc = delay[s].pc]
                     = [delay[s] EXCEPT !.first = FALSE]
              BY <5>1 DEF DelayStates
            <7> QED BY <6>1, <7>1
          <6>2. CASE ~delay[s].first
            BY <2>2, <5>1, <6>2, DelayTypes
          <6> QED BY <6>1, <6>2
        <5>3. delay' \in [Shown -> DelayStates]
          BY <4>2, <5>2 DEF PushDelayed, PipelineTypeOK
        <5>4. job' \in [Threads -> JobStates]
          BY <2>1, <2>2, <3>3, <4>2, JobTypes DEF PushDelayed, PipelineTypeOK
        <5> QED BY <4>2, <5>3, <5>4 DEF PushDelayed, Fine, PipelineTypeOK
      <4>3. CASE RefusedByDelay(s)
        BY <2>2, <4>3, StepTypes, BudgetTypes DEF RefusedByDelay, PipelineTypeOK
      <4> QED BY <4>1, <4>2, <4>3
    <3> QED BY <2>1, <3>1, <3>2, <3>3
  <2> QED BY <1>4, <2>3 DEF PushToSink, PipelineTypeOK
<1>5. CASE Pushed
  <2>1. demux' \in DemuxStates
    BY <1>5 DEF Pushed, Recording, PipelineTypeOK, DemuxStates
  <2> QED BY <1>5, <2>1, JobTypes, Threads3 DEF Pushed, Fine, PipelineTypeOK
<1>6. CASE PushFrame("demuxer") \/ Notify("demuxer") \/ PushFails("demuxer")
  BY <1>6, PushingTypes, Threads3
<1>7. CASE Record
  BY <1>7, DemuxTypes DEF Record, Fine, PipelineTypeOK
<1>8. CASE Refused
  <2>1. Len(Opening) \in Nat
    BY OpeningFacts DEF PipelineTypeOK
  <2>2. demux' \in DemuxStates
    BY <1>8, <2>1 DEF Refused, Ending, PipelineTypeOK, DemuxStates
  <2> QED BY <1>8, <2>2, BudgetTypes, JobTypes, Threads3 DEF Refused, PipelineTypeOK
<1>9. CASE StopSink
  <2>1. delay' \in [Shown -> DelayStates]
    <3>1. \A d \in Shown : delay[d] \in DelayStates
            /\ [delay[d] EXCEPT !.stopped = TRUE, !.pc = Awake(delay[d].pc)] \in DelayStates
      BY DelayTypes DEF PipelineTypeOK
    <3> QED BY <1>9, <3>1 DEF StopSink, Stopping
  <2>2. v4l2' \in V4l2States
    BY <1>9 DEF StopSink, Awake, PipelineTypeOK, V4l2States
  <2> QED BY <1>9, <2>1, <2>2, DemuxTypes DEF StopSink, Fine, PipelineTypeOK
<1>10. CASE CloseSink
  <2>1. demux.at - 1 \in Nat
    BY <1>10, OpeningFacts DEF CloseSink, PipelineTypeOK, Progress
  <2> QED BY <1>10, <2>1, DemuxTypes DEF CloseSink, Fine, PipelineTypeOK
<1>11. CASE Ended
  <2>1. events' \in Seq(Events)
    BY <1>11 DEF Ended, PipelineTypeOK, Events
  <2> QED BY <1>11, <2>1, DemuxTypes DEF Ended, Fine, PipelineTypeOK
<1> QED BY <1>1, <1>2, <1>3, <1>4, <1>5, <1>6, <1>7, <1>8, <1>9, <1>10, <1>11 DEF Demuxer

LEMMA OtherTypes ==
  ASSUME PipelineTypeOK, Device \/ Main \/ User \/ V4l2 \/ Fps
  PROVE  PipelineTypeOK'
<1>1. Len(Opening) \in Nat
  BY OpeningFacts DEF PipelineTypeOK
<1>2. CASE Device
  <2>1. demux' \in DemuxStates
    <3>1. CASE Config
      BY <3>1 DEF Config, PipelineTypeOK, DemuxStates
    <3>2. CASE Media
      <4>1. Recording \in {"record", "recv"} /\ (~(demux.config \/ ~demux.owed)) \in BOOLEAN
        BY DEF Recording
      <4>2. \A pc \in {"push", "record", "recv"}, at, f \in Nat, o \in BOOLEAN :
              [demux EXCEPT !.pc = pc, !.at = at, !.frame = f, !.config = FALSE, !.owed = o]
                \in DemuxStates
        BY DEF PipelineTypeOK, DemuxStates
      <4>3. demux.frame \in Nat /\ demux.frame + 1 \in Nat
        BY DemuxFields DEF PipelineTypeOK
      <4> QED BY <3>2, <4>1, <4>2, <4>3 DEF Media
    <3>3. CASE DecoderFails \/ EndOfStream
      BY <1>1, <3>3 DEF DecoderFails, EndOfStream, Ending, PipelineTypeOK, DemuxStates
    <3> QED BY <1>2, <3>1, <3>2, <3>3 DEF Device
  <2>2. budget' \in Budgets
    <3>1. CASE Config
      BY <3>1 DEF Config, PipelineTypeOK, Budgets
    <3>2. CASE Media
      BY <3>2 DEF Media, Fine, PipelineTypeOK, Budgets
    <3>3. CASE DecoderFails \/ EndOfStream
      BY <3>3, BudgetTypes DEF DecoderFails, EndOfStream, PipelineTypeOK
    <3> QED BY <1>2, <3>1, <3>2, <3>3 DEF Device
  <2>3. UNCHANGED <<graph, job, opened, mailbox, delay, events, ui, v4l2, fps>>
    BY <1>2 DEF Device, Config, Media, DecoderFails, EndOfStream
  <2> QED BY <2>1, <2>2, <2>3 DEF PipelineTypeOK
<1>3. CASE Main \/ User
  <2>1. mailbox' \in [Shown -> Mailboxes] /\ mailbox["screen"].frame \in Nat
    <3>1. mailbox["screen"].frame \in Nat
          /\ [mailbox["screen"] EXCEPT !.consumed = TRUE] \in Mailboxes
      BY Threads3 DEF PipelineTypeOK, Mailboxes
    <3> QED BY <1>3, <3>1
          DEF Main, User, NewFrame, InitSize, Interrupt, Destroy, SetPaused, SwitchFps, Quit,
              PipelineTypeOK
  <2>2. ui' \in UiStates
    <3>1. CASE NewFrame
      BY <2>1, <3>1 DEF NewFrame, PipelineTypeOK, UiStates
    <3>2. CASE SetPaused
      <4>1. \A p \in BOOLEAN, f \in Nat :
              [ui EXCEPT !.paused = p, !.resume = NoFrame, !.shown = f] \in UiStates
        BY DEF PipelineTypeOK, UiStates, NoFrame
      <4>2. ui.shown \in Nat /\ ui.resume \in Nat
        BY DEF PipelineTypeOK, UiStates
      <4> QED BY <3>2, <4>1, <4>2 DEF SetPaused
    <3>3. CASE Quit \/ Interrupt \/ Destroy
      BY <3>3 DEF Quit, Interrupt, Destroy, PipelineTypeOK, UiStates
    <3>4. CASE InitSize \/ SwitchFps
      BY <3>4 DEF InitSize, SwitchFps, PipelineTypeOK
    <3> QED BY <1>3, <3>1, <3>2, <3>3, <3>4 DEF Main, User
  <2>3. fps' \in FpsStates
    BY <1>3, FpsTypes
      DEF Main, User, NewFrame, InitSize, Interrupt, Destroy, SetPaused, SwitchFps, Quit, Apply,
          PipelineTypeOK
  <2>4. events' \in Seq(Events)
    <3>1. events # <<>> => Tail(events) \in Seq(Events)
      BY DEF PipelineTypeOK
    <3>2. events' = events \/ (events # <<>> /\ events' = Tail(events))
      <4>1. CASE NewFrame \/ InitSize
        BY <4>1 DEF NewFrame, InitSize, Handled
      <4>2. CASE Interrupt \/ Destroy \/ SetPaused \/ SwitchFps \/ Quit
        BY <4>2 DEF Interrupt, Destroy, SetPaused, SwitchFps, Quit
      <4> QED BY <1>3, <4>1, <4>2 DEF Main, User
    <3> QED BY <3>1, <3>2 DEF PipelineTypeOK
  <2>5. budget' \in Budgets
    <3>1. CASE Quit
      BY <3>1 DEF Quit, Fine, Fault, PipelineTypeOK, Budgets
    <3> QED BY <1>3, <3>1, BudgetTypes
          DEF Main, User, NewFrame, InitSize, Interrupt, Destroy, SetPaused, SwitchFps, Handled,
              PipelineTypeOK
  <2>6. UNCHANGED <<graph, demux, job, opened, delay, v4l2>>
    BY <1>3 DEF Main, User, NewFrame, InitSize, Interrupt, Destroy, SetPaused, SwitchFps, Quit
  <2> QED BY <2>1, <2>2, <2>3, <2>4, <2>5, <2>6 DEF PipelineTypeOK
<1>4. CASE V4l2
  <2>1. mailbox' \in [Shown -> Mailboxes] /\ mailbox["v4l2"].frame \in Nat
    <3>1. mailbox["v4l2"].frame \in Nat
          /\ [mailbox["v4l2"] EXCEPT !.consumed = TRUE] \in Mailboxes
      BY Threads3 DEF PipelineTypeOK, Mailboxes
    <3> QED BY <1>4, <3>1 DEF V4l2, V4l2Wait, V4l2Consume, V4l2Encode, PipelineTypeOK
  <2>2. v4l2' \in V4l2States
    BY <1>4, <2>1 DEF V4l2, V4l2Wait, V4l2Consume, V4l2Encode, PipelineTypeOK, V4l2States
  <2>3. budget' \in Budgets
    BY <1>4, BudgetTypes DEF V4l2, V4l2Wait, V4l2Consume, V4l2Encode, PipelineTypeOK
  <2> QED BY <1>4, <2>1, <2>2, <2>3
        DEF V4l2, V4l2Wait, V4l2Consume, V4l2Encode, PipelineTypeOK
<1>5. CASE Fps
  <2>1. fps' \in FpsStates
    BY <1>5 DEF Fps, FpsCheck, FpsWait, FpsTick, PipelineTypeOK, FpsStates
  <2> QED BY <1>5, <2>1 DEF Fps, FpsCheck, FpsWait, FpsTick, Fine, PipelineTypeOK
<1> QED BY <1>2, <1>3, <1>4, <1>5

LEMMA BufferTypes ==
  ASSUME PipelineTypeOK, Jobs, NEW s \in Shown, DelayBuffer(s)
  PROVE  PipelineTypeOK'
<1>1. delay[s] \in DelayStates /\ delay[s].held \in Nat /\ s \in Threads
  BY DEF PipelineTypeOK, Threads, DelayStates
<1>2. CASE Buffering(s)
  <2>1. \E d \in DelayStates : delay' = [delay EXCEPT ![s] = d]
    <3>1. CASE delay[s].stopped
      BY <1>1, <1>2, <3>1, DelayTypes DEF Buffering
    <3>2. CASE ~delay[s].stopped /\ delay[s].queue = <<>>
      BY <1>1, <1>2, <3>2, DelayTypes DEF Buffering
    <3>3. CASE ~delay[s].stopped /\ delay[s].queue # <<>>
      BY <1>1, <1>2, <3>3, DelayTypes DEF Buffering
    <3> QED BY <3>1, <3>2, <3>3
  <2> QED BY <1>2, <2>1 DEF Buffering, Fine, PipelineTypeOK
<1>3. CASE Deadline(s)
  <2>1. delay' \in [Shown -> DelayStates]
    BY <1>1, <1>3, DelayTypes DEF Deadline, PipelineTypeOK
  <2>2. job' \in [Threads -> JobStates]
    BY <1>1, <1>3, JobTypes DEF Deadline, PipelineTypeOK
  <2> QED BY <1>3, <2>1, <2>2 DEF Deadline, Fine, PipelineTypeOK
<1>4. CASE Delivered(s)
  <2>1. delay' \in [Shown -> DelayStates]
    BY <1>1, <1>4, DelayTypes DEF Delivered, PipelineTypeOK
  <2> QED BY <1>1, <1>4, <2>1, JobTypes DEF Delivered, Fine, PipelineTypeOK
<1>5. CASE PushFrame(s) \/ Notify(s) \/ PushFails(s)
  BY <1>1, <1>5, PushingTypes
<1> QED BY <1>2, <1>3, <1>4, <1>5 DEF DelayBuffer

-----------------------------------------------------------------------------
(* The steps, and what most of them leave alone.                           *)

\* Steps of the demuxer's thread that touch nothing else, and steps of others
\* that touch nothing the frames depend on.
Moves == Start \/ OpenFails \/ Config \/ Media \/ DecoderFails \/ EndOfStream \/ Record
Aside == SwitchFps \/ Fps \/ Audio

Pushing(t)   == PushFrame(t) \/ Notify(t) \/ PushFails(t)
Delaying(s)  == Buffering(s) \/ Deadline(s) \/ Delivered(s)

LEMMA Steps ==
  ASSUME Next
  PROVE  \/ Moves \/ OpenSink \/ PushToSink \/ Pushed \/ Refused \/ StopSink \/ CloseSink \/ Ended
         \/ \E t \in Threads : Pushing(t)
         \/ \E s \in Shown : Delaying(s)
         \/ NewFrame \/ InitSize \/ SetPaused \/ Quit \/ Interrupt \/ Destroy
         \/ V4l2Wait \/ V4l2Consume \/ V4l2Encode
         \/ Aside
BY Threads3
   DEF Next, Demuxer, Device, Main, User, V4l2, DelayBuffer, Moves, Aside, Pushing, Delaying

LEMMA Untouched ==
  /\ Moves => UNCHANGED <<graph, job, opened, mailbox, delay, events, ui, v4l2>>
  /\ Aside => UNCHANGED <<graph, demux, job, opened, mailbox, delay, events, ui, v4l2>>
  /\ \A t \in Threads : Pushing(t) => UNCHANGED <<graph, demux, opened, delay, ui>>
  /\ \A s \in Shown : Delaying(s) =>
       UNCHANGED <<graph, demux, opened, mailbox, events, ui, v4l2>>
<1>1. Moves => UNCHANGED <<graph, job, opened, mailbox, delay, events, ui, v4l2>>
  BY DEF Moves, Start, OpenFails, Config, Media, DecoderFails, EndOfStream, Record
<1>2. Aside => UNCHANGED <<graph, demux, job, opened, mailbox, delay, events, ui, v4l2>>
  BY DEF Aside, SwitchFps, Fps, FpsCheck, FpsWait, FpsTick, Audio, videoVars
<1>3. \A t \in Threads : Pushing(t) => UNCHANGED <<graph, demux, opened, delay, ui>>
  BY DEF Pushing, PushFrame, Notify, PushFails
<1>4. \A s \in Shown : Delaying(s) => UNCHANGED <<graph, demux, opened, mailbox, events, ui, v4l2>>
  BY DEF Delaying, Buffering, Deadline, Delivered
<1> QED BY <1>1, <1>2, <1>3, <1>4

LEMMA GraphKept ==
  ASSUME Next
  PROVE  graph' = graph /\ Opening' = Opening /\ FrameSinks' = FrameSinks
<1>1. graph' = graph
  <2>1. CASE OpenSink \/ PushToSink \/ Pushed \/ Refused \/ StopSink \/ CloseSink \/ Ended
    BY <2>1 DEF OpenSink, PushToSink, Pushed, Refused, StopSink, CloseSink, Ended
  <2>2. CASE NewFrame \/ InitSize \/ SetPaused \/ Quit \/ Interrupt \/ Destroy
    BY <2>2 DEF NewFrame, InitSize, SetPaused, Quit, Interrupt, Destroy
  <2>3. CASE V4l2Wait \/ V4l2Consume \/ V4l2Encode
    BY <2>3 DEF V4l2Wait, V4l2Consume, V4l2Encode
  <2> QED BY <2>1, <2>2, <2>3, Steps, Untouched
<1> QED BY <1>1 DEF Opening, FrameSinks, Branch, Decoded

LEMMA StepFacts ==
  ASSUME PipelineTypeOK, NEW t \in Threads, NEW pc, Step(t, pc)
  PROVE  /\ job'[t].pc = pc /\ job'[t].sink = job[t].sink /\ job'[t].frame = job[t].frame
         /\ \A u \in Threads : u # t => job'[u] = job[u]
BY DEF Step, PipelineTypeOK, JobStates

LEMMA SinksFacts ==
  ASSUME graph \in Graphs
  PROVE  /\ Sinks(0) = {} /\ Sinks(Len(Opening)) = Elements(Opening)
         /\ \A k \in 1..Len(Opening) : /\ Sinks(k) = Sinks(k - 1) \cup {Opening[k]}
                                       /\ Opening[k] \notin Sinks(k - 1)
<1>1. Sinks(0) = {} /\ Sinks(Len(Opening)) = Elements(Opening)
  BY DEF Sinks, Elements
<1>2. ASSUME NEW k \in 1..Len(Opening)
      PROVE  Sinks(k) = Sinks(k - 1) \cup {Opening[k]} /\ Opening[k] \notin Sinks(k - 1)
  <2>1. 1..k = (1..k - 1) \cup {k} /\ 1..k \subseteq 1..Len(Opening) /\ k \notin 1..k - 1
    OBVIOUS
  <2>2. Sinks(k) = Sinks(k - 1) \cup {Opening[k]}
    BY <2>1 DEF Sinks
  <2>3. \A i \in 1..k - 1 : Opening[i] # Opening[k]
    BY <2>1, OpeningFacts DEF Ordered
  <2> QED BY <2>2, <2>3 DEF Sinks
<1> QED BY <1>1, <1>2

\* Only the end of a session destroys the screen, once the demuxer ended.
LEMMA DestroyedLast ==
  ASSUME PipelineTypeOK, ui.pc = "destroyed" => demux.pc = "ended", Next
  PROVE  ui'.pc = "destroyed" => demux.pc = "ended"
<1> SUFFICES ASSUME ~Destroy
             PROVE  ui'.pc = "destroyed" => ui.pc = "destroyed"
  BY DEF Destroy
<1>1. CASE OpenSink \/ PushToSink \/ Pushed \/ Refused \/ StopSink \/ CloseSink \/ Ended
           \/ V4l2Wait \/ V4l2Consume \/ V4l2Encode
  BY <1>1 DEF OpenSink, PushToSink, Pushed, Refused, StopSink, CloseSink, Ended,
              V4l2Wait, V4l2Consume, V4l2Encode
<1>2. CASE NewFrame \/ InitSize \/ SetPaused \/ Quit \/ Interrupt
  BY <1>2 DEF NewFrame, InitSize, SetPaused, Quit, Interrupt, PipelineTypeOK, UiStates
<1> QED BY <1>1, <1>2, Steps, Untouched

LEMMA ProgressKept ==
  ASSUME PipelineTypeOK, Progress, Next
  PROVE  Progress'
<1> DEFINE n == Len(Opening)
           f == Len(FrameSinks)
           Placed ==
             /\ demux'.pc \in {"start", "open"} => demux'.at \in 1..n
             /\ demux'.pc = "push" => demux'.at \in 1..f
             /\ demux'.pc = "close" => demux'.at \in 0..n
             /\ demux'.pc = "join" => demux'.at \in 1..n
             /\ demux'.pc = "start" => demux'.at = 1
           Count ==
             IF demux'.pc = "open" THEN demux'.at - 1
             ELSE IF demux'.pc \in {"recv", "push", "record"} THEN n
             ELSE IF demux'.pc \in {"close", "join"} THEN demux'.at
             ELSE 0
<1>1. /\ n \in Nat \ {0} /\ f \in Nat \ {0} /\ Opening' = Opening /\ FrameSinks' = FrameSinks
      /\ demux.at \in Nat /\ opened = Sinks(OpenCount)
  BY GraphKept, OpeningFacts, DemuxFields DEF PipelineTypeOK, Progress
<1>2. ui'.pc = "destroyed" => demux.pc = "ended"
  BY DestroyedLast DEF Progress
<1>3. ASSUME Placed, opened' = Sinks(Count), demux.pc = "ended" => demux'.pc = "ended"
      PROVE  Progress'
  <2>1. OpenCount' = Count
    BY <1>1 DEF OpenCount
  <2>2. opened' = Sinks(OpenCount)'
    BY <1>1, <1>3, <2>1 DEF Sinks
  <2> QED BY <1>1, <1>2, <1>3, <2>2 DEF Progress
<1>4. CASE UNCHANGED <<demux, opened>>
  BY <1>1, <1>3, <1>4 DEF Progress, OpenCount
<1>5. ASSUME opened' = opened, OpenCount = Count, Placed,
             demux.pc = "ended" => demux'.pc = "ended"
      PROVE  Progress'
  BY <1>1, <1>3, <1>5
<1>6. demux \in DemuxStates
  BY DEF PipelineTypeOK
<1>7. CASE Moves
  <2>0. opened' = opened
    BY <1>7, Untouched
  <2>1. CASE Start
    <3>1. demux.pc = "start" /\ demux'.pc \in {"open", "end"} /\ demux'.at = demux.at
      BY <1>6, <2>1 DEF Start, DemuxStates
    <3>2. demux.at = 1
      BY <3>1 DEF Progress
    <3> QED BY <1>1, <1>5, <2>0, <3>1, <3>2 DEF OpenCount
  <2>2. CASE OpenFails
    <3>1. demux.pc = "open" /\ demux'.pc = "close" /\ demux'.at = demux.at - 1
      BY <1>6, <2>2 DEF OpenFails, DemuxStates
    <3>2. demux.at \in 1..n
      BY <3>1 DEF Progress
    <3> QED BY <1>1, <1>5, <2>0, <3>1, <3>2 DEF OpenCount
  <2>3. CASE Config
    <3>1. demux.pc = "recv" /\ demux'.pc = "recv" /\ demux'.at = demux.at
      BY <1>6, <2>3 DEF Config, DemuxStates
    <3> QED BY <1>1, <1>5, <2>0, <3>1 DEF OpenCount
  <2>4. CASE Media
    <3>1. demux.pc = "recv" /\ demux'.pc \in {"push", "record", "recv"} /\ demux'.at = 1
      BY <1>6, <2>4 DEF Media, Recording, DemuxStates
    <3> QED BY <1>1, <1>5, <2>0, <3>1 DEF OpenCount
  <2>5. CASE DecoderFails \/ EndOfStream
    <3>1. demux.pc = "recv" /\ demux'.pc = "close" /\ demux'.at = n
      BY <1>6, <2>5 DEF DecoderFails, EndOfStream, Ending, DemuxStates
    <3> QED BY <1>1, <1>5, <2>0, <3>1 DEF OpenCount
  <2>6. CASE Record
    <3>1. demux.pc = "record" /\ demux'.pc = "recv"
      BY <1>6, <2>6 DEF Record, DemuxStates
    <3> QED BY <1>1, <1>5, <2>0, <3>1 DEF OpenCount
  <2> QED BY <1>7, <2>1, <2>2, <2>3, <2>4, <2>5, <2>6 DEF Moves
<1>8. CASE OpenSink
  <2>1. demux.pc = "open" /\ opened' = opened \cup {Opening[demux.at]}
        /\ demux' = IF demux.at = n THEN [demux EXCEPT !.pc = "recv"]
                    ELSE [demux EXCEPT !.at = @ + 1]
    BY <1>8 DEF OpenSink, Opened
  <2>2. demux.at \in 1..n /\ opened = Sinks(demux.at - 1)
    BY <1>1, <2>1 DEF Progress, OpenCount
  <2>3. opened' = Sinks(demux.at)
    BY <2>1, <2>2, SinksFacts DEF PipelineTypeOK
  <2>4. CASE demux.at = n
    <3>1. demux'.pc = "recv"
      BY <1>6, <2>1, <2>4 DEF DemuxStates
    <3> QED BY <1>1, <1>3, <2>1, <2>3, <2>4, <3>1
  <2>5. CASE demux.at # n
    <3>1. demux'.pc = "open" /\ demux'.at = demux.at + 1
      BY <1>6, <2>1, <2>5 DEF DemuxStates
    <3>2. Count = demux.at
      BY <1>1, <3>1
    <3> QED BY <1>1, <1>3, <2>1, <2>2, <2>3, <2>5, <3>1, <3>2
  <2> QED BY <2>4, <2>5
<1>9. CASE Pushed \/ Refused
  <2>1. /\ demux.pc \in {"push", "record"} /\ opened' = opened
        /\ \/ demux.pc = "push" /\ demux.at < f /\ demux'.pc = "push" /\ demux'.at = demux.at + 1
           \/ demux'.pc \in {"recv", "record"}
           \/ demux'.pc = "close" /\ demux'.at = n
    BY <1>6, <1>9 DEF Pushed, Refused, Ending, Recording, DemuxStates
  <2> QED BY <1>1, <1>5, <2>1 DEF OpenCount
<1>10. CASE StopSink
  <2>1. demux.pc = "close" /\ demux'.pc = "join" /\ demux'.at = demux.at /\ demux.at > 0
        /\ opened' = opened
    BY <1>6, <1>10 DEF StopSink, DemuxStates
  <2>2. demux.at \in 0..n
    BY <2>1 DEF Progress
  <2> QED BY <1>1, <1>5, <2>1, <2>2 DEF OpenCount
<1>11. CASE CloseSink
  <2>1. demux.pc = "join" /\ demux'.pc = "close" /\ demux'.at = demux.at - 1
        /\ opened' = opened \ {Opening[demux.at]}
    BY <1>6, <1>11 DEF CloseSink, DemuxStates
  <2>2. demux.at \in 1..n /\ opened = Sinks(demux.at)
    BY <1>1, <2>1 DEF Progress, OpenCount
  <2>3. opened' = Sinks(demux.at - 1)
    BY <2>1, <2>2, SinksFacts DEF PipelineTypeOK
  <2>4. Count = demux.at - 1 /\ demux'.at \in 0..n
    BY <1>1, <2>1, <2>2
  <2> QED BY <1>1, <1>3, <2>1, <2>3, <2>4
<1>12. CASE Ended
  <2>1. (demux.pc = "end" \/ (demux.pc = "close" /\ demux.at = 0)) /\ demux'.pc = "ended"
        /\ opened' = opened
    BY <1>6, <1>12 DEF Ended, DemuxStates
  <2>2. OpenCount = 0 /\ Count = 0 /\ Placed
    BY <2>1 DEF OpenCount
  <2> QED BY <1>5, <2>1, <2>2
<1>13. CASE PushToSink \/ NewFrame \/ InitSize \/ SetPaused \/ Quit \/ Interrupt \/ Destroy
            \/ V4l2Wait \/ V4l2Consume \/ V4l2Encode
  <2>1. UNCHANGED <<demux, opened>>
    BY <1>13 DEF PushToSink, NewFrame, InitSize, SetPaused, Quit, Interrupt, Destroy,
                 V4l2Wait, V4l2Consume, V4l2Encode
  <2> QED BY <1>4, <2>1
<1> QED BY <1>4, <1>7, <1>8, <1>9, <1>10, <1>11, <1>12, <1>13, Steps, Untouched

-----------------------------------------------------------------------------
(* Who delivers frames, and to which sinks.                                *)

\* The five ways a frame is given to the sink `s`.
GivenTo(s) ==
  /\ s \in Elements(FrameSinks)
  /\ \A u \in Threads : u # "demuxer" => job'[u] = job[u]
  /\ \A d \in Shown : d # s => delay'[d] = delay[d]
  /\ \/ /\ job'["demuxer"] \in {[Idle EXCEPT !.pc = "player"], [Idle EXCEPT !.pc = "failed"]}
        /\ UNCHANGED delay
     \/ /\ s \in Shown /\ job'["demuxer"] = Deliver(s, demux.frame)
        /\ UNCHANGED delay /\ graph[s] = "direct"
     \/ /\ s \in Shown /\ job'["demuxer"] = Deliver(s, demux.frame)
        /\ graph[s] = "delayed" /\ delay[s].first
        /\ delay'[s] = [delay[s] EXCEPT !.first = FALSE]
     \/ /\ s \in Shown /\ job'["demuxer"] = [Idle EXCEPT !.pc = "done"]
        /\ graph[s] = "delayed" /\ ~delay[s].first
        /\ delay'[s] = [delay[s] EXCEPT !.queue = Append(delay[s].queue, demux.frame),
                                        !.pc = Awake(delay[s].pc)]

LEMMA PushToSinkFacts ==
  ASSUME PipelineTypeOK, Progress, PushToSink
  PROVE  /\ demux.pc = "push" /\ job["demuxer"] = Idle
         /\ UNCHANGED <<graph, demux, opened, mailbox, events, ui, v4l2>>
         /\ PushStart \/ UNCHANGED audioVars
         /\ \E s \in Elements(FrameSinks) : GivenTo(s)
<1> DEFINE s == FrameSinks[demux.at]
<1>1. /\ demux.pc = "push" /\ job["demuxer"] = Idle
      /\ UNCHANGED <<graph, demux, opened, mailbox, events, ui, v4l2>>
  BY DEF PushToSink
<1>2. s \in Elements(FrameSinks)
  BY <1>1 DEF Progress, Elements
<1>3. /\ graph.stream \in {"video", "audio"}
      /\ graph.stream = "video" => s \in Shown /\ graph[s] \in {"direct", "delayed"}
  BY <1>2, GraphFacts, OpeningFacts, Threads3 DEF PipelineTypeOK
<1> HIDE DEF s
<1>4. job \in [Threads -> JobStates] /\ "demuxer" \in Threads /\ delay \in [Shown -> DelayStates]
  BY Threads3 DEF PipelineTypeOK
<1>5. ASSUME graph.stream = "audio"
      PROVE  GivenTo(s)
  <2>1. job' = [job EXCEPT !["demuxer"] = [Idle EXCEPT !.pc = "player"]] /\ UNCHANGED delay
    BY <1>5 DEF PushToSink, s
  <2> QED BY <1>2, <1>4, <2>1 DEF GivenTo
<1>6. ASSUME graph.stream = "video", graph[s] = "direct"
      PROVE  GivenTo(s)
  <2>1. job' = [job EXCEPT !["demuxer"] = Deliver(s, demux.frame)] /\ UNCHANGED delay
    BY <1>6 DEF PushToSink, s
  <2> QED BY <1>2, <1>3, <1>4, <1>6, <2>1 DEF GivenTo
<1>7. ASSUME graph.stream = "video", graph[s] = "delayed"
      PROVE  GivenTo(s)
  <2>1. PushDelayed(s) \/ RefusedByDelay(s)
    BY <1>7 DEF PushToSink, s
  <2>2. s \in Shown /\ delay[s] \in DelayStates
    BY <1>3, <1>4, <1>7
  <2>3. CASE RefusedByDelay(s)
    <3>1. job' = [job EXCEPT !["demuxer"] = [Idle EXCEPT !.pc = "failed"]] /\ UNCHANGED delay
      BY <1>1, <1>4, <2>3 DEF RefusedByDelay, Step
    <3> QED BY <1>2, <1>4, <3>1 DEF GivenTo
  <2>4. CASE PushDelayed(s) /\ delay[s].first
    <3>1. /\ job' = [job EXCEPT !["demuxer"] = Deliver(s, demux.frame)]
          /\ delay' = [delay EXCEPT ![s] = [delay[s] EXCEPT !.first = FALSE,
                          !.queue = delay[s].queue, !.pc = delay[s].pc]]
      BY <1>4, <2>2, <2>4 DEF PushDelayed
    <3>2. [delay[s] EXCEPT !.first = FALSE, !.queue = delay[s].queue, !.pc = delay[s].pc]
          = [delay[s] EXCEPT !.first = FALSE]
      BY <2>2 DEF DelayStates
    <3> QED BY <1>2, <1>4, <1>7, <2>2, <2>4, <3>1, <3>2 DEF GivenTo
  <2>5. CASE PushDelayed(s) /\ ~delay[s].first
    <3>1. /\ job' = [job EXCEPT !["demuxer"] = [Idle EXCEPT !.pc = "done"]]
          /\ delay' = [delay EXCEPT ![s] = [delay[s] EXCEPT !.first = FALSE,
                          !.queue = Append(delay[s].queue, demux.frame),
                          !.pc = Awake(delay[s].pc)]]
      BY <1>4, <2>2, <2>5 DEF PushDelayed
    <3>2. [delay[s] EXCEPT !.first = FALSE, !.queue = Append(delay[s].queue, demux.frame),
                           !.pc = Awake(delay[s].pc)]
          = [delay[s] EXCEPT !.queue = Append(delay[s].queue, demux.frame),
                             !.pc = Awake(delay[s].pc)]
      BY <2>2, <2>5 DEF DelayStates
    <3> QED BY <1>2, <1>4, <1>7, <2>2, <2>5, <3>1, <3>2 DEF GivenTo
  <2> QED BY <2>1, <2>3, <2>4, <2>5
<1>8. GivenTo(s)
  BY <1>2, <1>3, <1>5, <1>6, <1>7
<1>9. PushStart \/ UNCHANGED audioVars
  BY <1>3 DEF PushToSink, s
<1> QED BY <1>1, <1>2, <1>8, <1>9

\* A delay buffer that is not open has no thread.
LEMMA JobsKept ==
  ASSUME PipelineTypeOK, Progress, Jobs, Alive, Next
  PROVE  Jobs'
<1> DEFINE ByDelay(s) == job'[s] # Idle => job'[s].sink = s /\ delay'[s].pc = "deliver"
           Typed(t) ==
             /\ job'[t].pc \in {"mailbox", "notify"} => job'[t].sink \in Shown
             /\ job'[t].pc = "idle" => job'[t] = Idle
           ByDemuxer ==
             /\ job'["demuxer"] # Idle => demux'.pc = "push"
             /\ job'["demuxer"].sink # "none" => job'["demuxer"].sink \in Elements(FrameSinks)
<1>1. ASSUME \A t \in Threads : Typed(t), ByDemuxer, \A s \in Shown : ByDelay(s)
      PROVE  Jobs'
  <2>1. Elements(FrameSinks)' = Elements(FrameSinks)
    BY GraphKept
  <2> QED BY <1>1, <2>1 DEF Jobs
<1>2. /\ \A s \in Shown : s \in Threads /\ s # "demuxer"
      /\ "demuxer" \in Threads
      /\ \A t \in Threads : t = "demuxer" \/ t \in Shown
      /\ job \in [Threads -> JobStates] /\ delay \in [Shown -> DelayStates]
  BY Threads3 DEF PipelineTypeOK
<1>3. Idle.pc = "idle" /\ Idle.sink = "none"
  BY DEF Idle
<1>4. CASE /\ UNCHANGED job
           /\ \A s \in Shown : delay[s].pc = "deliver" => delay'[s].pc = "deliver"
           /\ demux.pc = "push" => demux'.pc = "push"
  BY <1>1, <1>2, <1>4 DEF Jobs
<1>5. CASE Moves \/ Ended
  <2>1. UNCHANGED <<job, delay>> /\ demux.pc # "push"
    BY <1>5, Untouched
      DEF Moves, Start, OpenFails, Config, Media, DecoderFails, EndOfStream, Record, Ended
  <2> QED BY <1>4, <2>1
<1>6. CASE OpenSink \/ StopSink \/ CloseSink
  <2>1. UNCHANGED job /\ demux.pc # "push"
    BY <1>6 DEF OpenSink, StopSink, CloseSink
  <2>2. ASSUME NEW s \in Shown, delay[s].pc = "deliver"
        PROVE  delay'[s].pc = "deliver"
    <3>1. Buffer[s] \in opened /\ delay[s] \in DelayStates
      BY <1>2, <2>2 DEF Alive
    <3>2. CASE OpenSink
      <4>1. Opening[demux.at] \notin opened
        <5>1. demux.pc = "open" /\ demux.at \in 1..Len(Opening) /\ opened = Sinks(demux.at - 1)
          BY <3>2 DEF OpenSink, Progress, OpenCount
        <5> QED BY <5>1, SinksFacts DEF PipelineTypeOK
      <4> QED BY <2>2, <3>1, <3>2, <4>1 DEF OpenSink, Opened
    <3>3. CASE StopSink
      BY <2>2, <3>1, <3>3 DEF StopSink, Stopping, Awake, DelayStates
    <3>4. CASE CloseSink
      BY <2>2, <3>4 DEF CloseSink
    <3> QED BY <1>6, <3>2, <3>3, <3>4
  <2> QED BY <1>4, <2>1, <2>2
<1>7. CASE PushToSink
  <2>0. PICK x \in Elements(FrameSinks) : GivenTo(x)
    BY <1>7, PushToSinkFacts
  <2>1. /\ demux'.pc = "push" /\ \A u \in Threads : u # "demuxer" => job'[u] = job[u]
    BY <1>7, <2>0, PushToSinkFacts DEF GivenTo
  <2>2. \A s \in Shown : delay[s].pc = "deliver" => delay'[s].pc = "deliver"
    <3>1. \A s \in Shown : \/ delay'[s] = delay[s]
                           \/ delay'[s] = [delay[s] EXCEPT !.first = FALSE]
                           \/ delay'[s] = [delay[s] EXCEPT
                                !.queue = Append(delay[s].queue, demux.frame),
                                !.pc = Awake(delay[s].pc)]
      BY <2>0 DEF GivenTo
    <3>2. \A s \in Shown : delay[s] \in DelayStates
      BY <1>2
    <3> QED BY <3>1, <3>2 DEF Awake, DelayStates
  <2>3. Typed("demuxer") /\ ByDemuxer
    <3>1. \/ job'["demuxer"] = [Idle EXCEPT !.pc = "player"]
          \/ job'["demuxer"] = [Idle EXCEPT !.pc = "done"]
          \/ job'["demuxer"] = [Idle EXCEPT !.pc = "failed"]
          \/ job'["demuxer"] = Deliver(x, demux.frame) /\ x \in Shown
      BY <2>0 DEF GivenTo
    <3> QED BY <2>0, <2>1, <3>1 DEF Idle, Deliver
  <2> QED BY <1>1, <1>2, <2>1, <2>2, <2>3 DEF Jobs
<1>8. CASE Pushed \/ Refused
  <2>1. job' = [job EXCEPT !["demuxer"] = Idle] /\ UNCHANGED delay
    BY <1>8 DEF Pushed, Refused
  <2>2. job'["demuxer"] = Idle /\ \A s \in Shown : job'[s] = job[s] /\ delay'[s] = delay[s]
    BY <1>2, <2>1
  <2>3. Typed("demuxer") /\ ByDemuxer
    BY <1>3, <2>2
  <2>4. \A s \in Shown : Typed(s) /\ ByDelay(s)
    BY <1>2, <2>2 DEF Jobs
  <2> QED BY <1>1, <1>2, <2>3, <2>4
<1>9. ASSUME NEW t \in Threads, Pushing(t)
      PROVE  Jobs'
  <2>1. PICK pc \in {"notify", "done", "failed"} : Step(t, pc)
    BY <1>9 DEF Pushing, PushFrame, Notify, PushFails
  <2>2. job[t].pc \in {"mailbox", "notify"}
    BY <1>9 DEF Pushing, PushFrame, Notify, PushFails
  <2>3. UNCHANGED <<demux, delay>>
    BY <1>9, Untouched
  <2>4. job'[t].pc = pc /\ job'[t].sink = job[t].sink /\ job[t].sink \in Shown
        /\ \A u \in Threads : u # t => job'[u] = job[u]
    BY <2>1, <2>2, StepFacts DEF Jobs
  <2> QED BY <1>1, <1>2, <1>3, <2>1, <2>2, <2>3, <2>4 DEF Jobs
<1>10. ASSUME NEW s \in Shown, Delaying(s)
       PROVE  Jobs'
  <2>1. UNCHANGED demux /\ delay[s] \in DelayStates
    BY <1>2, <1>10, Untouched
  <2>2. CASE Buffering(s)
    BY <1>2, <1>4, <2>1, <2>2 DEF Buffering
  <2>3. CASE Deadline(s) /\ delay[s].stopped
    BY <1>2, <1>4, <2>1, <2>3 DEF Deadline
  <2>4. CASE Deadline(s) /\ ~delay[s].stopped
    <3>1. /\ job' = [job EXCEPT ![s] = Deliver(s, delay[s].held)]
          /\ delay' = [delay EXCEPT ![s].pc = "deliver"]
      BY <2>4 DEF Deadline
    <3>2. /\ delay'[s].pc = "deliver"
          /\ \A d \in Shown : d # s => delay'[d] = delay[d]
      BY <1>2, <2>1, <3>1 DEF DelayStates
    <3>3. /\ job'[s].pc = "mailbox" /\ job'[s].sink = s
          /\ \A u \in Threads : u # s => job'[u] = job[u]
      BY <1>2, <3>1 DEF Deliver
    <3> QED BY <1>1, <1>2, <2>1, <3>2, <3>3 DEF Jobs
  <2>5. CASE Delivered(s)
    <3>1. /\ job' = [job EXCEPT ![s] = Idle]
          /\ \A d \in Shown : d # s => delay'[d] = delay[d]
      BY <1>2, <2>5 DEF Delivered
    <3> QED BY <1>1, <1>2, <1>3, <2>1, <3>1 DEF Jobs
  <2> QED BY <1>10, <2>2, <2>3, <2>4, <2>5 DEF Delaying
<1>11. CASE NewFrame \/ InitSize \/ SetPaused \/ Quit \/ Interrupt \/ Destroy
            \/ V4l2Wait \/ V4l2Consume \/ V4l2Encode
  <2>1. UNCHANGED <<demux, job, delay>>
    BY <1>11 DEF NewFrame, InitSize, SetPaused, Quit, Interrupt, Destroy,
                 V4l2Wait, V4l2Consume, V4l2Encode
  <2> QED BY <1>4, <2>1
<1> QED BY <1>1, <1>4, <1>5, <1>6, <1>7, <1>8, <1>9, <1>10, <1>11, Steps, Untouched

LEMMA AliveKept ==
  ASSUME PipelineTypeOK, Progress, Alive, Next
  PROVE  Alive'
<1>1. delay \in [Shown -> DelayStates] /\ v4l2 \in V4l2States
  BY DEF PipelineTypeOK
<1>2. CASE /\ opened \subseteq opened'
           /\ \A s \in Shown : delay'[s].pc \notin {"off", "done"} =>
                delay[s].pc \notin {"off", "done"} \/ Buffer[s] \in opened'
           /\ v4l2'.pc \notin {"off", "done"} =>
                v4l2.pc \notin {"off", "done"} \/ "v4l2" \in opened'
  BY <1>2 DEF Alive
<1>3. CASE Moves \/ Aside
  BY <1>2, <1>3, Untouched
<1>4. CASE OpenSink
  BY <1>1, <1>2, <1>4 DEF OpenSink, Opened
<1>5. CASE PushToSink
  <2>1. UNCHANGED <<opened, v4l2>>
    BY <1>5 DEF PushToSink
  <2>2. \A s \in Shown : delay'[s].pc \notin {"off", "done"} => delay[s].pc \notin {"off", "done"}
    <3>1. \A s \in Shown : \/ delay'[s] = delay[s]
                           \/ delay'[s] = [delay[s] EXCEPT !.first = FALSE]
                           \/ delay'[s] = [delay[s] EXCEPT
                                !.queue = Append(delay[s].queue, demux.frame),
                                !.pc = Awake(delay[s].pc)]
      BY <1>5, PushToSinkFacts DEF GivenTo
    <3>2. \A s \in Shown : delay[s] \in DelayStates
      BY <1>1
    <3> QED BY <3>1, <3>2 DEF Awake, DelayStates
  <2> QED BY <1>2, <2>1, <2>2
<1>6. CASE Pushed \/ Refused \/ Ended
  BY <1>2, <1>6 DEF Pushed, Refused, Ended
<1>7. CASE StopSink
  <2>1. \A s \in Shown : delay'[s].pc \notin {"off", "done"} => delay[s].pc \notin {"off", "done"}
    BY <1>1, <1>7 DEF StopSink, Stopping, Awake, DelayStates
  <2>2. v4l2'.pc \notin {"off", "done"} => v4l2.pc \notin {"off", "done"}
    BY <1>1, <1>7 DEF StopSink, Awake, V4l2States
  <2> QED BY <1>2, <1>7, <2>1, <2>2 DEF StopSink
<1>8. CASE CloseSink
  <2>1. UNCHANGED <<delay, v4l2>> /\ opened' = opened \ {Opening[demux.at]}
        /\ ThreadEnded(Opening[demux.at])
    BY <1>8 DEF CloseSink
  <2> QED BY <2>1 DEF Alive, ThreadEnded
<1>9. ASSUME NEW t \in Threads, Pushing(t)
      PROVE  Alive'
  <2>1. UNCHANGED <<opened, delay>>
    BY <1>9, Untouched
  <2>2. v4l2'.pc \notin {"off", "done"} => v4l2.pc \notin {"off", "done"}
    BY <1>1, <1>9 DEF Pushing, PushFrame, Notify, PushFails, Awake, V4l2States
  <2> QED BY <1>2, <2>1, <2>2
<1>10. ASSUME NEW s \in Shown, Delaying(s)
       PROVE  Alive'
  <2>1. UNCHANGED <<opened, v4l2>> /\ delay[s].pc \notin {"off", "done"}
        /\ \A d \in Shown : d # s => delay'[d] = delay[d]
    BY <1>1, <1>10, Untouched DEF Delaying, Buffering, Deadline, Delivered
  <2> QED BY <1>2, <2>1
<1>11. CASE NewFrame \/ InitSize \/ SetPaused \/ Quit \/ Interrupt \/ Destroy
            \/ V4l2Wait \/ V4l2Consume \/ V4l2Encode
  <2>1. UNCHANGED <<opened, delay>>
    BY <1>11 DEF NewFrame, InitSize, SetPaused, Quit, Interrupt, Destroy,
                 V4l2Wait, V4l2Consume, V4l2Encode
  <2>2. v4l2'.pc \notin {"off", "done"} => v4l2.pc \notin {"off", "done"}
    BY <1>1, <1>11 DEF NewFrame, InitSize, SetPaused, Quit, Interrupt, Destroy,
                 V4l2Wait, V4l2Consume, V4l2Encode, V4l2States
  <2> QED BY <1>2, <2>1, <2>2
<1> QED BY <1>3, <1>4, <1>5, <1>6, <1>7, <1>8, <1>9, <1>10, <1>11, Steps

LEMMA GivenWhileOpen ==
  ASSUME PipelineTypeOK, Progress, Jobs, Alive
  PROVE  NothingPushedAfterClose
<1>1. ASSUME NEW t \in Threads, job[t].sink # "none"
      PROVE  job[t].sink \in opened
  <2>1. CASE t = "demuxer"
    <3>1. demux.pc = "push" /\ job[t].sink \in Elements(FrameSinks)
      BY <1>1, <2>1 DEF Jobs, Idle
    <3>2. opened = Sinks(Len(Opening))
      BY <3>1 DEF Progress, OpenCount
    <3> QED BY <3>1, <3>2, SinksFacts, OpeningFacts DEF PipelineTypeOK
  <2>2. CASE t \in Shown
    <3>1. job[t].sink = t /\ Buffer[t] \in opened
      BY <1>1, <2>2 DEF Jobs, Idle, Alive
    <3>2. PICK i \in 1..OpenCount : Opening[i] = Buffer[t]
      BY <3>1 DEF Progress, Sinks
    <3>3. OpenCount \in 0..Len(Opening) /\ Len(Opening) \in Nat
      BY OpeningFacts, DemuxFields DEF OpenCount, Progress, PipelineTypeOK
    <3>4. i - 1 \in 1..Len(Opening) /\ Opening[i - 1] = t
      BY <2>2, <3>2, <3>3, OpeningFacts DEF Ordered, PipelineTypeOK
    <3>5. i - 1 \in 1..OpenCount
      BY <3>3, <3>4
    <3> QED BY <3>1, <3>4, <3>5 DEF Progress, Sinks
  <2> QED BY <2>1, <2>2, Threads3
<1>2. ui.pc = "destroyed" => opened = {}
  BY SinksFacts DEF Progress, OpenCount, PipelineTypeOK
<1> QED BY <1>1, <1>2 DEF NothingPushedAfterClose, Alive

-----------------------------------------------------------------------------
(* Every frame that is not consumed is announced once.                     *)

LEMMA QueuedEvents ==
  ASSUME NEW q \in Seq(Events)
  PROVE  /\ \A e \in Events : NewFramesIn(Append(q, e)) =
              IF e = "newFrame" THEN NewFramesIn(q) \cup {Len(q) + 1} ELSE NewFramesIn(q)
         /\ q # <<>> => /\ Head(q) = "newFrame" => 1 \in NewFramesIn(q)
                        /\ \A i \in NewFramesIn(Tail(q)) : i + 1 \in NewFramesIn(q) /\ i + 1 # 1
                        /\ NewFramesIn(Tail(q)) \subseteq Nat
<1>1. ASSUME NEW e \in Events
      PROVE  NewFramesIn(Append(q, e)) =
               IF e = "newFrame" THEN NewFramesIn(q) \cup {Len(q) + 1} ELSE NewFramesIn(q)
  <2>1. DOMAIN q = 1..Len(q) /\ DOMAIN Append(q, e) = 1..Len(q) + 1 /\ Len(q) \in Nat
    OBVIOUS
  <2>2. 1..Len(q) + 1 = (1..Len(q)) \cup {Len(q) + 1} /\ Len(q) + 1 \notin 1..Len(q)
    BY <2>1
  <2>3. Append(q, e)[Len(q) + 1] = e /\ \A i \in 1..Len(q) : Append(q, e)[i] = q[i]
    OBVIOUS
  <2> QED BY <2>1, <2>2, <2>3 DEF NewFramesIn
<1>2. ASSUME q # <<>>
      PROVE  /\ Head(q) = "newFrame" => 1 \in NewFramesIn(q)
             /\ \A i \in NewFramesIn(Tail(q)) : i + 1 \in NewFramesIn(q) /\ i + 1 # 1
             /\ NewFramesIn(Tail(q)) \subseteq Nat
  <2>1. /\ DOMAIN q = 1..Len(q) /\ DOMAIN Tail(q) = 1..Len(q) - 1 /\ Len(q) \in Nat \ {0}
        /\ Head(q) = q[1] /\ \A i \in 1..Len(q) - 1 : Tail(q)[i] = q[i + 1]
    BY <1>2
  <2> QED BY <2>1 DEF NewFramesIn
<1> QED BY <1>1, <1>2

LEMMA TokensKept ==
  ASSUME PipelineTypeOK, Jobs, Tokens, Next, Progress
  PROVE  Tokens'
<1> DEFINE Fewer == /\ \A i, j \in NewFrames' : i = j
                    /\ NewFrames' # {} => NewFrames # {}
           Silent == /\ v4l2'.hasFrame => v4l2.hasFrame
                     /\ v4l2'.pc = "consume" => v4l2.pc = "consume"
           Calm == \A t \in Threads : job'[t].pc = "notify" => job'[t] = job[t]
<1>1. /\ job \in [Threads -> JobStates] /\ mailbox \in [Shown -> Mailboxes]
      /\ v4l2 \in V4l2States /\ events \in Seq(Events)
      /\ "screen" \in Shown /\ "v4l2" \in Shown /\ \A s \in Shown : s = "screen" \/ s = "v4l2"
      /\ \A s \in Shown : s \in Threads
  BY Threads3 DEF PipelineTypeOK
<1>2. ASSUME UNCHANGED mailbox, Fewer, Silent, Calm
      PROVE  Tokens'
  <2>1. \A s \in Shown : /\ Told(s)' => Told(s)
                         /\ Notifying(s)' \subseteq Notifying(s)
    BY <1>2 DEF Told, Notifying
  <2> QED BY <1>2, <2>1 DEF Tokens, Announced
<1>3. UNCHANGED events => Fewer
  BY DEF Tokens, NewFrames
<1>4. UNCHANGED job => Calm
  OBVIOUS
<1>5. UNCHANGED v4l2 => Silent
  OBVIOUS
<1>6. \A e \in Events \ {"newFrame"} : events' = Append(events, e) => Fewer
  BY <1>1, QueuedEvents DEF Tokens, NewFrames
<1>7. events # <<>> /\ events' = Tail(events) =>
        Fewer /\ (Head(events) = "newFrame" => NewFrames # {} /\ NewFrames' = {})
  <2> SUFFICES ASSUME events # <<>>, events' = Tail(events)
               PROVE  Fewer /\ (Head(events) = "newFrame" => NewFrames # {} /\ NewFrames' = {})
    OBVIOUS
  <2>1. /\ Head(events) = "newFrame" => 1 \in NewFrames
        /\ \A i \in NewFrames' : i \in Nat /\ i + 1 \in NewFrames /\ i + 1 # 1
    BY <1>1, QueuedEvents DEF NewFrames
  <2>2. \A i, j \in NewFrames : i = j
    BY DEF Tokens, Announced
  <2>3. \A i, j \in NewFrames' : i = j
    <3> SUFFICES ASSUME NEW i \in NewFrames', NEW j \in NewFrames'
                 PROVE  i = j
      OBVIOUS
    <3>1. i + 1 = j + 1 /\ i \in Nat /\ j \in Nat
      BY <2>1, <2>2
    <3> QED BY <3>1
  <2> QED BY <2>1, <2>2, <2>3
<1>8. CASE Moves \/ Aside
  BY <1>2, <1>3, <1>4, <1>5, <1>8, Untouched
<1>9. CASE OpenSink
  <2>1. UNCHANGED <<mailbox, job>>
        /\ (UNCHANGED events \/ events' = Append(events, "initSize"))
        /\ (UNCHANGED v4l2 \/ v4l2' = [v4l2 EXCEPT !.pc = "idle"])
    BY <1>9 DEF OpenSink, Opened
  <2>2. Silent
    BY <1>1, <2>1 DEF V4l2States
  <2>3. Fewer
    BY <1>3, <1>6, <2>1 DEF Events
  <2> QED BY <1>2, <1>4, <2>1, <2>2, <2>3
<1>10. CASE PushToSink \/ Pushed \/ Refused
  <2>1. UNCHANGED <<mailbox, events, v4l2>>
    BY <1>10 DEF PushToSink, Pushed, Refused
  <2>2. Calm
    <3>1. CASE PushToSink
      <4>1. /\ \A u \in Threads : u # "demuxer" => job'[u] = job[u]
            /\ \/ job'["demuxer"] = [Idle EXCEPT !.pc = "player"]
               \/ job'["demuxer"] = [Idle EXCEPT !.pc = "done"]
               \/ job'["demuxer"] = [Idle EXCEPT !.pc = "failed"]
               \/ \E x : job'["demuxer"] = Deliver(x, demux.frame)
        BY <3>1, PushToSinkFacts DEF GivenTo
      <4>2. job'["demuxer"].pc # "notify"
        <5>1. \A x : Deliver(x, demux.frame).pc = "mailbox"
          BY DEF Deliver
        <5>2. \A pc : [Idle EXCEPT !.pc = pc].pc = pc
          BY DEF Idle
        <5> QED BY <4>1, <5>1, <5>2
      <4> QED BY <4>1, <4>2
    <3>2. CASE Pushed \/ Refused
      BY <1>1, <3>2 DEF Pushed, Refused, Idle
    <3> QED BY <1>10, <3>1, <3>2
  <2> QED BY <1>2, <1>3, <1>5, <2>1, <2>2
<1>11. CASE StopSink
  <2>1. UNCHANGED <<mailbox, job, events>>
        /\ (UNCHANGED v4l2 \/ v4l2' = [v4l2 EXCEPT !.stopped = TRUE, !.pc = Awake(v4l2.pc)])
    BY <1>11 DEF StopSink
  <2>2. Silent
    BY <1>1, <2>1 DEF V4l2States, Awake
  <2> QED BY <1>2, <1>3, <1>4, <2>1, <2>2
<1>12. CASE CloseSink
  BY <1>2, <1>3, <1>4, <1>5, <1>12 DEF CloseSink
<1>13. CASE Ended
  <2>1. UNCHANGED <<mailbox, job, v4l2>>
        /\ (UNCHANGED events \/ events' = Append(events, "ended"))
    BY <1>13 DEF Ended
  <2>2. Fewer
    BY <1>3, <1>6, <2>1 DEF Events
  <2> QED BY <1>2, <1>4, <1>5, <2>1, <2>2
<1>14. ASSUME NEW t \in Threads, Pushing(t)
       PROVE  Tokens'
  <2> SUFFICES ASSUME NEW s, s = job[t].sink
               PROVE  Tokens'
    OBVIOUS
  <2>1. PICK pc \in {"notify", "done", "failed"} : Step(t, pc)
    BY <1>14 DEF Pushing, PushFrame, Notify, PushFails
  <2>2. /\ job'[t].pc = pc /\ job'[t].sink = s
        /\ \A u \in Threads : u # t => job'[u] = job[u]
    BY <2>1, StepFacts
  <2>3. job[t].pc \in {"mailbox", "notify"} /\ s \in Shown
    BY <1>14 DEF Pushing, PushFrame, Notify, PushFails, Jobs
  <2>4. pc # "notify" => Calm
    BY <2>2
  <2>5. CASE PushFails(t)
    <3>1. job'[t].pc = "failed" /\ UNCHANGED <<mailbox, events, v4l2>>
      BY <2>5, StepFacts DEF PushFails
    <3> QED BY <1>2, <1>3, <1>5, <2>2, <2>4, <3>1
  <2>6. CASE PushFrame(t)
    <3>1. /\ job'[t].pc = IF mailbox[s].consumed THEN "notify" ELSE "done"
          /\ UNCHANGED <<events, v4l2>> /\ job[t].pc = "mailbox"
      BY <2>6, StepFacts DEF PushFrame
    <3>2. /\ ~mailbox'[s].consumed
          /\ \A d \in Shown : d # s => mailbox'[d] = mailbox[d]
      BY <1>1, <2>3, <2>6 DEF PushFrame
    <3>3. \A d \in Shown : Told(d)' = Told(d)
      BY <3>1 DEF Told, NewFrames
    <3>4. \A d \in Shown : d # s \/ ~mailbox[s].consumed => Notifying(d)' = Notifying(d)
      BY <2>2, <3>1 DEF Notifying
    <3>5. mailbox[s].consumed => Notifying(s) = {} /\ ~Told(s) /\ Notifying(s)' = {t}
      <4>1. mailbox[s].consumed => Notifying(s) = {} /\ ~Told(s)
        BY <2>3 DEF Tokens, Announced
      <4>2. \A u \in Threads : u # t => ~(job[u].pc = "notify" /\ job[u].sink = s)
               \/ ~mailbox[s].consumed
        BY <4>1 DEF Notifying
      <4> QED BY <2>2, <3>1, <4>1, <4>2 DEF Notifying
    <3>6. Fewer /\ ~(v4l2'.hasFrame /\ v4l2'.pc = "consume")
      BY <1>3, <3>1 DEF Tokens, Announced
    <3>7. Announced(s)'
      <4>1. CASE mailbox[s].consumed
        BY <2>3, <3>2, <3>3, <3>5, <4>1 DEF Announced
      <4>2. CASE ~mailbox[s].consumed
        BY <2>3, <3>2, <3>3, <3>4, <4>2 DEF Tokens, Announced
      <4> QED BY <4>1, <4>2
    <3>8. \A d \in Shown : d # s => Announced(d)'
      BY <3>2, <3>3, <3>4 DEF Tokens, Announced
    <3> QED BY <3>6, <3>7, <3>8 DEF Tokens
  <2>7. CASE Notify(t)
    <3>1. job'[t].pc = "done" /\ UNCHANGED mailbox /\ job[t].pc = "notify"
      BY <2>7, StepFacts DEF Notify
    <3>2. t \in Notifying(s) /\ ~mailbox[s].consumed /\ ~Told(s) /\ Notifying(s) = {t}
      <4>1. t \in Notifying(s)
        BY <3>1 DEF Notifying
      <4> QED BY <2>3, <4>1 DEF Tokens, Announced
    <3>3. Notifying(s)' = {}
      <4>1. \A u \in Threads :
              job'[u].pc = "notify" /\ job'[u].sink = s => u # t /\ job'[u] = job[u]
        BY <2>2, <3>1
      <4>2. \A u \in Threads : u # t => ~(job[u].pc = "notify" /\ job[u].sink = s)
        BY <3>2 DEF Notifying
      <4> QED BY <2>2, <4>1, <4>2 DEF Notifying
    <3>4. \A d \in Shown : d # s => Notifying(d)' = Notifying(d)
      BY <2>2, <3>1 DEF Notifying
    <3>5. CASE s = "screen"
      <4>1. events' = Append(events, "newFrame") /\ UNCHANGED v4l2
        BY <2>7, <3>5 DEF Notify
      <4>2. NewFrames' = NewFrames \cup {Len(events) + 1} /\ NewFrames = {}
        BY <1>1, <3>2, <3>5, <4>1, QueuedEvents DEF NewFrames, Told, Events
      <4>3. Told("v4l2")' = Told("v4l2")
        BY <4>1 DEF Told
      <4>4. /\ \A i, j \in NewFrames' : i = j
            /\ ~(v4l2'.hasFrame /\ v4l2'.pc = "consume")
        BY <4>1, <4>2 DEF Tokens, Announced
      <4>5. Announced("screen")'
        BY <3>1, <3>2, <3>3, <3>5 DEF Announced
      <4>6. Announced("v4l2")'
        BY <1>1, <3>1, <3>4, <3>5, <4>3 DEF Tokens, Announced
      <4> QED BY <1>1, <3>5, <4>5, <4>6, <4>4 DEF Tokens
    <3>6. CASE s = "v4l2"
      <4>1. UNCHANGED events /\ v4l2' = [v4l2 EXCEPT !.hasFrame = TRUE, !.pc = Awake(v4l2.pc)]
        BY <2>7, <3>6 DEF Notify
      <4>2. Told("screen")' = Told("screen") /\ Fewer
        BY <1>3, <4>1 DEF Told, NewFrames
      <4>3. v4l2'.pc # "consume"
        BY <1>1, <3>2, <3>6, <4>1 DEF V4l2States, Awake, Told
      <4>5. Announced("v4l2")'
        BY <3>1, <3>2, <3>3, <3>6 DEF Announced
      <4>6. Announced("screen")'
        BY <1>1, <3>1, <3>4, <3>6, <4>2 DEF Tokens, Announced
      <4> QED BY <1>1, <3>6, <4>5, <4>6, <4>2, <4>3 DEF Tokens
    <3> QED BY <1>1, <2>3, <3>5, <3>6
  <2> QED BY <1>14, <2>5, <2>6, <2>7 DEF Pushing
<1>15. ASSUME NEW s \in Shown, Delaying(s)
       PROVE  Tokens'
  <2>1. UNCHANGED <<mailbox, events, v4l2>>
    BY <1>15, Untouched
  <2>2. Calm
    <3>1. \/ UNCHANGED job
          \/ job' = [job EXCEPT ![s] = Deliver(s, delay[s].held)]
          \/ job' = [job EXCEPT ![s] = Idle]
      BY <1>15 DEF Delaying, Buffering, Deadline, Delivered
    <3> QED BY <1>1, <3>1 DEF Deliver, Idle
  <2> QED BY <1>2, <1>3, <1>5, <2>1, <2>2
<1>16. CASE NewFrame
  <2>1. /\ events # <<>> /\ Head(events) = "newFrame" /\ events' = Tail(events)
        /\ UNCHANGED <<job, v4l2>>
    BY <1>16 DEF NewFrame, Handled
  <2>2. Told("screen") /\ ~Told("screen")' /\ NewFrames' = {}
    BY <1>7, <2>1 DEF Told
  <2>3. \A s \in Shown : Notifying(s)' = Notifying(s)
    BY <2>1 DEF Notifying
  <2>4. mailbox'["v4l2"] = mailbox["v4l2"] /\ Told("v4l2")' = Told("v4l2")
    BY <1>1, <1>16, <2>1 DEF NewFrame, Told
  <2>5. Notifying("screen") = {}
    BY <1>1, <2>2 DEF Tokens, Announced
  <2> QED BY <1>1, <2>1, <2>2, <2>3, <2>4, <2>5 DEF Tokens, Announced
<1>17. CASE InitSize
  BY <1>2, <1>4, <1>5, <1>7, <1>17 DEF InitSize, Handled
<1>18. CASE SetPaused \/ Quit \/ Interrupt \/ Destroy
  BY <1>2, <1>3, <1>4, <1>5, <1>18 DEF SetPaused, Quit, Interrupt, Destroy
<1>19. CASE V4l2Wait
  <2>1. /\ UNCHANGED <<job, mailbox, events>>
        /\ \/ v4l2' = [v4l2 EXCEPT !.pc = "done"]
           \/ v4l2.hasFrame /\ v4l2' = [v4l2 EXCEPT !.pc = "consume", !.hasFrame = FALSE]
           \/ v4l2' = [v4l2 EXCEPT !.pc = "wait"]
    BY <1>19 DEF V4l2Wait
  <2>2. CASE v4l2' = [v4l2 EXCEPT !.pc = "done"] \/ v4l2' = [v4l2 EXCEPT !.pc = "wait"]
    BY <1>1, <1>2, <1>3, <1>4, <2>1, <2>2 DEF V4l2States
  <2>3. CASE v4l2.hasFrame /\ v4l2' = [v4l2 EXCEPT !.pc = "consume", !.hasFrame = FALSE]
    <3>1. ~v4l2'.hasFrame
      BY <1>1, <2>3 DEF V4l2States
    <3>2. /\ \A s \in Shown : Told(s)' => Told(s)
          /\ \A s \in Shown : Notifying(s)' = Notifying(s)
      BY <1>1, <2>1, <2>3 DEF Told, Notifying, NewFrames
    <3> QED BY <1>3, <2>1, <3>1, <3>2 DEF Tokens, Announced
  <2> QED BY <2>1, <2>2, <2>3
<1>20. CASE V4l2Consume
  <2>1. /\ v4l2.pc = "consume" /\ UNCHANGED <<job, events>>
        /\ v4l2' = [v4l2 EXCEPT !.pc = "encode", !.frame = mailbox["v4l2"].frame]
        /\ mailbox' = [mailbox EXCEPT !["v4l2"].consumed = TRUE]
    BY <1>20 DEF V4l2Consume
  <2>2. ~v4l2.hasFrame /\ Told("v4l2")
    BY <2>1 DEF Tokens, Announced, Told
  <2>3. ~Told("v4l2")' /\ Told("screen")' = Told("screen") /\ v4l2'.pc # "consume"
    BY <1>1, <2>1, <2>2 DEF Told, V4l2States, NewFrames
  <2>4. Notifying("v4l2") = {} /\ \A s \in Shown : Notifying(s)' = Notifying(s)
    BY <1>1, <2>1, <2>2 DEF Tokens, Announced, Notifying
  <2>5. mailbox'["screen"] = mailbox["screen"]
    BY <1>1, <2>1
  <2> QED BY <1>1, <1>3, <2>1, <2>3, <2>4, <2>5 DEF Tokens, Announced
<1>21. CASE V4l2Encode
  <2>1. /\ UNCHANGED <<job, mailbox, events>>
        /\ \/ v4l2' = [v4l2 EXCEPT !.pc = "idle", !.header = v4l2.frame]
           \/ v4l2' = [v4l2 EXCEPT !.pc = "idle", !.shown = v4l2.frame]
           \/ v4l2' = [v4l2 EXCEPT !.pc = "idle"]
           \/ v4l2' = [v4l2 EXCEPT !.pc = "done"]
    BY <1>21 DEF V4l2Encode
  <2>2. Silent
    BY <1>1, <2>1 DEF V4l2States
  <2> QED BY <1>2, <1>3, <1>4, <2>1, <2>2
<1> QED BY <1>8, <1>9, <1>10, <1>11, <1>12, <1>13, <1>14, <1>15, <1>16, <1>17, <1>18, <1>19,
           <1>20, <1>21, Steps

LEMMA TokensSuffice ==
  ASSUME PipelineTypeOK, Tokens
  PROVE  ConsumeFindsFrame
<1>1. Cardinality(NewFrames) <= 1
  <2>1. CASE NewFrames = {}
    BY <2>1, FS_EmptySet
  <2>2. ASSUME NEW i \in NewFrames
        PROVE  Cardinality(NewFrames) <= 1
    <3>1. NewFrames = {i}
      BY DEF Tokens, Announced
    <3> QED BY <3>1, FS_Singleton
  <2> QED BY <2>1, <2>2
<1>2. "newFrame" \in {events[i] : i \in DOMAIN events} => NewFrames # {}
  BY DEF NewFrames, NewFramesIn
<1>3. "screen" \in Shown /\ "v4l2" \in Shown
  BY Threads3
<1>4. (NewFrames # {} => ~mailbox["screen"].consumed)
      /\ (v4l2.hasFrame \/ v4l2.pc = "consume" => ~mailbox["v4l2"].consumed)
  BY <1>3 DEF Tokens, Announced, Told
<1> QED BY <1>1, <1>2, <1>4 DEF ConsumeFindsFrame, NewFrames, NewFramesIn

-----------------------------------------------------------------------------
(* Frames keep their order, from the decoder to the mailboxes.             *)

LEMMA RisingFacts ==
  ASSUME NEW q \in Seq(Nat), NEW low \in Nat, NEW high \in Nat, Rising(q, low, high)
  PROVE  /\ \A l \in Nat, h \in Nat : l <= low /\ high <= h => Rising(q, l, h)
         /\ q # <<>> => /\ low <= Head(q) /\ Head(q) <= high /\ Head(q) \in Nat
                        /\ Rising(Tail(q), Head(q), high)
         /\ \A f \in Nat : low <= f /\ high <= f => Rising(Append(q, f), low, f)
<1> DEFINE n == Len(q)
<1>1. /\ n \in Nat /\ \A i \in 1..n : q[i] \in Nat
      /\ \A i \in 1..n : low <= q[i] /\ q[i] <= high
      /\ \A i \in 1..n : \A j \in i..n : q[i] <= q[j]
  BY DEF Rising
<1>2. ASSUME NEW l \in Nat, NEW h \in Nat, l <= low, high <= h
      PROVE  Rising(q, l, h)
  <2>1. \A i \in 1..n : l <= q[i] /\ q[i] <= h
    BY <1>1, <1>2
  <2> QED BY <1>1, <2>1 DEF Rising
<1>3. ASSUME q # <<>>
      PROVE  /\ low <= Head(q) /\ Head(q) <= high /\ Head(q) \in Nat
             /\ Rising(Tail(q), Head(q), high)
  <2>1. /\ n >= 1 /\ Head(q) = q[1] /\ Len(Tail(q)) = n - 1
        /\ \A i \in 1..n - 1 : Tail(q)[i] = q[i + 1]
    BY <1>3
  <2> HIDE DEF n
  <2>2. \A i \in 1..n - 1 : q[1] <= q[i + 1] /\ q[i + 1] <= high
    BY <1>1, <2>1
  <2>3. \A i \in 1..n - 1 : \A j \in i..n - 1 : q[i + 1] <= q[j + 1]
    <3> SUFFICES ASSUME NEW i \in 1..n - 1, NEW j \in i..n - 1
                 PROVE  q[i + 1] <= q[j + 1]
      OBVIOUS
    <3>1. i + 1 \in 1..n /\ j + 1 \in i + 1..n
      BY <1>1, <2>1
    <3> QED BY <1>1, <3>1
  <2>4. \A i \in 1..n - 1 : \A j \in i..n - 1 : j \in 1..n - 1
    BY <1>1
  <2>5. \A i \in 1..n - 1 : \A j \in i..n - 1 : Tail(q)[i] <= Tail(q)[j]
    BY <2>1, <2>3, <2>4
  <2>6. \A i \in 1..n - 1 : Head(q) <= Tail(q)[i] /\ Tail(q)[i] <= high
    BY <2>1, <2>2
  <2>7. Rising(Tail(q), Head(q), high)
    BY <2>1, <2>5, <2>6 DEF Rising
  <2> QED BY <1>1, <2>1, <2>7
<1>4. ASSUME NEW f \in Nat, low <= f, high <= f
      PROVE  Rising(Append(q, f), low, f)
  <2> DEFINE r == Append(q, f)
  <2>1. Len(r) = n + 1 /\ r[n + 1] = f /\ \A i \in 1..n : r[i] = q[i]
    OBVIOUS
  <2> HIDE DEF r, n
  <2>2. \A i \in 1..n + 1 : i \in 1..n \/ i = n + 1
    BY <1>1
  <2>3. \A i \in 1..n + 1 : low <= r[i] /\ r[i] <= f
    <3> SUFFICES ASSUME NEW i \in 1..n + 1
                 PROVE  low <= r[i] /\ r[i] <= f
      OBVIOUS
    <3>1. CASE i \in 1..n
      BY <1>1, <1>4, <2>1, <3>1
    <3>2. CASE i = n + 1
      BY <1>4, <2>1, <3>2
    <3> QED BY <2>2, <3>1, <3>2
  <2>4. \A i \in 1..n + 1 : \A j \in i..n + 1 : r[i] <= r[j]
    <3> SUFFICES ASSUME NEW i \in 1..n + 1, NEW j \in i..n + 1
                 PROVE  r[i] <= r[j]
      OBVIOUS
    <3>1. CASE j = n + 1
      BY <2>1, <2>3, <3>1
    <3>2. CASE j # n + 1
      <4>1. i \in 1..n /\ j \in i..n /\ j \in 1..n
        BY <1>1, <3>2
      <4> QED BY <1>1, <2>1, <4>1
    <3> QED BY <3>1, <3>2
  <2>5. Rising(r, low, f)
    BY <2>1, <2>3, <2>4 DEF Rising
  <2> QED BY <2>5 DEF r
<1> QED BY <1>2, <1>3, <1>4

LEMMA NoneRising == \A l, h : Rising(<<>>, l, h)
BY DEF Rising

\* What a step does to a sink that it gives no frame.
LEMMA QuietSink ==
  ASSUME PipelineTypeOK, PipelineTypeOK', graph' = graph, NEW s \in Shown, Flowing(s),
         mailbox'[s].frame = mailbox[s].frame,
         demux.frame <= demux'.frame,
         delay'[s].held = delay[s].held, delay'[s].first = delay[s].first,
         delay'[s].queue \in {delay[s].queue, <<>>},
         delay'[s].pc \in {"timed", "deliver"} => delay[s].pc \in {"timed", "deliver"},
         job'[s] # Idle => job[s] # Idle /\ job'[s].frame = job[s].frame,
         job'["demuxer"].sink = s => job["demuxer"].sink = s
  PROVE  Flowing(s)'
<1>1. /\ delay[s] \in DelayStates /\ mailbox[s] \in Mailboxes
      /\ demux.frame \in Nat /\ demux'.frame \in Nat
  BY DEF PipelineTypeOK, DemuxStates
<1>2. /\ delay[s].queue \in Seq(Nat) /\ delay[s].held \in Nat /\ mailbox[s].frame \in Nat
  BY <1>1 DEF DelayStates, Mailboxes
<1>3. /\ Leaving(s) \in Nat /\ Leaving(s)' \in Nat /\ mailbox[s].frame <= Leaving(s)'
      /\ Leaving(s)' <= Leaving(s)
  BY <1>2 DEF Leaving, Flowing
<1>4. Rising(delay[s].queue, Leaving(s)', demux'.frame)
  BY <1>1, <1>2, <1>3, RisingFacts DEF Flowing
<1>5. Rising(delay'[s].queue, Leaving(s)', demux'.frame)
  BY <1>4, NoneRising
<1>6. Leaving(s)' <= demux'.frame
  BY <1>1, <1>3 DEF Flowing
<1> QED BY <1>3, <1>5, <1>6 DEF Flowing

\* The frame number only grows, and only between two frames.
LEMMA NumberGrows ==
  ASSUME PipelineTypeOK, Progress, Jobs, Next
  PROVE  /\ demux.frame <= demux'.frame
         /\ job["demuxer"] # Idle => demux'.frame = demux.frame
<1>1. demux \in DemuxStates /\ demux.frame \in Nat
  BY DemuxFields DEF PipelineTypeOK
<1>2. CASE demux'.frame = demux.frame
  BY <1>1, <1>2
<1>3. CASE Media
  <2>1. demux'.frame \in {demux.frame, demux.frame + 1} /\ demux.pc = "recv"
    BY <1>1, <1>3 DEF Media, DemuxStates
  <2> QED BY <1>1, <2>1 DEF Jobs
<1>4. CASE Moves /\ ~Media
  <2>1. demux'.frame = demux.frame
    BY <1>1, <1>4
      DEF Moves, Start, OpenFails, Config, DecoderFails, EndOfStream, Ending, Record, DemuxStates
  <2> QED BY <1>2, <2>1
<1>5. CASE OpenSink \/ Pushed \/ Refused \/ StopSink \/ CloseSink \/ Ended
  <2>1. demux'.frame = demux.frame
    BY <1>1, <1>5
      DEF OpenSink, Opened, Pushed, Refused, Ending, StopSink, CloseSink, Ended, DemuxStates
  <2> QED BY <1>2, <2>1
<1>6. CASE PushToSink \/ NewFrame \/ InitSize \/ SetPaused \/ Quit \/ Interrupt \/ Destroy
           \/ V4l2Wait \/ V4l2Consume \/ V4l2Encode
  <2>1. UNCHANGED demux
    BY <1>6 DEF PushToSink, NewFrame, InitSize, SetPaused, Quit, Interrupt, Destroy,
                V4l2Wait, V4l2Consume, V4l2Encode
  <2> QED BY <1>2, <2>1
<1> QED BY <1>2, <1>3, <1>4, <1>5, <1>6, Steps, Untouched

\* A sink is given a frame, or a frame is held for it.
LEMMA FrameDelivered ==
  ASSUME PipelineTypeOK, Jobs, Flow, NEW t \in Threads, PushFrame(t), PipelineTypeOK'
  PROVE  /\ Flow'
         /\ \A s \in Shown : mailbox[s].frame <= mailbox'[s].frame
<1> SUFFICES ASSUME NEW x, x = job[t].sink
             PROVE  /\ Flow'
                    /\ \A s \in Shown : mailbox[s].frame <= mailbox'[s].frame
  OBVIOUS
<1>1. /\ delay \in [Shown -> DelayStates] /\ mailbox \in [Shown -> Mailboxes]
      /\ mailbox' \in [Shown -> Mailboxes]
      /\ demux.frame \in Nat /\ x \in Shown /\ t \in {"demuxer"} \cup Shown
      /\ "demuxer" \in Threads /\ "demuxer" \notin Shown /\ Shown \subseteq Threads
  BY DemuxFields, Threads3 DEF PipelineTypeOK, PushFrame, Jobs
<1>2. \A s \in Shown : mailbox[s].frame \in Nat /\ mailbox'[s].frame \in Nat
  BY <1>1 DEF Mailboxes
<1>3. /\ mailbox'[x].frame = job[t].frame
      /\ \A s \in Shown : s # x => mailbox'[s].frame = mailbox[s].frame
  BY <1>1 DEF PushFrame
<1>4. UNCHANGED <<graph, demux, delay>>
  BY DEF PushFrame
<1>5. /\ job[t].pc = "mailbox" /\ job'[t].pc # "mailbox" /\ job'[t].sink = x
      /\ job'[t].frame = job[t].frame
      /\ \A u \in Threads : u # t => job'[u] = job[u]
  BY StepFacts DEF PushFrame
<1>6. job[t] # Idle
  BY <1>5 DEF Idle
<1>7. ASSUME NEW s \in Shown, s # x
      PROVE  Flowing(s)'
  <2>1. s # t
    BY <1>6, <1>7 DEF Jobs
  <2>2. job'[s] = job[s] /\ (job'["demuxer"].sink = s => job["demuxer"].sink = s)
    BY <1>1, <1>5, <1>7, <2>1
  <2> QED BY <1>1, <1>2, <1>3, <1>4, <1>7, <2>2, QuietSink DEF Flow
<1>8. mailbox[x].frame <= mailbox'[x].frame /\ Flowing(x)'
  <2>1. Flowing(x) /\ delay[x] \in DelayStates
    BY <1>1 DEF Flow
  <2>2. CASE t = "demuxer"
    <3>1. job[t].frame = demux.frame /\ delay[x].queue = <<>>
          /\ delay[x].pc \notin {"timed", "deliver"} /\ job'[x] = job[x]
      BY <1>1, <1>5, <2>1, <2>2, Threads3 DEF Flow, Flowing
    <3>2. mailbox[x].frame <= demux.frame /\ Leaving(x)' = demux.frame
      BY <1>1, <1>2, <1>3, <1>4, <2>1, <3>1 DEF Flowing, Leaving
    <3>3. Rising(delay'[x].queue, Leaving(x)', demux'.frame)
      BY <1>4, <3>1, NoneRising
    <3> QED BY <1>1, <1>3, <1>4, <1>5, <2>1, <3>1, <3>2, <3>3 DEF Flowing
  <2>3. CASE t \in Shown
    <3>1. t = x /\ delay[x].pc = "deliver" /\ job[x].frame = delay[x].held
      BY <1>6, <2>1, <2>3 DEF Jobs, Flowing
    <3>2. /\ Leaving(x) = delay[x].held /\ Leaving(x)' = delay[x].held
          /\ mailbox'[x].frame = delay[x].held /\ delay[x].held \in Nat
      BY <1>3, <1>4, <2>1, <3>1 DEF Leaving, DelayStates
    <3>3. job'["demuxer"] = job["demuxer"] /\ job'[x].frame = delay[x].held
      BY <1>1, <1>5, <2>3, <3>1
    <3>4. /\ mailbox[x].frame <= mailbox'[x].frame /\ mailbox'[x].frame <= Leaving(x)'
          /\ Leaving(x)' <= demux'.frame
      BY <1>2, <1>4, <2>1, <3>2 DEF Flowing
    <3>5. Rising(delay'[x].queue, Leaving(x)', demux'.frame)
      BY <1>4, <2>1, <3>2 DEF Flowing
    <3>6. ~delay'[x].first /\ job'["demuxer"].sink # x
      BY <1>4, <2>1, <3>1, <3>3 DEF Flowing
    <3> QED BY <1>4, <2>1, <3>3, <3>4, <3>5, <3>6 DEF Flowing
  <2> QED BY <1>1, <2>2, <2>3
<1>9. job'["demuxer"].sink # "none" => job'["demuxer"].frame = demux'.frame
  BY <1>1, <1>4, <1>5 DEF Flow
<1> QED BY <1>1, <1>2, <1>3, <1>7, <1>8, <1>9 DEF Flow

LEMMA FlowKept ==
  ASSUME PipelineTypeOK, PipelineTypeOK', Progress, Jobs, Alive, Flow, Next
  PROVE  Flow'
<1> DEFINE Same(s) == /\ delay'[s].held = delay[s].held /\ delay'[s].first = delay[s].first
                      /\ delay'[s].queue \in {delay[s].queue, <<>>}
                      /\ delay'[s].pc \in {"timed", "deliver"} =>
                           delay[s].pc \in {"timed", "deliver"}
           Still(s) == /\ mailbox'[s].frame = mailbox[s].frame
                       /\ job'[s] # Idle => job[s] # Idle /\ job'[s].frame = job[s].frame
                       /\ job'["demuxer"].sink = s => job["demuxer"].sink = s
           Numbered1 == job'["demuxer"].sink # "none" => job'["demuxer"].frame = demux'.frame
<1>1. /\ delay \in [Shown -> DelayStates] /\ mailbox \in [Shown -> Mailboxes]
      /\ v4l2 \in V4l2States /\ job \in [Threads -> JobStates]
      /\ "demuxer" \in Threads /\ "demuxer" \notin Shown /\ Shown \subseteq Threads
      /\ "screen" \in Shown /\ "v4l2" \in Shown
  BY Threads3 DEF PipelineTypeOK
<1>2. graph' = graph /\ demux.frame <= demux'.frame
      /\ (job["demuxer"] # Idle => demux'.frame = demux.frame)
  BY GraphKept, NumberGrows
<1>3. Idle.sink = "none" /\ \A pc : [Idle EXCEPT !.pc = pc].sink = "none"
  BY DEF Idle
<1>4. \A s \in Shown : Same(s) /\ Still(s) => Flowing(s)'
  BY <1>2, QuietSink DEF Flow
<1>5. job'["demuxer"] = job["demuxer"] => Numbered1
  BY <1>2, <1>3 DEF Flow
<1>6. \A s \in Shown : UNCHANGED delay => Same(s)
  OBVIOUS
<1>7. \A s \in Shown : UNCHANGED <<mailbox, job>> => Still(s)
  OBVIOUS
<1> HIDE DEF Same, Still, Numbered1
<1>8. CASE UNCHANGED job /\ \A s \in Shown : Same(s) /\ mailbox'[s].frame = mailbox[s].frame
  <2>1. \A s \in Shown : Still(s)
    BY <1>8 DEF Still
  <2> QED BY <1>4, <1>5, <1>8, <2>1 DEF Flow, Numbered1
<1>9. CASE Moves \/ Aside
  BY <1>6, <1>8, <1>9, Untouched
<1>10. CASE OpenSink
  <2>1. \A s \in Shown : delay'[s] = delay[s] \/ delay'[s] = [delay[s] EXCEPT !.pc = "idle"]
    BY <1>10 DEF OpenSink, Opened
  <2>2. ASSUME NEW s \in Shown
        PROVE  Same(s)
    <3>1. delay[s] \in DelayStates
      BY <1>1
    <3> QED BY <2>1, <3>1 DEF Same, DelayStates
  <2> QED BY <1>8, <1>10, <2>2 DEF OpenSink
<1>11. CASE StopSink
  <2>1. \A s \in Shown :
          \/ delay'[s] = delay[s]
          \/ delay'[s] = [delay[s] EXCEPT !.stopped = TRUE, !.pc = Awake(delay[s].pc)]
    BY <1>11 DEF StopSink, Stopping
  <2>2. ASSUME NEW s \in Shown
        PROVE  Same(s)
    <3>1. delay[s] \in DelayStates
      BY <1>1
    <3> QED BY <2>1, <3>1 DEF Same, Awake, DelayStates
  <2> QED BY <1>8, <1>11, <2>2 DEF StopSink
<1>12. CASE CloseSink \/ Ended
  BY <1>6, <1>8, <1>12 DEF CloseSink, Ended
<1>13. CASE NewFrame \/ InitSize \/ SetPaused \/ Quit \/ Interrupt \/ Destroy
            \/ V4l2Wait \/ V4l2Consume \/ V4l2Encode
  <2>1. UNCHANGED <<job, delay>>
    BY <1>13 DEF NewFrame, InitSize, SetPaused, Quit, Interrupt, Destroy,
                 V4l2Wait, V4l2Consume, V4l2Encode
  <2>2. \/ UNCHANGED mailbox
        \/ mailbox' = [mailbox EXCEPT !["screen"].consumed = TRUE]
        \/ mailbox' = [mailbox EXCEPT !["v4l2"].consumed = TRUE]
    BY <1>13 DEF NewFrame, InitSize, SetPaused, Quit, Interrupt, Destroy,
                 V4l2Wait, V4l2Consume, V4l2Encode
  <2>3. \A s \in Shown : mailbox'[s].frame = mailbox[s].frame
    BY <1>1, <2>2 DEF Mailboxes
  <2> QED BY <1>6, <1>8, <2>1, <2>3
<1>14. CASE Pushed \/ Refused
  <2>1. job' = [job EXCEPT !["demuxer"] = Idle] /\ UNCHANGED <<mailbox, delay>>
    BY <1>14 DEF Pushed, Refused
  <2>2. /\ job'["demuxer"].sink = "none" /\ "none" \notin Shown
        /\ \A s \in Shown : job'[s] = job[s]
    BY <1>1, <1>3, <2>1, Threads3
  <2>3. \A s \in Shown : Still(s)
    BY <2>1, <2>2 DEF Still
  <2>4. Numbered1
    BY <2>2 DEF Numbered1
  <2> QED BY <1>4, <1>6, <2>1, <2>3, <2>4 DEF Flow, Numbered1
<1>15. ASSUME NEW t \in Threads, Pushing(t)
       PROVE  Flow'
  <2>1. CASE PushFrame(t)
    BY <2>1, FrameDelivered
  <2>2. CASE Notify(t) \/ PushFails(t)
    <3>1. UNCHANGED <<mailbox, delay, demux>> /\ \E pc \in {"done", "failed"} : Step(t, pc)
      BY <2>2 DEF Notify, PushFails
    <3>2. /\ \A u \in Threads : job'[u].sink = job[u].sink /\ job'[u].frame = job[u].frame
          /\ job[t].pc # "idle" /\ \A u \in Threads : u # t => job'[u] = job[u]
      BY <2>2, <3>1, StepFacts DEF Notify, PushFails
    <3>3. \A s \in Shown : Still(s)
      <4>1. job[t] # Idle
        BY <3>2 DEF Idle
      <4> QED BY <1>1, <3>1, <3>2, <4>1 DEF Still
    <3>4. Numbered1
      BY <1>1, <3>1, <3>2 DEF Numbered1, Flow
    <3> QED BY <1>4, <1>6, <3>1, <3>3, <3>4 DEF Flow, Numbered1
  <2> QED BY <1>15, <2>1, <2>2 DEF Pushing
<1>16. ASSUME NEW s \in Shown, Delaying(s)
       PROVE  Flow'
  <2>1. /\ UNCHANGED <<mailbox, demux>> /\ delay[s] \in DelayStates
        /\ \A d \in Shown : d # s => job'[d] = job[d] /\ delay'[d] = delay[d]
        /\ job'["demuxer"] = job["demuxer"]
    BY <1>1, <1>16, Untouched DEF Delaying, Buffering, Deadline, Delivered
  <2>2. \A d \in Shown : d # s => Flowing(d)'
    BY <1>4, <2>1 DEF Same, Still
  <2>3. Flowing(s) /\ demux.frame \in Nat /\ mailbox[s].frame \in Nat
    BY <1>1, DemuxFields DEF Flow, PipelineTypeOK, Mailboxes
  <2>4. CASE \/ delay[s].stopped /\ (Buffering(s) \/ Deadline(s))
             \/ Delivered(s)
             \/ Buffering(s) /\ delay[s].queue = <<>>
    <3>1. /\ job'[s] = job[s] \/ job'[s] = Idle
          /\ \/ delay'[s] = [delay[s] EXCEPT !.pc = "done", !.queue = <<>>]
             \/ delay'[s] = [delay[s] EXCEPT !.pc = "done", !.stopped = TRUE, !.queue = <<>>]
             \/ delay'[s] = [delay[s] EXCEPT !.pc = "idle"]
             \/ delay'[s] = [delay[s] EXCEPT !.pc = "wait"]
      BY <1>1, <2>4 DEF Buffering, Deadline, Delivered
    <3>2. Same(s)
      BY <2>1, <3>1 DEF Same, DelayStates
    <3>3. Still(s)
      BY <2>1, <3>1 DEF Still
    <3> QED BY <1>4, <1>5, <2>1, <2>2, <3>2, <3>3 DEF Flow, Numbered1
  <2>5. CASE Buffering(s) /\ ~delay[s].stopped /\ delay[s].queue # <<>>
    <3> DEFINE q == delay[s].queue
    <3>1. /\ delay' = [delay EXCEPT ![s] = [delay[s] EXCEPT !.pc = "timed", !.queue = Tail(q),
                                                         !.held = Head(q)]]
          /\ UNCHANGED job /\ delay[s].pc = "idle"
      BY <2>5 DEF Buffering
    <3>2. /\ delay'[s].queue = Tail(q) /\ delay'[s].held = Head(q) /\ delay'[s].pc = "timed"
          /\ delay'[s].first = delay[s].first
      BY <1>1, <2>1, <3>1 DEF DelayStates
    <3>3. /\ Leaving(s) = mailbox[s].frame /\ Leaving(s)' = Head(q)
      BY <3>1, <3>2 DEF Leaving
    <3>4. /\ q \in Seq(Nat) /\ q # <<>> /\ Rising(q, mailbox[s].frame, demux.frame)
      BY <2>1, <2>3, <2>5, <3>3 DEF DelayStates, Flowing
    <3>5. /\ mailbox[s].frame <= Head(q) /\ Head(q) <= demux.frame
          /\ Rising(Tail(q), Head(q), demux.frame)
      BY <2>3, <3>4, RisingFacts
    <3>6. ~delay[s].first /\ job["demuxer"].sink # s /\ job[s] = Idle
      BY <2>3, <3>1, <3>4 DEF Flowing, Jobs
    <3> HIDE DEF q
    <3>7. Flowing(s)'
      BY <1>2, <2>1, <2>3, <3>1, <3>2, <3>3, <3>5, <3>6 DEF Flowing
    <3> QED BY <1>5, <2>1, <2>2, <3>7 DEF Flow, Numbered1
  <2>6. CASE Deadline(s) /\ ~delay[s].stopped
    <3>1. /\ delay' = [delay EXCEPT ![s].pc = "deliver"] /\ delay[s].pc = "timed"
          /\ job' = [job EXCEPT ![s] = Deliver(s, delay[s].held)]
      BY <2>6 DEF Deadline
    <3>2. /\ delay'[s].queue = delay[s].queue /\ delay'[s].held = delay[s].held
          /\ delay'[s].pc = "deliver" /\ delay'[s].first = delay[s].first
      BY <1>1, <2>1, <3>1 DEF DelayStates
    <3>3. job'[s].frame = delay[s].held /\ job'["demuxer"] = job["demuxer"]
      BY <1>1, <2>1, <3>1 DEF Deliver
    <3>4. Leaving(s) = delay[s].held /\ Leaving(s)' = delay[s].held
      BY <3>1, <3>2 DEF Leaving
    <3>5. Flowing(s)'
      BY <1>2, <2>1, <2>3, <3>1, <3>2, <3>3, <3>4 DEF Flowing
    <3> QED BY <1>5, <2>1, <2>2, <3>5 DEF Flow, Numbered1
  <2> QED BY <1>16, <2>4, <2>5, <2>6 DEF Delaying
<1>17. CASE PushToSink
  <2>0. PICK x \in Elements(FrameSinks) : GivenTo(x)
    BY <1>17, PushToSinkFacts
  <2>1. /\ UNCHANGED <<mailbox, demux>> /\ \A d \in Shown : job'[d] = job[d]
        /\ \A d \in Shown : d # x => delay'[d] = delay[d]
        /\ job["demuxer"] = Idle /\ "none" \notin Shown
    <3>1. UNCHANGED <<mailbox, demux>> /\ job["demuxer"] = Idle
      BY <1>17, PushToSinkFacts
    <3>2. "none" \notin Shown
      BY Threads3
    <3> QED BY <1>1, <2>0, <3>1, <3>2 DEF GivenTo
  <2>2. \A d \in Shown : d # x /\ job'["demuxer"].sink \in {"none", x} => Flowing(d)'
    BY <1>3, <1>4, <2>1 DEF Same, Still
  <2>3. CASE /\ job'["demuxer"] \in {[Idle EXCEPT !.pc = "player"], [Idle EXCEPT !.pc = "failed"]}
             /\ UNCHANGED delay
    <3>1. job'["demuxer"].sink = "none"
      BY <1>3, <2>3
    <3>2. \A d \in Shown : Still(d)
      BY <2>1, <3>1 DEF Still
    <3> QED BY <1>4, <1>6, <2>3, <3>1, <3>2 DEF Flow
  <2>4. ASSUME x \in Shown
        PROVE  /\ delay[x] \in DelayStates /\ Flowing(x) /\ demux.frame \in Nat
               /\ mailbox[x].frame \in Nat /\ Leaving(x) \in Nat /\ delay[x].queue \in Seq(Nat)
    <3>1. delay[x] \in DelayStates /\ mailbox[x] \in Mailboxes
      BY <1>1, <2>4
    <3> QED BY <2>4, <3>1, DemuxFields
          DEF Flow, PipelineTypeOK, Mailboxes, DelayStates, Leaving
  <2>5. CASE /\ x \in Shown /\ job'["demuxer"] = Deliver(x, demux.frame)
             /\ \/ UNCHANGED delay /\ graph[x] = "direct"
                \/ delay[x].first /\ graph[x] = "delayed"
                   /\ delay'[x] = [delay[x] EXCEPT !.first = FALSE]
    <3>1. job'["demuxer"].sink = x /\ job'["demuxer"].frame = demux.frame
      BY <2>5 DEF Deliver
    <3>2. delay[x].first /\ delay[x].queue = <<>> /\ delay[x].pc \notin {"timed", "deliver"}
      BY <2>4, <2>5 DEF Flowing
    <3>3. /\ delay'[x].queue = <<>> /\ delay'[x].pc = delay[x].pc
          /\ delay'[x].held = delay[x].held
          /\ graph[x] # "delayed" => delay'[x].first
      BY <2>4, <2>5, <3>2 DEF DelayStates
    <3>4. Leaving(x)' = mailbox[x].frame /\ Leaving(x) = mailbox[x].frame
      BY <2>1, <3>2, <3>3 DEF Leaving
    <3>5. Rising(delay'[x].queue, Leaving(x)', demux'.frame)
      BY <3>3, NoneRising
    <3>6. Flowing(x)'
      BY <1>2, <2>1, <2>4, <2>5, <3>2, <3>3, <3>4, <3>5 DEF Flowing
    <3> QED BY <2>1, <2>2, <3>1, <3>6 DEF Flow
  <2>6. CASE /\ x \in Shown /\ job'["demuxer"] = [Idle EXCEPT !.pc = "done"]
             /\ graph[x] = "delayed" /\ ~delay[x].first
             /\ delay'[x] = [delay[x] EXCEPT !.queue = Append(delay[x].queue, demux.frame),
                                             !.pc = Awake(delay[x].pc)]
    <3>1. job'["demuxer"].sink = "none"
      BY <1>3, <2>6
    <3>2. /\ delay'[x].queue = Append(delay[x].queue, demux.frame)
          /\ delay'[x].pc \in {"timed", "deliver"} <=> delay[x].pc \in {"timed", "deliver"}
          /\ delay'[x].held = delay[x].held /\ delay'[x].first = delay[x].first
      BY <2>4, <2>6 DEF DelayStates, Awake
    <3>3. Leaving(x)' = Leaving(x)
      BY <2>1, <3>2 DEF Leaving
    <3>4. Rising(delay'[x].queue, Leaving(x)', demux'.frame)
      BY <2>1, <2>4, <2>6, <3>2, <3>3, RisingFacts DEF Flowing
    <3>5. Flowing(x)'
      BY <1>2, <2>1, <2>4, <2>6, <3>1, <3>2, <3>3, <3>4 DEF Flowing
    <3> QED BY <2>1, <2>2, <3>1, <3>5 DEF Flow
  <2> QED BY <2>0, <2>3, <2>5, <2>6 DEF GivenTo
<1> QED BY <1>9, <1>10, <1>11, <1>12, <1>13, <1>14, <1>15, <1>16, <1>17, Steps

-----------------------------------------------------------------------------
(* Frames are shown in order.                                              *)

\* A mailbox never goes back to an earlier frame.
LEMMA MailboxGrows ==
  ASSUME PipelineTypeOK, PipelineTypeOK', Jobs, Flow, Next
  PROVE  \A s \in Shown : mailbox[s].frame <= mailbox'[s].frame
<1>1. \A s \in Shown : mailbox[s].frame \in Nat /\ mailbox[s] \in Mailboxes
  BY DEF PipelineTypeOK, Mailboxes
<1>2. CASE UNCHANGED mailbox
  BY <1>1, <1>2
<1>3. CASE mailbox' = [mailbox EXCEPT !["screen"].consumed = TRUE]
           \/ mailbox' = [mailbox EXCEPT !["v4l2"].consumed = TRUE]
  <2>1. mailbox \in [Shown -> Mailboxes]
    BY DEF PipelineTypeOK
  <2>2. \A s \in Shown : mailbox'[s].frame = mailbox[s].frame
    BY <1>3, <2>1 DEF Mailboxes
  <2> QED BY <1>1, <2>2
<1>4. CASE OpenSink \/ PushToSink \/ Pushed \/ Refused \/ StopSink \/ CloseSink \/ Ended
  BY <1>2, <1>4 DEF OpenSink, PushToSink, Pushed, Refused, StopSink, CloseSink, Ended
<1>5. CASE NewFrame \/ InitSize \/ SetPaused \/ Quit \/ Interrupt \/ Destroy
           \/ V4l2Wait \/ V4l2Consume \/ V4l2Encode
  BY <1>2, <1>3, <1>5 DEF NewFrame, InitSize, SetPaused, Quit, Interrupt, Destroy,
                          V4l2Wait, V4l2Consume, V4l2Encode
<1>6. ASSUME NEW t \in Threads, Pushing(t)
      PROVE  \A s \in Shown : mailbox[s].frame <= mailbox'[s].frame
  <2>1. CASE PushFrame(t)
    BY <2>1, FrameDelivered
  <2>2. CASE Notify(t) \/ PushFails(t)
    BY <1>2, <2>2 DEF Notify, PushFails
  <2> QED BY <1>6, <2>1, <2>2 DEF Pushing
<1> QED BY <1>2, <1>4, <1>5, <1>6, Steps, Untouched

LEMMA InOrderKept ==
  ASSUME PipelineTypeOK, PipelineTypeOK', Jobs, Flow, InOrder, Next
  PROVE  InOrder' /\ ui'.shown >= ui.shown /\ v4l2'.shown >= v4l2.shown
<1> DEFINE Grown == ui'.shown >= ui.shown /\ v4l2'.shown >= v4l2.shown
           m == mailbox["screen"].frame
           n == mailbox["v4l2"].frame
           UiFine == /\ ui'.shown <= m /\ ui'.resume <= m /\ ui'.shown >= ui.shown
                     /\ ui'.resume # NoFrame => ui'.shown <= ui'.resume
                     /\ ~ui'.paused => ui'.resume = NoFrame
           V4l2Fine == /\ v4l2'.shown <= v4l2'.frame /\ v4l2'.frame <= n
                       /\ v4l2'.shown >= v4l2.shown
<1>1. /\ ui \in UiStates /\ v4l2 \in V4l2States
      /\ m \in Nat /\ n \in Nat /\ m' \in Nat /\ n' \in Nat
  BY Threads3 DEF PipelineTypeOK, Mailboxes
<1>2. m <= m' /\ n <= n'
  BY MailboxGrows, Threads3
<1>3. /\ ui.shown \in Nat /\ ui.resume \in Nat /\ v4l2.shown \in Nat /\ v4l2.frame \in Nat
      /\ ui'.shown \in Nat /\ ui'.resume \in Nat /\ v4l2'.shown \in Nat /\ v4l2'.frame \in Nat
  BY DEF PipelineTypeOK, UiStates, V4l2States
<1>4. UiFine /\ V4l2Fine => InOrder' /\ Grown
  BY <1>1, <1>2, <1>3 DEF InOrder
<1>5. /\ ui.shown <= m /\ ui.resume <= m /\ (ui.resume # NoFrame => ui.shown <= ui.resume)
      /\ v4l2.shown <= v4l2.frame /\ v4l2.frame <= n
      /\ ~ui.paused => ui.resume = NoFrame
  BY DEF InOrder
<1>6. UNCHANGED <<ui.shown, ui.resume, ui.paused>> => UiFine
  BY <1>3, <1>5
<1>7. UNCHANGED <<v4l2.shown, v4l2.frame>> => V4l2Fine
  BY <1>3, <1>5
<1> HIDE DEF m, n, UiFine, V4l2Fine
<1>8. CASE UNCHANGED <<ui, v4l2>>
  BY <1>4, <1>6, <1>7, <1>8
<1>9. CASE Moves \/ Aside
  BY <1>8, <1>9, Untouched
<1>10. CASE PushToSink \/ Pushed \/ Refused \/ CloseSink \/ Ended \/ InitSize
  BY <1>8, <1>10 DEF PushToSink, Pushed, Refused, CloseSink, Ended, InitSize
<1>11. CASE OpenSink \/ StopSink
  <2>1. UNCHANGED ui /\ \/ UNCHANGED v4l2
                        \/ v4l2' = [v4l2 EXCEPT !.pc = "idle"]
                        \/ v4l2' = [v4l2 EXCEPT !.stopped = TRUE, !.pc = Awake(v4l2.pc)]
    BY <1>11 DEF OpenSink, Opened, StopSink
  <2>2. UNCHANGED <<v4l2.shown, v4l2.frame>>
    BY <1>1, <2>1 DEF V4l2States
  <2> QED BY <1>4, <1>6, <1>7, <2>1, <2>2
<1>12. ASSUME NEW t \in Threads, Pushing(t)
       PROVE  InOrder' /\ Grown
  <2>1. UNCHANGED ui
    BY <1>12, Untouched
  <2>2. UNCHANGED v4l2 \/ v4l2' = [v4l2 EXCEPT !.hasFrame = TRUE, !.pc = Awake(v4l2.pc)]
    BY <1>12 DEF Pushing, PushFrame, Notify, PushFails
  <2>3. UNCHANGED <<v4l2.shown, v4l2.frame>>
    BY <1>1, <2>2 DEF V4l2States
  <2> QED BY <1>4, <1>6, <1>7, <2>1, <2>3
<1>13. ASSUME NEW s \in Shown, Delaying(s)
       PROVE  InOrder' /\ Grown
  BY <1>8, <1>13, Untouched
<1>14. CASE NewFrame
  <2>1. /\ UNCHANGED v4l2
        /\ \/ ui' = [ui EXCEPT !.resume = m] /\ ui.paused
           \/ ui' = [ui EXCEPT !.shown = m] /\ ~ui.paused
    BY <1>14 DEF NewFrame, m
  <2>2. UiFine
    BY <1>1, <1>3, <1>5, <2>1 DEF UiFine, UiStates
  <2> QED BY <1>4, <1>7, <2>1, <2>2
<1>15. CASE SetPaused
  <2>1. /\ UNCHANGED v4l2
        /\ ui'.resume = NoFrame
        /\ ui'.shown = ui.shown \/ (ui.resume # NoFrame /\ ui'.shown = ui.resume)
    BY <1>1, <1>15 DEF SetPaused, UiStates
  <2>2. UiFine
    BY <1>1, <1>3, <1>5, <2>1 DEF UiFine, NoFrame
  <2> QED BY <1>4, <1>7, <2>1, <2>2
<1>16. CASE Quit \/ Interrupt \/ Destroy
  <2>1. UNCHANGED v4l2 /\ \E pc : ui' = [ui EXCEPT !.pc = pc]
    BY <1>16 DEF Quit, Interrupt, Destroy
  <2>2. UNCHANGED <<ui.shown, ui.resume, ui.paused>>
    BY <1>1, <2>1 DEF UiStates
  <2> QED BY <1>4, <1>6, <1>7, <2>1, <2>2
<1>17. CASE V4l2Wait \/ V4l2Encode
  <2>1. /\ UNCHANGED ui
        /\ v4l2'.frame = v4l2.frame /\ v4l2'.shown \in {v4l2.shown, v4l2.frame}
    BY <1>1, <1>17 DEF V4l2Wait, V4l2Encode, V4l2States
  <2>2. V4l2Fine
    BY <1>3, <1>5, <2>1 DEF V4l2Fine
  <2> QED BY <1>4, <1>6, <2>1, <2>2
<1>18. CASE V4l2Consume
  <2>1. UNCHANGED ui /\ v4l2'.frame = n /\ v4l2'.shown = v4l2.shown
    BY <1>1, <1>18 DEF V4l2Consume, V4l2States, n
  <2>2. V4l2Fine
    BY <1>1, <1>3, <1>5, <2>1 DEF V4l2Fine
  <2> QED BY <1>4, <1>6, <2>1, <2>2
<1> QED BY <1>9, <1>10, <1>11, <1>12, <1>13, <1>14, <1>15, <1>16, <1>17, <1>18, Steps

-----------------------------------------------------------------------------
LEMMA InitPipeline == Init => PipelineInv
<1> SUFFICES ASSUME Init
             PROVE  PipelineInv
  OBVIOUS
<1>1. graph \in Graphs /\ graph.limits \in Budgets
  BY GraphFacts DEF Init, Budgets
<1>2. /\ demux = [pc |-> "start", at |-> 1, frame |-> NoFrame, config |-> FALSE,
                  owed |-> FALSE, status |-> "error"]
      /\ \A t \in Threads : job[t] = Idle
      /\ opened = {} /\ events = <<>>
      /\ \A s \in Shown : mailbox[s] = [frame |-> NoFrame, consumed |-> TRUE]
      /\ \A s \in Shown : delay[s] = [pc |-> "off", stopped |-> FALSE, first |-> TRUE,
                                      queue |-> <<>>, held |-> NoFrame]
      /\ ui = [pc |-> "loop", paused |-> FALSE, shown |-> NoFrame, resume |-> NoFrame]
      /\ v4l2 = [pc |-> "off", stopped |-> FALSE, hasFrame |-> FALSE, header |-> NoFrame,
                 frame |-> NoFrame, shown |-> NoFrame]
  BY DEF Init
<1>3. PipelineTypeOK
  <2>1. demux \in DemuxStates /\ ui \in UiStates /\ v4l2 \in V4l2States
    BY <1>2 DEF DemuxStates, UiStates, V4l2States, NoFrame
  <2>2. job \in [Threads -> JobStates]
    BY JobTypes DEF Init
  <2>3. mailbox \in [Shown -> Mailboxes]
    BY DEF Init, Mailboxes, NoFrame
  <2>4. delay \in [Shown -> DelayStates]
    BY DEF Init, DelayStates, NoFrame
  <2>5. fps \in FpsStates
    BY DEF Init, FpsStates
  <2>6. events \in Seq(Events) /\ opened \subseteq Names /\ budget \in Budgets
    BY <1>1, <1>2 DEF Init
  <2> QED BY <1>1, <2>1, <2>2, <2>3, <2>4, <2>5, <2>6 DEF PipelineTypeOK
<1>4. Progress
  <2>1. OpenCount = 0 /\ demux.pc = "start" /\ demux.at = 1 /\ ui.pc = "loop"
    BY <1>2 DEF OpenCount
  <2> QED BY <1>1, <1>2, <2>1, OpeningFacts, SinksFacts DEF Progress
<1>5. \A t \in Threads : job[t].pc = "idle" /\ job[t].sink = "none"
  BY <1>2 DEF Idle
<1>6. /\ \A s \in Shown : s \in Threads /\ delay[s].pc = "off" /\ delay[s].first
           /\ delay[s].queue = <<>> /\ mailbox[s].frame = 0
      /\ "demuxer" \in Threads /\ demux.frame = 0
  BY <1>2, Threads3 DEF NoFrame
<1>7. Jobs /\ Alive
  BY <1>2, <1>5, <1>6 DEF Jobs, Alive
<1>8. Tokens
  <2>1. NewFrames = {}
    BY <1>2 DEF NewFrames, NewFramesIn
  <2>2. \A s \in Shown : Notifying(s) = {} /\ ~Told(s)
    BY <1>2, <1>5, <2>1 DEF Notifying, Told
  <2> QED BY <1>2, <2>1, <2>2 DEF Tokens, Announced
<1>9. Flow
  <2>1. \A s \in Shown : Leaving(s) = 0
    BY <1>6 DEF Leaving
  <2> QED BY <1>2, <1>5, <1>6, <2>1, NoneRising DEF Flow, Flowing
<1>10. InOrder
  BY <1>2, <1>6, Threads3 DEF InOrder, NoFrame
<1> QED BY <1>3, <1>4, <1>7, <1>8, <1>9, <1>10 DEF PipelineInv

LEMMA TypesKept ==
  ASSUME PipelineTypeOK, Progress, Jobs, Next
  PROVE  PipelineTypeOK'
<1>1. CASE Audio
  BY <1>1 DEF Audio, videoVars, PipelineTypeOK
<1> QED BY <1>1, DemuxerTypes, OtherTypes, BufferTypes DEF Next

LEMMA PipelineStep == PipelineInv /\ [Next]_vars => PipelineInv'
<1> SUFFICES ASSUME PipelineInv, [Next]_vars
             PROVE  PipelineInv'
  OBVIOUS
<1>1. CASE Next
  <2>1. PipelineTypeOK'
    BY <1>1, TypesKept DEF PipelineInv
  <2>2. Progress' /\ Jobs' /\ Alive'
    BY <1>1, ProgressKept, JobsKept, AliveKept DEF PipelineInv
  <2>3. Tokens' /\ Flow' /\ InOrder'
    BY <1>1, <2>1, TokensKept, FlowKept, InOrderKept DEF PipelineInv
  <2> QED BY <2>1, <2>2, <2>3 DEF PipelineInv
<1>2. CASE UNCHANGED vars
  <2>1. UNCHANGED <<graph, demux, job, opened, mailbox, delay, events, ui, v4l2, fps, budget>>
    BY <1>2 DEF vars, videoVars
  <2>2. Opening' = Opening /\ FrameSinks' = FrameSinks
    BY <2>1 DEF Opening, FrameSinks, Branch, Decoded
  <2>3. PipelineTypeOK'
    BY <2>1 DEF PipelineInv, PipelineTypeOK
  <2>4. Progress' /\ Jobs' /\ Alive'
    BY <2>1, <2>2 DEF PipelineInv, Progress, OpenCount, Sinks, Jobs, Alive
  <2>5. Tokens'
    BY <2>1 DEF PipelineInv, Tokens, Announced, Told, Notifying, NewFrames
  <2>6. Flow' /\ InOrder'
    BY <2>1 DEF PipelineInv, Flow, Flowing, Leaving, InOrder
  <2> QED BY <2>3, <2>4, <2>5, <2>6 DEF PipelineInv
<1> QED BY <1>1, <1>2

\* The variables keep their types, and the parts of the invariant hold together,
\* at every step of the demuxer, of the delay buffers, of V4L2 and of the screen.
THEOREM PipelineInvariance == Spec => []PipelineInv
<1>1. Init => PipelineInv
  BY InitPipeline
<1>2. PipelineInv /\ [Next]_vars => PipelineInv'
  BY PipelineStep
<1> QED BY <1>1, <1>2, PTL DEF Spec

\* A consumer that is told of a frame finds one in its mailbox, not consumed
\* (assert, frame_buffer.c), and one event at most waits for the screen, though
\* the mailbox is filled under its mutex and the consumer told after it.
THEOREM EveryFrameAnnounced == Spec => []ConsumeFindsFrame
<1>1. PipelineInv => ConsumeFindsFrame
  BY TokensSuffice DEF PipelineInv
<1> QED BY <1>1, PipelineInvariance, PTL

\* A sink is given frames, and its threads run, only while it is open, in
\* whatever order opening fails, sinks refuse or the stream ends; the screen is
\* destroyed last (sc_frame_source_sinks_close, assert in sc_screen_destroy).
THEOREM SinksClosedLast == Spec => []NothingPushedAfterClose
<1>1. PipelineInv => NothingPushedAfterClose
  BY GivenWhileOpen DEF PipelineInv
<1> QED BY <1>1, PipelineInvariance, PTL

\* Frames are shown in the order they were decoded, on the screen and by V4L2,
\* though the first one overtakes the delay buffer (sc_delay_buffer_frame_sink_push)
\* and a pause keeps one aside (sc_screen_set_paused).
THEOREM ShownInOrder == Spec => FramesInOrder
<1>1. PipelineInv /\ PipelineInv' /\ [Next]_vars
      => [ui'.shown >= ui.shown /\ v4l2'.shown >= v4l2.shown]_vars
  BY InOrderKept DEF PipelineInv
<1> QED BY <1>1, PipelineInvariance, PTL DEF Spec, FramesInOrder

-----------------------------------------------------------------------------
(* The audio of a pipeline.                                                *)

LEMMA AudioStep == PipelineInv /\ [Next]_vars => [AudioNext]_audioVars
<1> SUFFICES ASSUME PipelineInv, Next
             PROVE  AudioNext \/ UNCHANGED audioVars
  BY DEF vars
<1>1. CASE Audio
  BY <1>1 DEF Audio, AudioNext
<1>2. CASE SwitchFps \/ Fps
  BY <1>2 DEF SwitchFps, Fps, FpsCheck, FpsWait, FpsTick
<1>3. CASE Moves
  BY <1>3 DEF Moves, Start, OpenFails, Config, Media, DecoderFails, EndOfStream, Record
<1>4. CASE OpenSink \/ Pushed \/ Refused \/ StopSink \/ CloseSink \/ Ended
  BY <1>4 DEF OpenSink, Pushed, Refused, StopSink, CloseSink, Ended
<1>5. CASE PushToSink
  BY <1>5, PushToSinkFacts DEF AudioNext, PipelineInv
<1>6. ASSUME NEW t \in Threads, Pushing(t)
      PROVE  UNCHANGED audioVars
  BY <1>6 DEF Pushing, PushFrame, Notify, PushFails
<1>7. ASSUME NEW s \in Shown, Delaying(s)
      PROVE  UNCHANGED audioVars
  BY <1>7 DEF Delaying, Buffering, Deadline, Delivered
<1>8. CASE NewFrame \/ InitSize \/ SetPaused \/ Quit \/ Interrupt \/ Destroy
           \/ V4l2Wait \/ V4l2Consume \/ V4l2Encode
  BY <1>8 DEF NewFrame, InitSize, SetPaused, Quit, Interrupt, Destroy,
              V4l2Wait, V4l2Consume, V4l2Encode
<1> QED BY <1>1, <1>2, <1>3, <1>4, <1>5, <1>6, <1>7, <1>8, Steps DEF Aside

\* A pipeline implements the audio player's specification: the demuxer gives it
\* a frame only when it has dealt with the one before, and SDL calls back only
\* between the opening and the closing of the player.
THEOREM PipelinePlaysAudio == Spec => AudioSpec
<1>1. Init => AudioInit
  BY DEF Init
<1> QED BY <1>1, AudioStep, PipelineInvariance, PTL DEF Spec, AudioSpec

\* So the latency of a pipeline is bounded (sc_audio_player_frame_sink_push).
THEOREM PipelineLatency == Spec => []LatencyBounded
BY PipelinePlaysAudio, LatencyIsBounded, PTL

\* And its samples are played in order, the oldest dropped first (sc_audiobuf).
THEOREM PipelineQueue == Spec => PlaysInOrder
BY PipelinePlaysAudio, RingIsAQueue, PTL
=============================================================================
