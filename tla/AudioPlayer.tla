---------------------------- MODULE AudioPlayer ----------------------------
(***************************************************************************)
(* The audio regulator (audio_regulator.c) and its ring buffer               *)
(* (util/audiobuf.c): the thread of the audio decoder pushes the samples of  *)
(* a frame while the audio thread of SDL pulls the samples to play           *)
(* (audio_player.c).  Each cursor of the ring is written by one side only,   *)
(* except that the producer moves the reader's, under the mutex, to drop     *)
(* old samples.                                                             *)
(*                                                                          *)
(* An action loads the cursors, copies samples, publishes a cursor, or is a  *)
(* critical section.  Samples are numbers modulo Labels.  The resampler is   *)
(* external: it turns n samples into n - 1, n or n + 1, never none (the       *)
(* compensation, whose estimate is floating-point arithmetic, is left out    *)
(* with it).                                                                *)
(***************************************************************************)
EXTENDS Integers, Sequences

CONSTANTS
  Target,         \* target_buffering, in samples
  Rate,           \* sample_rate: the ring holds one second more than the target
  InitialMargin,  \* 10 ms of samples
  PlayedMargin,   \* 60 ms of samples
  Inputs,         \* samples of a decoded frame
  Request,        \* samples SDL requests at once
  Labels          \* bound: samples are numbered modulo Labels

ASSUME SizesAssumption ==
  /\ Target \in Nat \ {0} /\ Rate \in Nat \ {0} /\ Request \in Nat \ {0}
  /\ InitialMargin \in Nat /\ PlayedMargin \in Nat
  /\ Inputs \subseteq 1..Rate - 1
ASSUME LabelsAssumption == Labels \in Nat /\ Labels > Target + 2 * Rate

VARIABLES
  ring,       \* buf.data
  head,       \* buf.head, the writer's cursor
  tail,       \* buf.tail, the reader's cursor
  lock,       \* who holds ar.mutex between two actions: none, push, pull
  push,       \* the producer: where it is, the size of the frame or the threshold,
              \* the samples copied but not published, those not copied yet
  pull,       \* the consumer: where it is, how many samples it takes, those copied
  played,     \* ar.played
  received,   \* ar.received
  next,       \* number of the next sample decoded
  out         \* samples being handed to SDL, before the silence

shared == <<ring, head, tail, lock>>
audioVars == <<shared, push, pull, played, received, next, out>>

-----------------------------------------------------------------------------
Silence == 0
Size == Target + Rate + 1
Capacity == Size - 1
Slots == 0..Size - 1

Least(a, b) == IF a < b THEN a ELSE b
Label(n) == ((n - 1) % Labels) + 1

CanRead  == (Size + head - tail) % Size
CanWrite == (Size + tail - head - 1) % Size

At(cursor, i) == (cursor + i) % Size

Contents(n) == [i \in 1..n |-> ring[At(tail, i - 1)]]

Copied(block) ==
  [slot \in Slots |->
     LET i == ((Size + slot - head) % Size) + 1 IN
     IF i <= Len(block) THEN block[i] ELSE ring[slot]]

Samples(first, n) == [i \in 1..n |-> Label(first + i - 1)]

\* swr_buf skips the oldest samples when a frame exceeds the whole ring.
Fitting(block) ==
  IF Len(block) > Capacity
  THEN SubSeq(block, Len(block) - Capacity + 1, Len(block))
  ELSE block

\* Mutant: fewer samples than the target are kept before playback starts.
MaxBufferedHalf ==
  IF played THEN ((Target * 11) \div 10) + PlayedMargin ELSE (Target \div 2) + InitialMargin

MaxBuffered ==
  IF played THEN ((Target * 11) \div 10) + PlayedMargin ELSE Target + InitialMargin

-----------------------------------------------------------------------------
(* The consumer: sc_audio_regulator_pull, called by SDL.  Until playback     *)
(* starts, a call that finds too few samples plays silence and changes       *)
(* nothing.                                                                 *)

Pull ==
  /\ pull.pc = "idle" /\ lock = "none"
  /\ played \/ CanRead >= Target
  /\ lock' = "pull"
  /\ pull' = [pc |-> "copy", n |-> Least(Request, CanRead), block |-> <<>>]
  /\ UNCHANGED <<ring, head, tail, push, played, received, next, out>>

PullCopy ==
  /\ pull.pc = "copy"
  /\ pull' = [pull EXCEPT !.pc = "publish", !.block = Contents(pull.n)]
  /\ UNCHANGED <<shared, push, played, received, next, out>>

PullPublish ==
  /\ pull.pc = "publish"
  /\ tail' = At(tail, pull.n)
  /\ lock' = "none"
  /\ out' = pull.block
  /\ pull' = [pc |-> "played", n |-> 0, block |-> <<>>]
  /\ UNCHANGED <<ring, head, push, played, received, next>>

PullEnd ==
  /\ pull.pc = "played"
  /\ played' = TRUE
  /\ pull' = [pull EXCEPT !.pc = "idle"]
  /\ out' = <<>>
  /\ UNCHANGED <<shared, push, received, next>>

-----------------------------------------------------------------------------
(* The producer: sc_audio_regulator_push.                                   *)

PushTo(pc, block, rest) ==
  push' = [pc |-> pc, amount |-> 0, block |-> block, rest |-> rest]

\* More than 100 ms are missing before this frame: the buffering is adjusted
\* to the target with silence.
PushGap(input) ==
  LET missing == Target - CanRead - input
      silence == [i \in 1..missing |-> Silence] IN
  /\ received
  /\ missing > 0
  /\ ring' = Copied(silence)
  /\ push' = [pc |-> "silence", amount |-> input, block |-> silence, rest |-> <<>>]
  /\ UNCHANGED <<head, tail, lock, pull, played, received, next, out>>

Push(input) ==
  /\ push' = [pc |-> "convert", amount |-> input, block |-> <<>>, rest |-> <<>>]
  /\ UNCHANGED <<shared, pull, played, received, next, out>>

PushStart == push.pc = "idle" /\ \E input \in Inputs : Push(input) \/ PushGap(input)

PushSilence ==
  /\ push.pc = "silence"
  /\ head' = At(head, Len(push.block))
  /\ push' = [push EXCEPT !.pc = "convert", !.block = <<>>]
  /\ UNCHANGED <<ring, tail, lock, pull, played, received, next, out>>

Copy(samples) ==
  LET n == Least(Len(samples), CanWrite) IN
  /\ ring' = Copied(SubSeq(samples, 1, n))
  /\ PushTo("publish", SubSeq(samples, 1, n), SubSeq(samples, n + 1, Len(samples)))

PushConvert ==
  /\ push.pc = "convert"
  /\ \E n \in (push.amount - 1..push.amount + 1) \ {0} :
       Copy(Fitting(Samples(next, n))) /\ next' = Label(next + n)
  /\ UNCHANGED <<head, tail, lock, pull, played, received, out>>

PushPublish ==
  /\ push.pc = "publish"
  /\ head' = At(head, Len(push.block))
  /\ PushTo(IF push.rest = <<>> THEN "trim" ELSE "full", <<>>, push.rest)
  /\ UNCHANGED <<ring, tail, lock, pull, played, received, next, out>>

\* The write is tried again with the lock, then old samples make room.
PushFull ==
  LET n == Least(Len(push.rest), CanWrite) IN
  /\ push.pc = "full" /\ lock = "none"
  /\ ring' = Copied(SubSeq(push.rest, 1, n))
  /\ head' = At(head, n)
  /\ IF n = Len(push.rest)
     THEN lock' = "none" /\ PushTo("trim", <<>>, <<>>)
     ELSE lock' = "push"
          /\ PushTo("drop", <<>>, SubSeq(push.rest, n + 1, Len(push.rest)))
  /\ UNCHANGED <<tail, pull, played, received, next, out>>

PushDrop ==
  /\ push.pc = "drop"
  /\ tail' = At(tail, Least(Len(push.rest), CanRead))
  /\ lock' = "none"
  /\ PushTo("last", <<>>, push.rest)
  /\ UNCHANGED <<ring, head, pull, played, received, next, out>>

\* "Now there is enough space": no lock, and the code asserts that it fits.
PushLast ==
  /\ push.pc = "last"
  /\ Copy(push.rest)
  /\ UNCHANGED <<head, tail, lock, pull, played, received, next, out>>

\* Mutant: the excess is only dropped once playback started.
PushTrimPlayed ==
  /\ push.pc = "trim"
  /\ push' = [push EXCEPT
       !.pc = IF played /\ CanRead > MaxBuffered THEN "excess" ELSE "end",
       !.amount = IF played /\ CanRead > MaxBuffered THEN MaxBuffered ELSE 0]
  /\ UNCHANGED <<shared, pull, played, received, next, out>>

PushTrim ==
  /\ push.pc = "trim"
  /\ push' = [push EXCEPT !.pc = IF CanRead > MaxBuffered THEN "excess" ELSE "end",
                          !.amount = IF CanRead > MaxBuffered THEN MaxBuffered ELSE 0]
  /\ UNCHANGED <<shared, pull, played, received, next, out>>

\* Mutant: the excess is dropped without the mutex.
PushExcessUnlocked ==
  /\ push.pc = "excess"
  /\ tail' = IF CanRead > push.amount THEN At(tail, CanRead - push.amount) ELSE tail
  /\ PushTo("end", <<>>, <<>>)
  /\ UNCHANGED <<ring, head, lock, pull, played, received, next, out>>

PushExcess ==
  /\ push.pc = "excess" /\ lock = "none"
  /\ tail' = IF CanRead > push.amount THEN At(tail, CanRead - push.amount) ELSE tail
  /\ PushTo("end", <<>>, <<>>)
  /\ UNCHANGED <<ring, head, lock, pull, played, received, next, out>>

PushEnd ==
  /\ push.pc = "end"
  /\ received' = TRUE
  /\ push' = [push EXCEPT !.pc = "idle"]
  /\ UNCHANGED <<shared, pull, played, next, out>>

-----------------------------------------------------------------------------
AudioInit ==
  /\ ring = [slot \in Slots |-> Silence]
  /\ head = 0 /\ tail = 0 /\ lock = "none"
  /\ push = [pc |-> "idle", amount |-> 0, block |-> <<>>, rest |-> <<>>]
  /\ pull = [pc |-> "idle", n |-> 0, block |-> <<>>]
  /\ played = FALSE /\ received = FALSE
  /\ next = 1 /\ out = <<>>

Producer ==
  \/ PushSilence \/ PushConvert \/ PushPublish \/ PushFull \/ PushDrop
  \/ PushLast \/ PushTrim \/ PushExcess \/ PushEnd

Consumer == Pull \/ PullCopy \/ PullPublish \/ PullEnd

AudioNext == PushStart \/ Producer \/ Consumer

AudioSpec == AudioInit /\ [][AudioNext]_audioVars

-----------------------------------------------------------------------------
\* The ring is the queue of samples between its cursors: what is played is
\* what was decoded, in order, and dropping leaves at least the target.
Fifo == INSTANCE SampleQueue WITH
  queue <- Contents(CanRead),
  due   <- LET pending == push.block \o push.rest IN
           IF push.pc # "silence" /\ pending # <<>> THEN pending[1] ELSE next

PlaysInOrder == Fifo!Spec

\* Once a frame is pushed, no more than the threshold is buffered, so that the
\* latency stays bounded whatever the device sends; and the write that follows
\* a drop finds room, though it does not hold the lock (audio_regulator.c:235).
LatencyBounded ==
  /\ push.pc \in {"end", "idle"} => CanRead <= ((Target * 11) \div 10) + PlayedMargin
                                    \/ CanRead <= Target + InitialMargin
  /\ push.pc = "last" => CanWrite >= Len(push.rest)


=============================================================================
