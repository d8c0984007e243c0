------------------------ MODULE SurfaceEncoderProofs ------------------------
(***************************************************************************)
(* Proofs about SurfaceEncoder: no reset is lost between two captures, the  *)
(* codec other threads may signal is started, and everything is released.   *)
(***************************************************************************)
EXTENDS SurfaceEncoder, TLAPS

Starting == {"session", "configure", "register", "check", "consume"}
Working  == {"create", "init", "top", "prepare"} \cup Starting \cup Encoding
Idle     == {"create", "init", "top", "prepare", "session", "configure", "release", "done"}

\* A reset asked for since the display was read is still to be consumed.
Owed == owed /\ pc \in Starting => reset

\* What streamCapture holds where.
Holds ==
  /\ pc \in Encoding => running
  /\ pc = "register" => codec = "started"
  /\ pc \in Idle => ~captured
  /\ pc \in {"create", "init", "done"} => ~registered
  /\ pc = "create" => codec = "none"
  /\ pc = "done" => codec \in {"none", "released"} \/ leak # "no"

\* There is an error left to make, or the thread is on its way out.
ErrorsLeft ==
  /\ pc \in Working => errors < MaxErrors
  /\ pc \in {"unregister", "halt"} /\ alive => errors < MaxErrors

IInv ==
  /\ TypeOK
  /\ RegisteredIsStarted
  /\ Owed
  /\ Holds
  /\ ErrorsLeft
  /\ ResetHonoured

USE DEF Displays, Resetters, Encoding

LEMMA Initially == Init => IInv
<1> SUFFICES ASSUME Init PROVE IInv
  OBVIOUS
<1>1. TypeOK
  <2>1. Flags
    BY DEF Init, Flags
  <2>2. 0 \in 0..MaxErrors
    BY MaxErrorsAssumption
  <2> QED BY <2>1, <2>2, SizesAssumption DEF Init, TypeOK
<1>2. RegisteredIsStarted /\ Owed /\ Holds /\ ErrorsLeft /\ ResetHonoured
  BY MaxErrorsAssumption
  DEF Init, RegisteredIsStarted, Owed, Holds, ErrorsLeft, ResetHonoured, Starting, Working, Idle
<1> QED BY <1>1, <1>2 DEF IInv

\* Trying again leaves an error to make or gives up.
LEMMA Retrying ==
  ASSUME TypeOK, errors < MaxErrors, PrepareRetry
  PROVE  /\ alive' \in BOOLEAN
         /\ maxSize' \in Fallback \cup {0}
         /\ errors' \in 0..MaxErrors
         /\ alive' => errors' < MaxErrors
<1>1. CASE framed /\ errors' = CountError(errors) /\ alive' = MayRetry(errors') /\ UNCHANGED maxSize
  <2>1. errors' \in 0..MaxErrors
    BY <1>1, MaxErrorsAssumption DEF TypeOK, CountError
  <2>2. alive' = (errors' < MaxErrors) /\ maxSize' = maxSize
    BY <1>1 DEF MayRetry
  <2>3. CASE errors' < MaxErrors
    <3>1. alive' = TRUE
      BY <2>2, <2>3, Zenon
    <3> QED BY <2>1, <2>2, <2>3, <3>1 DEF TypeOK
  <2>4. CASE ~(errors' < MaxErrors)
    <3>1. ~alive'
      BY <2>2, <2>4, Zenon
    <3>2. alive' \in BOOLEAN
      BY <2>2
    <3> QED BY <2>1, <2>2, <3>1, <3>2 DEF TypeOK
  <2> QED BY <2>3, <2>4
<1>2. CASE /\ ~framed /\ Downsize /\ Smaller # {}
           /\ maxSize' \in {v \in Smaller : \A u \in Smaller : u <= v}
           /\ alive' = TRUE /\ UNCHANGED errors
  BY <1>2 DEF TypeOK, Smaller
<1>3. CASE ~framed /\ alive' = FALSE /\ UNCHANGED <<errors, maxSize>>
  BY <1>3 DEF TypeOK
<1> QED BY <1>1, <1>2, <1>3 DEF PrepareRetry

LEMMA Inductive == IInv /\ [Next]_vars => IInv'
<1> SUFFICES ASSUME IInv, [Next]_vars PROVE IInv'
  OBVIOUS
<1> USE SizesAssumption, NoSizeAssumption, MaxErrorsAssumption
    DEF IInv, TypeOK, RegisteredIsStarted, Owed, Holds, ErrorsLeft, ResetHonoured,
        Starting, Working, Idle
<1> USE DEF deviceVars, monitorVars, controlVars, mainVars, resetVars, retryVars, captureVars,
            codecVars, others
<1>1. ASSUME NEW thread \in Resetters, EnterReset(thread) PROVE IInv'
  <2>1. Flags'
    BY <1>1 DEF EnterReset, Flags
  <2> QED BY <1>1, <2>1 DEF EnterReset
<1>2. CASE LeaveReset
  <2>1. Flags'
    BY <1>2 DEF LeaveReset, Flags
  <2>2. TypeOK'
    BY <1>2, <2>1 DEF LeaveReset
  <2>3. pc = "encode" => eos'
    BY <1>2 DEF LeaveReset
  <2> QED BY <1>2, <2>2, <2>3 DEF LeaveReset
<1>3. CASE ChangeDisplay
  <2>1. Flags'
    BY <1>3 DEF ChangeDisplay, Flags
  <2> QED BY <1>3, <2>1 DEF ChangeDisplay
<1>4. CASE Look
  <2>1. Flags'
    BY <1>4 DEF Look, Flags
  <2> QED BY <1>4, <2>1 DEF Look
<1>5. CASE Compare
  <2>1. Flags'
    BY <1>5 DEF Compare, Flags
  <2> QED BY <1>5, <2>1 DEF Compare
<1>6. CASE Record
  <2>1. Flags'
    BY <1>6 DEF Record, Flags
  <2> QED BY <1>6, <2>1 DEF Record
<1>7. CASE RequestInvalidate
  <2>1. Flags'
    BY <1>7 DEF RequestInvalidate, Flags
  <2>2. requests' \in Nat
    BY <1>7 DEF RequestInvalidate
  <2>3. asking' \subseteq Resetters /\ control' \in {"running", "dead"}
    <3>1. CASE NoListener
      BY <1>7, <3>1 DEF RequestInvalidate
    <3>2. CASE ~NoListener
      BY <1>7, <3>2 DEF RequestInvalidate
    <3> QED BY <3>1, <3>2
  <2>4. UNCHANGED <<inside, reset, running, eos, owed, deviceVars, monitorVars, session, mainVars,
                    pc, retryVars, codecVars, captureVars>>
    BY <1>7 DEF RequestInvalidate
  <2> QED BY <2>1, <2>2, <2>3, <2>4
<1>8. CASE StopEncoder
  <2>1. Flags'
    BY <1>8 DEF StopEncoder, Flags
  <2> QED BY <1>8, <2>1 DEF StopEncoder
<1>9. CASE QuitGl
  <2>1. Flags'
    BY <1>9 DEF QuitGl, Flags
  <2> QED BY <1>9, <2>1 DEF QuitGl
<1>10. CASE Exit
  <2>1. Flags'
    BY <1>10 DEF Exit, Flags
  <2> QED BY <1>10, <2>1 DEF Exit
<1>11. CASE Create
  <2>1. Flags'
    BY <1>11 DEF Create, Flags
  <2> QED BY <1>11, <2>1 DEF Create
<1>12. CASE InitCapture
  <2>1. Flags'
    BY <1>12 DEF InitCapture, Flags
  <2> QED BY <1>12, <2>1 DEF InitCapture
<1>13. CASE Top
  <2>1. Flags'
    BY <1>13 DEF Top, Flags
  <2> QED BY <1>13, <2>1 DEF Top
<1>14. CASE Prepare
  <2>1. Flags'
    BY <1>14 DEF Prepare, Flags
  <2> QED BY <1>14, <2>1 DEF Prepare
<1>15. CASE SetSession
  <2>1. Flags'
    BY <1>15 DEF SetSession, Flags
  <2> QED BY <1>15, <2>1 DEF SetSession
<1>16. CASE Configure
  <2>1. Flags'
    BY <1>16 DEF Configure, NoFilter, StartRunner, Flags
  <2> QED BY <1>16, <2>1 DEF Configure, NoFilter, StartRunner
<1>17. CASE ConfigureFails
  <2>1. PrepareRetry /\ errors < MaxErrors
    BY <1>17 DEF ConfigureFails
  <2>2. /\ alive' \in BOOLEAN /\ maxSize' \in Fallback \cup {0}
        /\ errors' \in 0..MaxErrors /\ (alive' => errors' < MaxErrors)
    BY <2>1, Retrying
  <2>3. Flags'
    BY <1>17, <2>2 DEF ConfigureFails, NoFilter, StartRunner, Flags
  <2> QED BY <1>17, <2>2, <2>3 DEF ConfigureFails, NoFilter, StartRunner
<1>18. CASE ConfigureDies
  <2>1. Flags'
    BY <1>18 DEF ConfigureDies, NoFilter, StartRunner, Flags
  <2> QED BY <1>18, <2>1 DEF ConfigureDies, NoFilter, StartRunner
<1>19. CASE ConfigureStuck
  <2>1. Flags'
    BY <1>19 DEF ConfigureStuck, StartRunner, Flags
  <2> QED BY <1>19, <2>1 DEF ConfigureStuck, StartRunner
<1>20. CASE Register
  <2>1. Flags'
    BY <1>20 DEF Register, Flags
  <2> QED BY <1>20, <2>1 DEF Register
<1>21. CASE Check
  <2>1. Flags'
    BY <1>21 DEF Check, Flags
  <2> QED BY <1>21, <2>1 DEF Check
<1>22. CASE Consume
  <2>1. Flags'
    BY <1>22 DEF Consume, Flags
  <2> QED BY <1>22, <2>1 DEF Consume
<1>23. CASE Frame
  <2>1. Flags'
    BY <1>23 DEF Frame, Flags
  <2> QED BY <1>23, <2>1 DEF Frame
<1>24. CASE EndOfStream
  <2>1. Flags'
    BY <1>24 DEF EndOfStream, Flags
  <2> QED BY <1>24, <2>1 DEF EndOfStream
<1>25. CASE EncodeFails
  <2>1. CASE PrepareRetry
    <3>1. /\ alive' \in BOOLEAN /\ maxSize' \in Fallback \cup {0}
          /\ errors' \in 0..MaxErrors /\ (alive' => errors' < MaxErrors)
      BY <1>25, <2>1, Retrying DEF EncodeFails
    <3>2. Flags'
      BY <1>25, <3>1 DEF EncodeFails, Flags
    <3> QED BY <1>25, <3>1, <3>2 DEF EncodeFails
  <2>2. CASE alive' = FALSE /\ UNCHANGED <<errors, maxSize>>
    <3>1. Flags'
      BY <1>25, <2>2 DEF EncodeFails, Flags
    <3> QED BY <1>25, <2>2, <3>1 DEF EncodeFails
  <2> QED BY <1>25, <2>1, <2>2 DEF EncodeFails
<1>26. CASE After
  <2>1. Flags'
    BY <1>26 DEF After, Flags
  <2> QED BY <1>26, <2>1 DEF After
<1>27. CASE Unregister
  <2>1. Flags'
    BY <1>27 DEF Unregister, Flags
  <2> QED BY <1>27, <2>1 DEF Unregister
<1>28. CASE Halt
  <2>1. Flags'
    BY <1>28 DEF Halt, Flags
  <2> QED BY <1>28, <2>1 DEF Halt
<1>29. CASE Release
  <2>1. Flags'
    BY <1>29 DEF Release, Flags
  <2> QED BY <1>29, <2>1 DEF Release
<1>30. CASE UNCHANGED vars
  <2>1. Flags'
    BY <1>30 DEF vars, Flags
  <2> QED BY <1>30, <2>1 DEF vars
<1> QED
  BY <1>1, <1>2, <1>3, <1>4, <1>5, <1>6, <1>7, <1>8, <1>9, <1>10, <1>11, <1>12, <1>13, <1>14,
     <1>15, <1>16, <1>17, <1>18, <1>19, <1>20, <1>21, <1>22, <1>23, <1>24, <1>25, <1>26, <1>27,
     <1>28, <1>29, <1>30
  DEF Next, Monitor, Main, Steps

\* The inductive invariant holds in every behaviour.
THEOREM Invariance == Spec => []IInv
  BY Initially, Inductive, PTL DEF Spec

\* The types of the encoder's state, for all sizes, fallbacks and limits.
THEOREM TypeCorrect == Spec => []TypeOK
<1>1. IInv => TypeOK
  BY DEF IInv
<1> QED BY <1>1, Invariance, PTL

\* SurfaceEncoder and CaptureReset never lose a reset between two captures.
THEOREM ResetNotLost == Spec => []ResetHonoured
<1>1. IInv => ResetHonoured
  BY DEF IInv
<1> QED BY <1>1, Invariance, PTL

\* CaptureReset only ever signals a codec that is started.
THEOREM SignalsSafe == Spec => []RegisteredIsStarted
<1>1. IInv => RegisteredIsStarted
  BY DEF IInv
<1> QED BY <1>1, Invariance, PTL

\* However streamCapture ends, the capture and the codec are released, but for
\* the codec that createMediaCodec rejects or that capture.init, thrown out of,
\* leaves.
THEOREM EndReleases == Spec => []ReleasedAtEnd
<1>1. IInv => ReleasedAtEnd
  BY DEF IInv, Holds, RegisteredIsStarted, ReleasedAtEnd, Idle
<1> QED BY <1>1, Invariance, PTL

=============================================================================
